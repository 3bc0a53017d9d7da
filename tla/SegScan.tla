------------------------------- MODULE SegScan -------------------------------
(***************************************************************************)
(* The code LowerSegScan (mlir-backend/compiler.hpp) emits for a SegScan,   *)
(* run: an scf.forall with one thread for each row, in each an scf.for that *)
(* carries the accumulators and the row it has built so far, and at the end *)
(* a tensor.parallel_insert_slice of the row into the shared output.  The   *)
(* threads interleave at every operation that can be seen outside a thread: *)
(* the insertion of a row is not atomic.                                    *)
(*                                                                          *)
(* The tuple of the scan's values is one value, so is the tuple of the      *)
(* outputs; index casts and tie_shape change no value and are left out.     *)
(***************************************************************************)
EXTENDS Integers

CONSTANTS
    Row,       \* index tuples of the scf.forall: {<<>>} in a scan of rank 1
    Val,       \* values of segBinOp
    Neutral,   \* segBinOp.neutral
    Op,        \* Op[a][b]: segBinOp.lambda
    Out,       \* values of post_op
    Post,      \* Post[a]: post_op.lambda
    Uninit,    \* an element of a tensor.empty
    Pending,   \* the results of the scf.forall before it ends
    MaxWidth   \* bound: extent of the scanned dimension

ASSUME ScanAssumption ==
    /\ Neutral \in Val
    /\ Op \in [Val -> [Val -> Val]]
    /\ Post \in [Val -> Out]
    /\ Uninit \notin Out
    /\ Pending \notin [Row -> UNION {[0..n - 1 -> Out \cup {Uninit}] : n \in 0..MaxWidth}]
    /\ MaxWidth \in Nat

VARIABLES
    width,    \* scanUpperBound
    elems,    \* elems[r][i]: kernelResults in iteration i of the scf.for of r
    pc,       \* pc[r]: where thread r is
    scanIndex,\* scanIndex[r]: the induction variable of the scf.for
    acc,      \* acc[r]: the accumulators the scf.for carries
    row,      \* row[r]: the output row it carries
    inserted, \* inserted[r]: elements parallel_insert_slice has written
    shared,   \* shared[r][i]: the shared output
    result    \* the result of the scf.forall

vars == <<width, elems, pc, scanIndex, acc, row, inserted, shared, result>>

Index == 0..width - 1
EmptyRow == [i \in Index |-> Uninit]

\* Operands of every kind and extent, none included; the threads have not
\* started, the shared output is a tensor.empty.
Init ==
    /\ width \in 0..MaxWidth
    /\ elems \in [Row -> [Index -> Val]]
    /\ pc = [r \in Row |-> "start"]
    /\ scanIndex = [r \in Row |-> 0]
    /\ acc = [r \in Row |-> Neutral]
    /\ row = [r \in Row |-> EmptyRow]
    /\ inserted = [r \in Row |-> 0]
    /\ shared = [r \in Row |-> EmptyRow]
    /\ result = Pending

At(r, where) == pc[r] = where
Goto(r, where) == pc' = [pc EXCEPT ![r] = where]

\* The entry of the scf.for: the neutral elements and an empty row.
EnterLoop(r) ==
    /\ At(r, "start")
    /\ scanIndex' = [scanIndex EXCEPT ![r] = 0]
    /\ acc' = [acc EXCEPT ![r] = Neutral]
    /\ row' = [row EXCEPT ![r] = EmptyRow]
    /\ Goto(r, "loop")
    /\ UNCHANGED <<width, elems, inserted, shared, result>>

\* Mutant: the operator gets the new element first.
IterateSwapped(r) ==
    /\ At(r, "loop") /\ scanIndex[r] < width
    /\ LET i == scanIndex[r]
           next == Op[elems[r][i]][acc[r]]
       IN  /\ acc' = [acc EXCEPT ![r] = next]
           /\ row' = [row EXCEPT ![r][i] = Post[next]]
           /\ scanIndex' = [scanIndex EXCEPT ![r] = i + 1]
    /\ UNCHANGED <<width, elems, pc, inserted, shared, result>>

\* Mutant: post_op gets the accumulator of before the iteration.
IterateExclusive(r) ==
    /\ At(r, "loop") /\ scanIndex[r] < width
    /\ LET i == scanIndex[r]
           next == Op[acc[r]][elems[r][i]]
       IN  /\ acc' = [acc EXCEPT ![r] = next]
           /\ row' = [row EXCEPT ![r][i] = Post[acc[r]]]
           /\ scanIndex' = [scanIndex EXCEPT ![r] = i + 1]
    /\ UNCHANGED <<width, elems, pc, inserted, shared, result>>

\* An iteration: the accumulator comes first in the operator, post_op gets the
\* new accumulator, and the loop carries the accumulator that post_op has not
\* seen.
Iterate(r) ==
    /\ At(r, "loop") /\ scanIndex[r] < width
    /\ LET i == scanIndex[r]
           next == Op[acc[r]][elems[r][i]]
       IN  /\ acc' = [acc EXCEPT ![r] = next]
           /\ row' = [row EXCEPT ![r][i] = Post[next]]
           /\ scanIndex' = [scanIndex EXCEPT ![r] = i + 1]
    /\ UNCHANGED <<width, elems, pc, inserted, shared, result>>

LeaveLoop(r) ==
    /\ At(r, "loop") /\ scanIndex[r] = width
    /\ Goto(r, "insert")
    /\ UNCHANGED <<width, elems, scanIndex, acc, row, inserted, shared, result>>

\* Mutant: the offsets leave out the thread's own ids.
InsertInFirstRow(r) ==
    /\ At(r, "insert") /\ inserted[r] < width
    /\ shared' = [shared EXCEPT ![CHOOSE q \in Row : TRUE][inserted[r]] =
                                    row[r][inserted[r]]]
    /\ inserted' = [inserted EXCEPT ![r] = @ + 1]
    /\ UNCHANGED <<width, elems, pc, scanIndex, acc, row, result>>

\* One element of the completed row, at the thread's own offset.
InsertElement(r) ==
    /\ At(r, "insert") /\ inserted[r] < width
    /\ shared' = [shared EXCEPT ![r][inserted[r]] = row[r][inserted[r]]]
    /\ inserted' = [inserted EXCEPT ![r] = @ + 1]
    /\ UNCHANGED <<width, elems, pc, scanIndex, acc, row, result>>

EndThread(r) ==
    /\ At(r, "insert") /\ inserted[r] = width
    /\ Goto(r, "done")
    /\ UNCHANGED <<width, elems, scanIndex, acc, row, inserted, shared, result>>

\* Mutant: the result is taken when the first thread ends.
JoinFirst ==
    /\ result = Pending
    /\ \E r \in Row : At(r, "done")
    /\ result' = shared
    /\ UNCHANGED <<width, elems, pc, scanIndex, acc, row, inserted, shared>>

\* The scf.forall ends when all of its threads have.
Join ==
    /\ result = Pending
    /\ \A r \in Row : At(r, "done")
    /\ result' = shared
    /\ UNCHANGED <<width, elems, pc, scanIndex, acc, row, inserted, shared>>

Thread(r) ==
    \/ EnterLoop(r) \/ Iterate(r) \/ LeaveLoop(r)
    \/ InsertElement(r) \/ EndThread(r)

Next == Join \/ \E r \in Row : Thread(r)

Spec == Init /\ [][Next]_vars

\* An scf.forall runs every one of its threads to the end.
FairSpec == Spec /\ WF_vars(Join) /\ \A r \in Row : WF_vars(Thread(r))

-----------------------------------------------------------------------------
TypeOK ==
    /\ width \in 0..MaxWidth
    /\ elems \in [Row -> [Index -> Val]]
    /\ pc \in [Row -> {"start", "loop", "insert", "done"}]
    /\ scanIndex \in [Row -> 0..width]
    /\ acc \in [Row -> Val]
    /\ row \in [Row -> [Index -> Out \cup {Uninit}]]
    /\ inserted \in [Row -> 0..width]
    /\ shared \in [Row -> [Index -> Out \cup {Uninit}]]
    /\ result \in [Row -> [Index -> Out]] \cup {Pending}

Abstract == INSTANCE ScanSpec

\* However the threads interleave, what the scf.forall returns is the scan of
\* every row, and it returns.
IsSegScan == Abstract!FairSpec

\* An element of the shared output is written once: threads never write to each
\* other's rows, so no order of the insertions shows.
WrittenOnce ==
    [][\A r \in Row : \A i \in Index :
          shared[r][i] # Uninit => shared'[r][i] = shared[r][i]]_vars

-----------------------------------------------------------------------------
\* The accumulators and the row of thread r are those of its first scanIndex[r]
\* elements: p is the sequence of accumulators it has carried.
Carries(r, p) ==
    /\ p[0] = Neutral
    /\ acc[r] = p[scanIndex[r]]
    /\ \A i \in 0..scanIndex[r] - 1 :
          /\ p[i + 1] = Op[p[i]][elems[r][i]]
          /\ row[r][i] = Post[p[i + 1]]

Carried(r) == \E p \in [0..width -> Val] : Carries(r, p)

\* A thread inserts complete rows only, from the left, and has inserted all of
\* its row when it ends.
Copied(r) ==
    /\ At(r, "start") => acc[r] = Neutral /\ scanIndex[r] = 0
    /\ pc[r] \in {"start", "loop"} => inserted[r] = 0
    /\ pc[r] \in {"insert", "done"} => scanIndex[r] = width
    /\ At(r, "done") => inserted[r] = width
    /\ \A i \in Index : shared[r][i] = IF i < inserted[r] THEN row[r][i] ELSE Uninit

IInv ==
    /\ TypeOK
    /\ \A r \in Row : Carried(r) /\ Copied(r)
    /\ result # Pending => result = shared /\ \A r \in Row : At(r, "done")
=============================================================================
