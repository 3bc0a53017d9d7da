---------------------------- MODULE SegScanProofs ----------------------------
(***************************************************************************)
(* For every operator, post_op, set of rows and extent: the generated code  *)
(* keeps IInv, writes every element once, and implements ScanSpec.          *)
(***************************************************************************)
EXTENDS SegScan, TLAPS

USE ScanAssumption

-----------------------------------------------------------------------------
(* A thread that takes no step keeps its part of the invariant.              *)

LEMMA CarriedFrame ==
    ASSUME NEW q \in Row, Carried(q), UNCHANGED <<width, elems>>,
           acc'[q] = acc[q], scanIndex'[q] = scanIndex[q], row'[q] = row[q]
    PROVE  Carried(q)'
<1>1. PICK p \in [0..width -> Val] : Carries(q, p)
    BY DEF Carried
<1>2. p[0] = Neutral /\ acc'[q] = p[scanIndex'[q]]
    BY <1>1 DEF Carries
<1>3. \A i \in 0..scanIndex'[q] - 1 : /\ p[i + 1] = Op[p[i]][elems'[q][i]]
                                      /\ row'[q][i] = Post[p[i + 1]]
    BY <1>1 DEF Carries
<1>4. Carries(q, p)'
    BY <1>2, <1>3 DEF Carries
<1> QED
    BY <1>4 DEF Carried

LEMMA CopiedFrame ==
    ASSUME NEW q \in Row, Copied(q), UNCHANGED width,
           pc'[q] = pc[q], acc'[q] = acc[q], scanIndex'[q] = scanIndex[q],
           row'[q] = row[q], inserted'[q] = inserted[q], shared'[q] = shared[q]
    PROVE  Copied(q)'
BY DEF Copied, At, Index

LEMMA InitInv == Init => IInv
<1> SUFFICES ASSUME Init PROVE IInv
    OBVIOUS
<1>1. TypeOK
    BY DEF Init, TypeOK, EmptyRow, Index
<1>2. ASSUME NEW r \in Row PROVE Carried(r)
    <2> DEFINE p == [i \in 0..width |-> Neutral]
    <2>1. p \in [0..width -> Val] /\ p[0] = Neutral
        BY DEF Init
    <2>2. acc[r] = p[scanIndex[r]] /\ scanIndex[r] = 0
        BY DEF Init
    <2>3. Carries(r, p)
        BY <2>1, <2>2 DEF Carries
    <2> QED
        BY <2>1, <2>3 DEF Carried
<1>3. ASSUME NEW r \in Row PROVE Copied(r)
    BY DEF Init, Copied, At, EmptyRow, Index
<1> QED
    BY <1>1, <1>2, <1>3 DEF IInv, Init

-----------------------------------------------------------------------------
(* One lemma for each operation of a thread.                                 *)

LEMMA EnterLoopInv ==
    ASSUME IInv, NEW r \in Row, EnterLoop(r)
    PROVE  IInv'
<1> USE DEF IInv
<1>1. TypeOK'
    BY DEF TypeOK, EnterLoop, Goto, EmptyRow, Index
<1>2. scanIndex' = [scanIndex EXCEPT ![r] = 0] /\ acc' = [acc EXCEPT ![r] = Neutral]
    BY DEF EnterLoop
<1>3. scanIndex'[r] = 0 /\ acc'[r] = Neutral /\ row'[r] = EmptyRow /\ pc'[r] = "loop"
    BY DEF EnterLoop, Goto, TypeOK
<1>4. \A q \in Row : Carried(q)'
    <2> SUFFICES ASSUME NEW q \in Row PROVE Carried(q)'
        OBVIOUS
    <2>1. CASE q = r
        <3>1. PICK p \in [0..width' -> Val] : p[0] = Neutral
            <4>1. [i \in 0..width' |-> Neutral] \in [0..width' -> Val]
                OBVIOUS
            <4>2. [i \in 0..width' |-> Neutral][0] = Neutral
                BY <1>1 DEF TypeOK
            <4> QED
                BY <4>1, <4>2
        <3>2. Carries(q, p)'
            BY <1>3, <2>1, <3>1 DEF Carries
        <3> QED
            BY <3>2 DEF Carried
    <2>2. CASE q # r
        BY <2>2, CarriedFrame DEF EnterLoop, TypeOK
    <2> QED
        BY <2>1, <2>2
<1>5. \A q \in Row : Copied(q)'
    <2> SUFFICES ASSUME NEW q \in Row PROVE Copied(q)'
        OBVIOUS
    <2>1. CASE q = r
        BY <1>3, <2>1 DEF Copied, At, EnterLoop, EmptyRow, Index, TypeOK
    <2>2. CASE q # r
        BY <2>2, CopiedFrame DEF EnterLoop, Goto, TypeOK
    <2> QED
        BY <2>1, <2>2
<1>6. result' = Pending
    BY DEF EnterLoop, At
<1> QED
    BY <1>1, <1>4, <1>5, <1>6

LEMMA IterateInv ==
    ASSUME IInv, NEW r \in Row, Iterate(r)
    PROVE  IInv'
<1> USE DEF IInv
<1> DEFINE i == scanIndex[r]
           next == Op[acc[r]][elems[r][i]]
<1>1. i \in Index /\ i \in 0..width - 1 /\ width \in Nat /\ i \in Nat
    BY DEF TypeOK, Iterate, Index
<1>2. elems[r][i] \in Val /\ acc[r] \in Val
    BY <1>1 DEF TypeOK
<1>3. next \in Val /\ Post[next] \in Out
    BY <1>2
<1>4. /\ acc' = [acc EXCEPT ![r] = next]
      /\ row' = [row EXCEPT ![r][i] = Post[next]]
      /\ scanIndex' = [scanIndex EXCEPT ![r] = i + 1]
      /\ UNCHANGED <<width, elems, pc, inserted, shared, result>>
      /\ pc[r] = "loop"
    BY DEF Iterate, At
<1>5. /\ acc'[r] = next
      /\ scanIndex'[r] = i + 1
      /\ row'[r] = [row[r] EXCEPT ![i] = Post[next]]
    BY <1>4 DEF TypeOK
<1>6. TypeOK'
    <2>1. scanIndex' \in [Row -> 0..width']
        BY <1>1, <1>4 DEF TypeOK
    <2>2. acc' \in [Row -> Val]
        BY <1>3, <1>4 DEF TypeOK
    <2>3. row[r] \in [Index -> Out \cup {Uninit}]
        BY DEF TypeOK
    <2>4. [row[r] EXCEPT ![i] = Post[next]] \in [Index -> Out \cup {Uninit}]
        BY <1>3, <2>3
    <2>5. row' \in [Row -> [Index -> Out \cup {Uninit}]]
        BY <1>4, <2>4 DEF TypeOK
    <2> QED
        BY <1>4, <2>1, <2>2, <2>5 DEF TypeOK, Index
<1>7. \A q \in Row : Carried(q)'
    <2> SUFFICES ASSUME NEW q \in Row PROVE Carried(q)'
        OBVIOUS
    <2>1. CASE q = r
        <3>1. PICK p \in [0..width -> Val] : Carries(r, p)
            BY DEF Carried
        <3>2. PICK s \in [0..width -> Val] :
                  s[i + 1] = next /\ \A j \in 0..i : s[j] = p[j]
            <4> DEFINE ext == [p EXCEPT ![i + 1] = next]
            <4>1. ext \in [0..width -> Val] /\ ext[i + 1] = next
                BY <1>1, <1>3
            <4>2. \A j \in 0..i : ext[j] = p[j]
                BY <1>1
            <4> QED
                BY <4>1, <4>2
        <3>3. \A j \in 0..i : s[j] = p[j]
            BY <3>2
        <3>4. s[0] = Neutral /\ s[i] = acc[r]
            BY <1>1, <3>1, <3>3 DEF Carries
        <3>5. \A j \in 0..i - 1 : /\ s[j + 1] = Op[s[j]][elems[r][j]]
                                  /\ row'[r][j] = Post[s[j + 1]]
            <4> SUFFICES ASSUME NEW j \in 0..i - 1
                         PROVE  /\ s[j + 1] = Op[s[j]][elems[r][j]]
                                /\ row'[r][j] = Post[s[j + 1]]
                OBVIOUS
            <4>1. j \in 0..i /\ j + 1 \in 0..i /\ j \in Index /\ j # i
                BY <1>1 DEF Index
            <4>2. row'[r][j] = row[r][j]
                BY <1>5, <4>1 DEF TypeOK
            <4> QED
                BY <3>1, <3>3, <4>1, <4>2 DEF Carries
        <3>6. row'[r][i] = Post[next]
            BY <1>1, <1>5 DEF TypeOK
        <3>7. \A j \in 0..(i + 1) - 1 : /\ s[j + 1] = Op[s[j]][elems[r][j]]
                                        /\ row'[r][j] = Post[s[j + 1]]
            <4> SUFFICES ASSUME NEW j \in 0..(i + 1) - 1
                         PROVE  /\ s[j + 1] = Op[s[j]][elems[r][j]]
                                /\ row'[r][j] = Post[s[j + 1]]
                OBVIOUS
            <4>1. j \in 0..i - 1 \/ j = i
                BY <1>1
            <4> QED
                BY <3>2, <3>4, <3>5, <3>6, <4>1
        <3>8. Carries(r, s)'
            BY <1>4, <1>5, <3>2, <3>4, <3>7 DEF Carries
        <3> QED
            BY <1>4, <2>1, <3>2, <3>8 DEF Carried
    <2>2. CASE q # r
        BY <1>4, <2>2, CarriedFrame DEF TypeOK
    <2> QED
        BY <2>1, <2>2
<1>8. \A q \in Row : Copied(q)'
    <2> SUFFICES ASSUME NEW q \in Row PROVE Copied(q)'
        OBVIOUS
    <2>1. CASE q = r
        <3>1. inserted[r] = 0
            BY <1>4 DEF Copied
        <3> QED
            BY <1>4, <2>1, <3>1 DEF Copied, At, Index
    <2>2. CASE q # r
        BY <1>4, <2>2, CopiedFrame DEF TypeOK
    <2> QED
        BY <2>1, <2>2
<1>9. result' = Pending
    BY <1>4 DEF At
<1> QED
    BY <1>6, <1>7, <1>8, <1>9

LEMMA LeaveLoopInv ==
    ASSUME IInv, NEW r \in Row, LeaveLoop(r)
    PROVE  IInv'
<1> USE DEF IInv
<1>1. TypeOK'
    BY DEF TypeOK, LeaveLoop, Goto, Index
<1>2. pc'[r] = "insert" /\ pc[r] = "loop" /\ scanIndex'[r] = width
    BY DEF LeaveLoop, Goto, TypeOK, At
<1>3. \A q \in Row : Carried(q)'
    BY CarriedFrame DEF LeaveLoop
<1>4. \A q \in Row : Copied(q)'
    <2> SUFFICES ASSUME NEW q \in Row PROVE Copied(q)'
        OBVIOUS
    <2>1. CASE q = r
        BY <1>2, <2>1 DEF Copied, At, LeaveLoop, Index
    <2>2. CASE q # r
        BY <2>2, CopiedFrame DEF LeaveLoop, Goto, TypeOK
    <2> QED
        BY <2>1, <2>2
<1>5. result' = Pending
    BY <1>2 DEF LeaveLoop, At
<1> QED
    BY <1>1, <1>3, <1>4, <1>5

LEMMA InsertElementInv ==
    ASSUME IInv, NEW r \in Row, InsertElement(r)
    PROVE  IInv'
<1> USE DEF IInv
<1> DEFINE k == inserted[r]
<1>1. k \in Index /\ k \in Nat /\ width \in Nat /\ k < width
    BY DEF TypeOK, InsertElement, Index
<1>2. /\ shared' = [shared EXCEPT ![r][k] = row[r][k]]
      /\ inserted' = [inserted EXCEPT ![r] = k + 1]
      /\ UNCHANGED <<width, elems, pc, scanIndex, acc, row, result>>
      /\ pc[r] = "insert"
    BY DEF InsertElement, At
<1>3. /\ shared'[r] = [shared[r] EXCEPT ![k] = row[r][k]]
      /\ inserted'[r] = k + 1
    BY <1>2 DEF TypeOK
<1>4. TypeOK'
    <2>1. inserted' \in [Row -> 0..width']
        BY <1>1, <1>2 DEF TypeOK
    <2>2. row[r][k] \in Out \cup {Uninit} /\ shared[r] \in [Index -> Out \cup {Uninit}]
        BY <1>1 DEF TypeOK
    <2>3. [shared[r] EXCEPT ![k] = row[r][k]] \in [Index -> Out \cup {Uninit}]
        BY <2>2
    <2>4. shared' \in [Row -> [Index -> Out \cup {Uninit}]]
        BY <1>2, <2>3 DEF TypeOK
    <2> QED
        BY <1>2, <2>1, <2>4 DEF TypeOK, Index
<1>5. \A q \in Row : Carried(q)'
    BY <1>2, CarriedFrame
<1>6. \A q \in Row : Copied(q)'
    <2> SUFFICES ASSUME NEW q \in Row PROVE Copied(q)'
        OBVIOUS
    <2>1. CASE q = r
        <3>1. ASSUME NEW j \in Index'
              PROVE  shared'[r][j] = IF j < inserted'[r] THEN row'[r][j] ELSE Uninit
            <4>1. j \in Index /\ j \in Nat
                BY <1>1, <1>2 DEF Index
            <4>2. shared[r][j] = IF j < k THEN row[r][j] ELSE Uninit
                BY <4>1 DEF Copied
            <4>3. CASE j = k
                BY <1>1, <1>2, <1>3, <4>1, <4>3 DEF TypeOK
            <4>4. CASE j # k
                <5>1. shared'[r][j] = shared[r][j]
                    BY <1>3, <4>1, <4>4 DEF TypeOK
                <5>2. j < k + 1 <=> j < k
                    BY <1>1, <4>1, <4>4
                <5> QED
                    BY <1>2, <1>3, <4>2, <5>1, <5>2
            <4> QED
                BY <4>3, <4>4
        <3> QED
            BY <1>2, <2>1, <3>1 DEF Copied, At
    <2>2. CASE q # r
        BY <1>2, <2>2, CopiedFrame DEF TypeOK
    <2> QED
        BY <2>1, <2>2
<1>7. result' = Pending
    BY <1>2 DEF At
<1> QED
    BY <1>4, <1>5, <1>6, <1>7

LEMMA EndThreadInv ==
    ASSUME IInv, NEW r \in Row, EndThread(r)
    PROVE  IInv'
<1> USE DEF IInv
<1>1. TypeOK'
    BY DEF TypeOK, EndThread, Goto, Index
<1>2. pc'[r] = "done" /\ pc[r] = "insert" /\ inserted'[r] = width
    BY DEF EndThread, Goto, TypeOK, At
<1>3. \A q \in Row : Carried(q)'
    BY CarriedFrame DEF EndThread
<1>4. \A q \in Row : Copied(q)'
    <2> SUFFICES ASSUME NEW q \in Row PROVE Copied(q)'
        OBVIOUS
    <2>1. CASE q = r
        BY <1>2, <2>1 DEF Copied, At, EndThread, Index
    <2>2. CASE q # r
        BY <2>2, CopiedFrame DEF EndThread, Goto, TypeOK
    <2> QED
        BY <2>1, <2>2
<1>5. result' = Pending
    BY <1>2 DEF EndThread, At
<1> QED
    BY <1>1, <1>3, <1>4, <1>5

LEMMA JoinInv ==
    ASSUME IInv, Join
    PROVE  IInv'
<1> USE DEF IInv
<1>1. /\ result' = shared /\ \A r \in Row : pc[r] = "done"
      /\ UNCHANGED <<width, elems, pc, scanIndex, acc, row, inserted, shared>>
    BY DEF Join, At
<1>2. shared \in [Row -> [Index -> Out]]
    <2>1. ASSUME NEW r \in Row, NEW i \in Index PROVE shared[r][i] \in Out
        <3>1. inserted[r] = width /\ scanIndex[r] = width
            BY <1>1 DEF Copied, At
        <3>2. width \in Nat /\ i \in 0..width - 1 /\ i < inserted[r]
            BY <3>1 DEF Index, TypeOK
        <3>3. shared[r][i] = row[r][i]
            BY <3>2 DEF Copied
        <3>4. PICK p \in [0..width -> Val] : Carries(r, p)
            BY DEF Carried
        <3>5. row[r][i] = Post[p[i + 1]]
            BY <3>1, <3>2, <3>4 DEF Carries
        <3>6. p[i + 1] \in Val
            BY <3>2, <3>4
        <3> QED
            BY <3>3, <3>5, <3>6
    <2>2. ASSUME NEW r \in Row PROVE shared[r] \in [Index -> Out]
        BY <2>1 DEF TypeOK
    <2> QED
        BY <2>2 DEF TypeOK
<1>3. TypeOK'
    BY <1>1, <1>2 DEF TypeOK, Index
<1>4. \A q \in Row : Carried(q)'
    BY <1>1, CarriedFrame
<1>5. \A q \in Row : Copied(q)'
    BY <1>1, CopiedFrame
<1> QED
    BY <1>1, <1>3, <1>4, <1>5 DEF At

LEMMA StutterInv ==
    ASSUME IInv, UNCHANGED vars
    PROVE  IInv'
<1> USE DEF IInv, vars
<1>1. TypeOK'
    BY DEF TypeOK, Index
<1>2. \A q \in Row : Carried(q)'
    BY CarriedFrame
<1>3. \A q \in Row : Copied(q)'
    BY CopiedFrame
<1> QED
    BY <1>1, <1>2, <1>3 DEF At

LEMMA StepInv ==
    ASSUME IInv, [Next]_vars
    PROVE  IInv'
<1>1. CASE Join
    BY <1>1, JoinInv
<1>2. ASSUME NEW r \in Row, Thread(r)
      PROVE  IInv'
    BY <1>2, EnterLoopInv, IterateInv, LeaveLoopInv, InsertElementInv,
       EndThreadInv DEF Thread
<1>3. CASE UNCHANGED vars
    BY <1>3, StutterInv
<1> QED
    BY <1>1, <1>2, <1>3 DEF Next

-----------------------------------------------------------------------------
(* The interleaving invariant of the generated scf.forall and scf.for: what  *)
(* each thread carries is the scan of the elements it has seen, and what it  *)
(* has inserted is a prefix of its completed row.                            *)
THEOREM ScanInvariant == Spec => []IInv
<1>1. Init => IInv
    BY InitInv
<1>2. IInv /\ [Next]_vars => IInv'
    BY StepInv
<1> QED
    BY <1>1, <1>2, PTL DEF Spec

(* The state of the generated code is of the declared types; in particular   *)
(* what the scf.forall returns has no element of a tensor.empty left.        *)
THEOREM TypeCorrect == Spec => []TypeOK
<1>1. IInv => TypeOK
    BY DEF IInv
<1> QED
    BY <1>1, ScanInvariant, PTL

-----------------------------------------------------------------------------
(* No element of the shared output of the scf.forall is written twice, so    *)
(* the order in which the threads insert their rows cannot show.             *)
THEOREM RowsWrittenOnce == Spec => WrittenOnce
<1> DEFINE Keeps == \A r \in Row : \A i \in Index :
                        shared[r][i] # Uninit => shared'[r][i] = shared[r][i]
<1>1. ASSUME IInv, Next PROVE Keeps
    <2>1. ASSUME NEW r \in Row, InsertElement(r) PROVE Keeps
        <3> DEFINE k == inserted[r]
        <3>1. /\ shared' = [shared EXCEPT ![r][k] = row[r][k]]
              /\ k \in Index /\ k \in Nat
            BY <1>1, <2>1 DEF IInv, TypeOK, InsertElement, Index
        <3>2. shared[r][k] = Uninit
            BY <1>1, <3>1 DEF IInv, Copied
        <3>3. ASSUME NEW q \in Row, NEW i \in Index, shared[q][i] # Uninit
              PROVE  shared'[q][i] = shared[q][i]
            <4>1. CASE q # r
                BY <1>1, <3>1, <4>1 DEF IInv, TypeOK
            <4>2. CASE q = r
                <5>1. i # k
                    BY <3>2, <3>3, <4>2
                <5> QED
                    BY <1>1, <3>1, <4>2, <5>1 DEF IInv, TypeOK
            <4> QED
                BY <4>1, <4>2
        <3> QED
            BY <3>3
    <2>2. CASE \E r \in Row : EnterLoop(r) \/ Iterate(r) \/ LeaveLoop(r) \/ EndThread(r)
        BY <2>2 DEF EnterLoop, Iterate, LeaveLoop, EndThread
    <2>3. CASE Join
        BY <2>3 DEF Join
    <2> QED
        BY <1>1, <2>1, <2>2, <2>3 DEF Next, Thread
<1>2. IInv /\ [Next]_vars => [Keeps]_vars
    BY <1>1
<1> QED
    BY <1>2, ScanInvariant, PTL DEF Spec, WrittenOnce

-----------------------------------------------------------------------------
(* The generated code implements the abstract scan: the steps of the threads *)
(* are stuttering steps of ScanSpec, the end of the scf.forall is its one    *)
(* step.                                                                     *)

LEMMA JoinCompletes ==
    ASSUME IInv, Join
    PROVE  Abstract!Complete
<1>1. /\ result = Pending /\ result' = shared
      /\ UNCHANGED <<width, elems>>
      /\ \A r \in Row : pc[r] = "done"
    BY DEF Join, At
<1>2. ASSUME NEW r \in Row PROVE shared[r] \in Abstract!Scanned(r)
    <2>1. inserted[r] = width /\ scanIndex[r] = width /\ width \in Nat
        BY <1>1 DEF IInv, Copied, At, TypeOK
    <2>2. PICK p \in [0..width -> Val] : Carries(r, p)
        BY DEF IInv, Carried
    <2>3. ASSUME NEW i \in Index
          PROVE  p[i + 1] = Op[p[i]][elems[r][i]] /\ shared[r][i] = Post[p[i + 1]]
        <3>1. i < inserted[r] /\ i \in 0..scanIndex[r] - 1
            BY <2>1 DEF Index
        <3> QED
            BY <2>2, <3>1 DEF IInv, Copied, Carries
    <2>4. p \in Abstract!Prefixes /\ Abstract!IsScan(p, elems[r])
        BY <2>2, <2>3 DEF Carries, Abstract!Prefixes, Abstract!IsScan,
                          Abstract!Index, Index
    <2>5. shared[r] = [i \in Abstract!Index |-> Post[p[i + 1]]]
        <3>1. shared[r] \in [Index -> Out \cup {Uninit}]
            BY DEF IInv, TypeOK
        <3> QED
            BY <2>3, <3>1 DEF Abstract!Index, Index
    <2> QED
        BY <2>4, <2>5 DEF Abstract!Scanned
<1>3. shared \in [Row -> UNION {Abstract!Scanned(r) : r \in Row}]
    <2>1. DOMAIN shared = Row /\ shared = [r \in Row |-> shared[r]]
        BY DEF IInv, TypeOK
    <2>2. \A r \in Row : shared[r] \in UNION {Abstract!Scanned(q) : q \in Row}
        BY <1>2
    <2> QED
        BY <2>1, <2>2
<1> QED
    BY <1>1, <1>2, <1>3 DEF Abstract!Complete

(* Safety half of IsSegScan: whatever order the threads of the scf.forall    *)
(* run in, what it returns is the inclusive scan of every row, post_op       *)
(* applied, and it returns it once.                                          *)
THEOREM ImplementsScan == Spec => Abstract!Spec
<1>1. Init => Abstract!Init
    BY DEF Init, Abstract!Init
<1>2. ASSUME IInv, [Next]_vars
      PROVE  [Abstract!Next]_(Abstract!vars)
    <2>1. CASE Join
        BY <1>2, <2>1, JoinCompletes DEF Abstract!Next
    <2>2. ASSUME NEW r \in Row, Thread(r)
          PROVE  UNCHANGED Abstract!vars
        BY <2>2 DEF Thread, EnterLoop, Iterate, LeaveLoop, InsertElement,
                    EndThread, Abstract!vars
    <2>3. CASE UNCHANGED vars
        BY <2>3 DEF vars, Abstract!vars
    <2> QED
        BY <1>2, <2>1, <2>2, <2>3 DEF Next
<1> QED
    BY <1>1, <1>2, ScanInvariant, PTL DEF Spec, Abstract!Spec
=============================================================================
