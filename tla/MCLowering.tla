----------------------------- MODULE MCLowering -----------------------------
(* Two kinds of program for TLC.  Calls: three functions, one a black box,   *)
(* one lowered on demand before or after main reaches it.  Regions: one      *)
(* function, with names enough for a whole scan inside its body.             *)
EXTENDS Lowering, Functions

CONSTANTS f, g, b, c, x, n1, n2, n3, n4, n5, n6

\* New names are interchangeable, so it is enough to look at programs that bind
\* them in one order.
InOrder(new) ==
    \A h \in Fun : \E k \in 0..Len(new) :
        used[h] \cap Range(new) = Range(SubSeq(new, 1, k))

CallsFun == {f, g, b}
CallsProgFuns == <<f, b, g>>
CallsBlackBoxFun == {b}
CallsConsts == {c}
CallsParams == [h \in CallsFun |-> {x}]
CallsNew == <<n1, n2, n3>>
CallsName == {c, x} \cup Range(CallsNew)
CallsInOrder == InOrder(CallsNew)

RegionsFun == {f}
RegionsProgFuns == <<f>>
RegionsParams == [h \in RegionsFun |-> {x}]
RegionsNew == <<n1, n2, n3, n4, n5, n6>>
RegionsName == {x} \cup Range(RegionsNew)
RegionsInOrder == InOrder(RegionsNew)
=============================================================================
