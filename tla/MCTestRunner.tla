---------------------------- MODULE MCTestRunner ----------------------------
(* Two files of one base name, as in `run-tests tests/map.fut old/map.fut`,  *)
(* and one of another.                                                       *)
EXTENDS TestRunner

CONSTANTS map, oldMap, scan

ThreeFiles == {map, oldMap, scan}
InTurn == <<map, scan, oldMap>>
BaseName == [f \in ThreeFiles |-> IF f = scan THEN "scan" ELSE "map"]

OneFile == {map}
Alone == <<map>>
=============================================================================
