----------------------------- MODULE MCEntryABI -----------------------------
(* Two sizes, shared, written or inferred in any way two parameters of rank  *)
(* at most two allow.  Names of sizes are interchangeable.                   *)
EXTENDS EntryABI, TLC

CONSTANTS n, m

Renamings == Permutations(SizeName)
=============================================================================
