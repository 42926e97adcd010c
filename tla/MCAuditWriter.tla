---------------------------- MODULE MCAuditWriter ----------------------------
(* Three writes race down a path of a root and two directories below it.      *)
EXTENDS AuditWriter, TLC

MCSymmetry == Permutations(Writers)
=============================================================================
