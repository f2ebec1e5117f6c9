---------------------------- MODULE MCArtifacts -----------------------------
(* Handlers are alike, and so are the names of files: only one order of    *)
(* them is checked.                                                        *)
EXTENDS Artifacts, TLC

Symmetry == Permutations(Handlers) \cup Permutations(FileNames)
=============================================================================
