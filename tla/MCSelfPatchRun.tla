--------------------------- MODULE MCSelfPatchRun ---------------------------
(* Instances of SelfPatchRun; the configurations give every constant.      *)
EXTENDS SelfPatchRun
=============================================================================
