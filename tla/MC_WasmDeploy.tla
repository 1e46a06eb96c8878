---------------------------- MODULE MC_WasmDeploy ----------------------------
(* Instantiates WasmDeploy for TLC.  A two-byte buffer stands for the      *)
(* 100000-byte one: the code only compares output_len with its capacity,   *)
(* so two is enough for a result that fits, one that fills it and one that *)
(* overflows it.  Two distinct nonzero bytes tell this call's output from  *)
(* an earlier one's; three calls let a short write follow a long one.      *)
EXTENDS WasmDeploy

MCBytes == {1, 2}
==============================================================================
