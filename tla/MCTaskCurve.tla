---------------------------- MODULE MCTaskCurve ----------------------------
(***************************************************************************)
(* Small instances of TaskCurve: three slots of four seconds, and every    *)
(* file of up to four lines over three weights and one line that is no     *)
(* number.  The largest count overflows the product of the first slot.     *)
(***************************************************************************)
EXTENDS TaskCurve

MCFiles == UNION {[1 .. n -> {0, 1, 3, Bad}] : n \in 0 .. 4}
=============================================================================
