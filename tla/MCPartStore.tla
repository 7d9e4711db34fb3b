----------------------------- MODULE MCPartStore -----------------------------
(***************************************************************************)
(* An instance of PartStore: two files of the name, one longer than the    *)
(* other, so that a download finds the .info of either length.             *)
(***************************************************************************)
EXTENDS PartStore

MCSizes == [v \in Versions |-> IF v = "v1" THEN 2 ELSE 1]
=============================================================================
