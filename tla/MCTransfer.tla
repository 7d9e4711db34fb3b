----------------------------- MODULE MCTransfer -----------------------------
(* The model of Transfer: classes of up to 24, 30 and 36 bytes stand for    *)
(* those of 64 MiB, 512 MiB and 1 GiB, and 81 for the 4 GiB of a u32.       *)
EXTENDS Transfer

MCLimits == <<24, 30, 36>>
MCSizes == <<12, 15, 18, 27>>
=============================================================================
