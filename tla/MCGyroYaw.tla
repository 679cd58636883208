----------------------------- MODULE MCGyroYaw ------------------------------
(* GyroYaw for TLC: rates on both sides of zero, one of them beyond the bias limit. *)
EXTENDS GyroYaw

MCRawRates == {-1, 0, 2}
=============================================================================
