------------------------------ MODULE MCJobId -------------------------------
(***************************************************************************)
(* Byte strings of up to three bytes around the edges of a byte and of the *)
(* radix.  Three bytes keep every number below TLC's 2^31.                 *)
(***************************************************************************)
EXTENDS JobId

EdgeBytes == {0, 1, 61, 62, 63, 127, 128, 254, 255}

MCInputs == UNION {[1 .. n -> EdgeBytes] : n \in 0 .. 3}
=============================================================================
