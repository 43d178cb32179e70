----------------------------- MODULE MCBootEvent -----------------------------
(***************************************************************************)
(* An instance of BootEvent: two images that fit a segment, one exactly,   *)
(* and one that no segment can hold.                                       *)
(***************************************************************************)
EXTENDS BootEvent, TLC

CONSTANTS small, full, oversize

MCImageSize == (small :> 2) @@ (full :> Capacity) @@ (oversize :> Capacity + 1)
=============================================================================
