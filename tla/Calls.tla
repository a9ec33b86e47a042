-------------------------------- MODULE Calls --------------------------------
(* What scoring, preparation, assembly and the batches above them share.   *)
CONSTANTS Call,     \* the calls that may be under way at the same time
          None
=============================================================================
