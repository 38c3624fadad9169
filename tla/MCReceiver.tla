----------------------------- MODULE MCReceiver -----------------------------
(***************************************************************************)
(* One listener and two processors, to which the scaler may add one, and   *)
(* two messages of which the second stays incomplete.                      *)
(***************************************************************************)
EXTENDS Receiver

CountMin == [listener |-> 1, processor |-> 2]
CountMax == [listener |-> 2, processor |-> 4]
=============================================================================
