----------------------------- MODULE MCSSEDecoder -----------------------------
(***************************************************************************)
(* SSEDecoder on every stream over a small alphabet, cut in every way.     *)
(***************************************************************************)
EXTENDS SSEDecoder

AllKinds == {"cr", "lf", "colon", "space", "data"}
=============================================================================
