------------------------------- MODULE MCVision -------------------------------
(* Three requests, so that a third one can find what the second left behind *)
(* in the registry; one source, and requests that name none.                *)
EXTENDS Vision
=============================================================================
