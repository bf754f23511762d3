----------------------------- MODULE MCOneShot -----------------------------
(* Instances of OneShot for TLC. *)
EXTENDS OneShot
=============================================================================
