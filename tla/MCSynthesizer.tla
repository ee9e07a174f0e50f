--------------------------- MODULE MCSynthesizer ---------------------------
(* A small instance of Synthesizer for TLC. *)
EXTENDS Synthesizer
=============================================================================
