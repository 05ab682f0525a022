---------------------------- MODULE MCCodingStep ----------------------------
(* The coding rendezvous for model checking.                                *)
EXTENDS CodingStep

=============================================================================
