-------------------------- MODULE MCMappedCapture --------------------------
(* Two bases that can be exchanged.                                        *)
EXTENDS MappedCapture, TLC

MCSymmetry == Permutations(Bases)
=============================================================================
