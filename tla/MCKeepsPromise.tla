--------------------------- MODULE MCKeepsPromise ---------------------------
(***************************************************************************)
(* Small instances of KeepsPromise.                                        *)
(***************************************************************************)
EXTENDS KeepsPromise, MCNFOperator
=============================================================================
