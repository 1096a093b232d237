------------------------------- MODULE MCRpc -------------------------------
(***************************************************************************)
(* TLC instances of Rpc: retune arguments, which a cfg cannot write.       *)
(***************************************************************************)
EXTENDS Rpc

RetuneDown == {<<2, 1>>}
=============================================================================
