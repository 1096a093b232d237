---------------------------- MODULE MCEvmGetLogs ----------------------------
(***************************************************************************)
(* TLC instances of EvmGetLogs: option values, which a cfg cannot write.   *)
(***************************************************************************)
EXTENDS EvmGetLogs

Some4 == {4}
Some9 == {9}
=============================================================================
