---------------------------- MODULE MCEvmMemory ----------------------------
(***************************************************************************)
(* A small instance of EvmMemory: words of two bytes of sixteen values     *)
(* each, one of which is the low limb.                                     *)
(***************************************************************************)
EXTENDS EvmMemory

MCSource == <<7, 9>>

=============================================================================
