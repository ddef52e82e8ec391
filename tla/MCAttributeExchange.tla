-------------------------- MODULE MCAttributeExchange --------------------------
(* A small instance of AttributeExchange for TLC. *)
EXTENDS AttributeExchange
=============================================================================
