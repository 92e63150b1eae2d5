---------------------------- MODULE MCResolveSym ----------------------------
(* Model checking of the parser and the resolver: int is a name of the      *)
(* universe, foo one of the source's.                                       *)
EXTENDS ResolveSym

CONSTANTS foo, int
=============================================================================
