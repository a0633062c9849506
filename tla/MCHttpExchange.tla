---------------------------- MODULE MCHttpExchange ----------------------------
(***************************************************************************)
(* A small instance of HttpExchange for TLC.                               *)
(***************************************************************************)
EXTENDS HttpExchange

MCKinds ==
  { [content |-> "none", close |-> FALSE],
    [content |-> "string", close |-> FALSE],
    [content |-> "stream", close |-> TRUE] }
=============================================================================
