---------------------------- MODULE MCFileSender ----------------------------
(* The files of the runs.                                                  *)
EXTENDS FileSender, TLC

\* Two full parts; a full one and a bit; nothing.
MCSize == ("even" :> 4) @@ ("odd" :> 3) @@ ("empty" :> 0)
=============================================================================
