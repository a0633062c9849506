-------------------------- MODULE MCServerConnection --------------------------
(***************************************************************************)
(* Small instances of ServerConnection for TLC.                            *)
(***************************************************************************)
EXTENDS ServerConnection

Ask(connection, version11, body, route) ==
  [wellFormed |-> TRUE, connection |-> connection, version11 |-> version11,
   body |-> body, route |-> route]

\* One request for each way through the handlers.
MCRequests ==
  { Ask("none", TRUE, "none", "resource"),
    Ask("keep-alive", FALSE, "buffered", "resource"),
    Ask("close", TRUE, "remaining", "resource"),
    Ask("none", TRUE, "remaining", "resource"),
    Ask("none", FALSE, "none", "resource"),
    Ask("none", TRUE, "none", "unmatched"),
    Ask("none", TRUE, "none", "upgrade"),
    Ask("none", TRUE, "remaining", "upgrade"),
    Ask("none", TRUE, "invalid", "resource"),
    [Ask("none", TRUE, "none", "resource") EXCEPT !.wellFormed = FALSE] }

\* Requests that keep the connection, with and without content.
MCKeptRequests ==
  { Ask("none", TRUE, "none", "resource"), Ask("none", TRUE, "remaining", "resource") }
=============================================================================
