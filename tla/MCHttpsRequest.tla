--------------------------- MODULE MCHttpsRequest ---------------------------
(* Small instances of HttpsRequest for TLC.                                *)
EXTENDS HttpsRequest

CONSTANTS p1, p2

MCHosts == {"h1", "h2"}
MCPaths == {"/"}
MCAddresses == {p1, p2}
=============================================================================
