--------------------------- MODULE MCPortalLogin ---------------------------
(* Small instances of PortalLogin.  The browser's user types one path;     *)
(* links, forms and redirects lead to the others.                         *)
EXTENDS PortalLogin, TLC

Typed == {"/"}
=============================================================================
