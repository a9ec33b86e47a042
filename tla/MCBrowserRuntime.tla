--------------------------- MODULE MCBrowserRuntime ---------------------------
(* A small instance of BrowserRuntime for TLC.                             *)
EXTENDS BrowserRuntime
=============================================================================
