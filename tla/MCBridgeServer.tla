--------------------------- MODULE MCBridgeServer ---------------------------
(***************************************************************************)
(* Model-checking instance of BridgeServer: two clients, so that one waits *)
(* behind the stream or the broken-off request of the other, and epochs    *)
(* enough for several streams to find one that is not saved yet.           *)
(***************************************************************************)
EXTENDS BridgeServer
=============================================================================
