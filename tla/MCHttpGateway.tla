--------------------------- MODULE MCHttpGateway ---------------------------
(***************************************************************************)
(* Two connections, two receives that complete up to three times, a tick   *)
(* count that wraps, and a joint bound on completions and ticks.  The      *)
(* sequence ids of the clients look like the gateway's own numbers.        *)
(***************************************************************************)
EXTENDS HttpGateway
=============================================================================
