---------------------------- MODULE MCAsioTimer ----------------------------
(***************************************************************************)
(* Both kinds of timer, with the owner on the io thread and on another,    *)
(* few handlers outstanding and a count that wraps early.                  *)
(***************************************************************************)
EXTENDS AsioTimer
=============================================================================
