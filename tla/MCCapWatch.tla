----------------------------- MODULE MCCapWatch -----------------------------
(* A small instance of CapWatch for TLC; the bounds are in CapWatch.cfg.    *)
EXTENDS CapWatch
=============================================================================
