----------------------------- MODULE MCEventBus -----------------------------
(* A small instance of EventBus for TLC; the bounds are in EventBus.cfg.    *)
EXTENDS EventBus
=============================================================================
