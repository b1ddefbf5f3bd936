---------------------------- MODULE MCWebMounts ----------------------------
(* A small instance of WebMounts for TLC; the bounds are in WebMounts.cfg.  *)
EXTENDS WebMounts
CONSTANT a
SmallSize == a :> 2
OneLifeEach == "rest" :> 1 @@ "rpc" :> 1
=============================================================================
