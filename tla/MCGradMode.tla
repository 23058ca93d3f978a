---------------------------- MODULE MCGradMode ----------------------------
(* Two goroutines and three OS threads, so that a goroutine can move to a   *)
(* thread nobody used, and to one another goroutine left behind.            *)
EXTENDS GradMode
=============================================================================
