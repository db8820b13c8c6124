-------------------------- MODULE MCRequestPipeline --------------------------
(* RequestPipeline with the connections of the configurations, which are   *)
(* not interchangeable where liveness is checked.                          *)
EXTENDS RequestPipeline
==============================================================================
