--------------------------- MODULE MCProxyManager ---------------------------
(***************************************************************************)
(* Constants for model checking ProxyManager: the fault sets of the runs.  *)
(***************************************************************************)
EXTENDS ProxyManager, TLC

\* Failures after which start() and stop() are still able to clean up.
RecoverableFaults == {"hosts", "bind", "registry", "hook"}

\* Start calls are interchangeable; used by the runs that check no liveness.
AnyStart == Permutations(Starts)
=============================================================================
