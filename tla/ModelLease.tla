----------------------------- MODULE ModelLease -----------------------------
(***************************************************************************)
(* What NNExecutor's lock promises about m_preparedModel: a run leases the *)
(* model, loading it first if it had been unloaded; the model is unloaded  *)
(* or destroyed only between runs, and nothing happens to it afterwards.   *)
(***************************************************************************)
VARIABLES
  lease,  \* "loaded", "unloaded" or "gone"
  busy    \* a run is using the model

vars == <<lease, busy>>

Init == lease = "loaded" /\ busy = FALSE

\* RunSync takes the model, reloading it from its cache if needed.
Acquire == /\ lease # "gone" /\ ~busy
           /\ lease' = "loaded" /\ busy' = TRUE

\* RunSync returns.
Release == busy /\ busy' = FALSE /\ UNCHANGED lease

\* DeinitModel: only a model nobody runs.
Unload == lease = "loaded" /\ ~busy /\ lease' = "unloaded" /\ UNCHANGED busy

\* DestroyPreparedModel: for good.
Destroy == lease # "gone" /\ ~busy /\ lease' = "gone" /\ UNCHANGED busy

Next == Acquire \/ Release \/ Unload \/ Destroy

Spec == Init /\ [][Next]_vars
=============================================================================
