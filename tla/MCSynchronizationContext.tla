---------------------- MODULE MCSynchronizationContext ----------------------
(* The instances of SynchronizationContext that TLC checks: the one worker *)
(* that TimerunV2 starts, and no symmetry, as they check liveness.         *)
EXTENDS SynchronizationContext
=============================================================================
