\* Two service threads, so that deinitialisations of every kind interleave;
\* no symmetry, which liveness checking does not allow.
CONSTANTS
  Client = client
  Runner = runner
  ServiceThreads = {s1, s2}
  Nobody = nobody
  MaxReporters = 1
SPECIFICATION FairSpec
INVARIANTS
  RunUsesLoadedModel
  SingleAutoUnloadTask
  UncachedModelStaysLoaded
  TimerLostOnlyByFailure
PROPERTIES
  DeinitEntersLiveExecutor
  LeaseSpec
  IdleModelIsUnloaded
  CallsReturn
\* The system stops once the executor is freed, and after a fault.
CHECK_DEADLOCK FALSE
