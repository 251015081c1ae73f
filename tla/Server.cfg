SPECIFICATION FairServerSpec
CONSTANT Requests = {r1, r2}
INVARIANTS
  ServerInvariant
  ServesOnlyConfigured
  NoQueryOutlivesThePool
  CleanStopFinishesRequests
PROPERTIES
  SignalStops
CHECK_DEADLOCK FALSE
