SPECIFICATION MetricsSpec
CONSTANTS
  Contexts = {x1, x2}
  MaxAttempts = 2
  MaxCalls = 4
  MaxDepth = 2
INVARIANT LatencyStaysInOneCall
PROPERTY RetriesAreMeasured
