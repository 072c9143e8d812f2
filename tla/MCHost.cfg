SPECIFICATION Spec
INVARIANTS HostWithinBounds FilesKept StartsAsConfigured   PppoeSound 
PROPERTY HostSteps
