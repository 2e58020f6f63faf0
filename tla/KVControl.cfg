\* Three requests of two tenants with prompts that are near to each other; one page is
\* 83 percent of the GPU budget, between the thresholds of the policies.
CONSTANTS
  r1 = r1
  r2 = r2
  r3 = r3
  alice = alice
  bob = bob
  Requests = {r1, r2, r3}
  Tenants = {alice, bob}
  Prompts = {"p", "q"}
  Near <- AllNear
  PageSize = 5
  Budget = 6
  HighConcurrency = 2
  NoRef = NoRef
  Modes = {"quality_first", "balanced", "memory_first", "throughput_first"}
SPECIFICATION Spec
SYMMETRY Symmetry
INVARIANTS
  RequestsAccounted
  GpuBounded
  TenantIsolation
