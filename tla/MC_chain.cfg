CONSTANTS
  A = A  B = B  C = C  U = U  W = W  C1 = C1  C2 = C2
  N1 = N1  N2 = N2  N3 = N3
  Null = Null  Completed = Completed  None = None
  SealedDrainFix = TRUE
  Tasks = {A, B, U, W}
  Clients = {C1}
  Owner <- OwnerChain
  Edges <- EdgesChain
  CanTransfer <- ChainPairs
  CanDrop = {}
  NodeIds = {N1}
  MaxHandles = 1
SPECIFICATION Spec
INVARIANT HappensBefore StateRefBalance NoUseAfterFree QuiescentNoLeak
PROPERTY SubmittedTaskCompletes OrderReturns ImplementsDependencyGraph
