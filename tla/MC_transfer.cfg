CONSTANTS
  A = A  B = B  C = C  U = U  W = W  C1 = C1  C2 = C2
  N1 = N1  N2 = N2  N3 = N3
  Null = Null  Completed = Completed  None = None
  SealedDrainFix = FALSE
  Tasks = {A, B, C, U}
  Clients = {C1, C2}
  Owner <- OwnerTransfer
  Edges <- EdgesTransfer
  CanTransfer <- TransferPairs
  CanDrop = {}
  NodeIds = {N1, N2}
  MaxHandles = 1
SPECIFICATION Spec
INVARIANT TypeOK SingleSpawn HappensBefore NodeOwnership VertexRefBalance StateRefBalance NoUseAfterFree
PROPERTY ImplementsDependencyGraph
