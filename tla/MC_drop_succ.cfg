CONSTANTS
  A = A  B = B  C = C  U = U  W = W  C1 = C1  C2 = C2
  N1 = N1  N2 = N2  N3 = N3
  Null = Null  Completed = Completed  None = None
  SealedDrainFix = FALSE
  Tasks = {A, C}
  Clients = {C1, C2}
  Owner <- OwnerDrop
  Edges <- EdgesDrop
  CanTransfer = {}
  CanDrop = {C}
  NodeIds = {N1}
  MaxHandles = 2
SPECIFICATION Spec
INVARIANT VertexRefBalance StateRefBalance NoUseAfterFree
