SPECIFICATION Spec
CONSTANTS
  Setups <- MCSetups
  Requests = {0, 1, 2}
  Largest <- MCLargest
  RxDepth = 1
  TxDepth = 2
  Window = 2
  MaxRequests <- MCMaxRequests
  MaxConnections = 2
INVARIANTS TypeOK StreamExact
PROPERTIES Implements Flows
