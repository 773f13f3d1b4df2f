CONSTANTS
  Peers = {host, ada, ben}
  Hosts = {host}
  CoHosts = {ada, ben}
  LearnersMayShare = FALSE
  Nobody = Nobody
SYMMETRY SameRole
SPECIFICATION Spec
INVARIANTS IInv OneHeldShare HolderHasSession
CHECK_DEADLOCK FALSE
