SPECIFICATION Spec
CONSTANTS
  c1 = c1
  c2 = c2
  c3 = c3
  CPUs <- ThreeCPUs
  TicketModulus = 3
INVARIANTS
  MutualExclusion
  IInv
PROPERTIES
  NoStarvation
  ServesInOrder
