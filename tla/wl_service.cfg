SPECIFICATION Spec
CONSTANTS
  n1 = n1
  NoNode = NoNode
  Workload = {w1, w2}
  Node = {n1}
  GPU = {g1}
  Handler = {h1, h2}
  MaxRepair = 1
  home <- OneNode
  count <- OneEach
  matches <- AnyMatch
SYMMETRY Symmetry
CONSTRAINT Focus
INVARIANTS  IntentIsDurable 
PROPERTIES ImplementsLease NoResurrection
