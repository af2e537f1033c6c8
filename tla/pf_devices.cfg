SPECIFICATION PSpec
CONSTANTS
  n1 = n1
  NoNode = NoNode
  Workload = {w1, w2}
  Node = {n1}
  GPU = {g1}
  Handler = {h1}
  MaxRepair = 0
  Fault = {"stream", "agent", "server"}
  MaxFaults = 0
  home <- OneNode
  count <- OneEach
  matches <- AnyMatch
INVARIANTS DevicesExclusive
