SPECIFICATION FairSpec
CONSTANTS
  n1 = n1
  NoNode = NoNode
  Workload = {w1}
  Node = {n1}
  GPU = {g1}
  Handler = {h1}
  MaxRepair = 0
  Fault = {"server"}
  MaxFaults = 1
  home <- OneNode
  count <- OneEach
  matches <- AnyMatch
PROPERTIES CommandsSettle StoppingEnds
