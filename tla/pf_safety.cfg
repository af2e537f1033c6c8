SPECIFICATION PSpec
CONSTANTS
  n1 = n1
  NoNode = NoNode
  Workload = {w1}
  Node = {n1}
  GPU = {g1}
  Handler = {h1}
  MaxRepair = 0
  Fault = {"stream", "agent", "server"}
  MaxFaults = 1
  home <- OneNode
  count <- OneEach
  matches <- AnyMatch
INVARIANTS ExecutedOncePerProcess
PROPERTIES ImplementsWorkloads LiveContainerKept
