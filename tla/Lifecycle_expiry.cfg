CONSTANTS
  Proposals = {p1}
  Orders = {o1}
  Consumers = {news}
  Scans = {}
  NoProposal = NoProposal
  NoOrder = NoOrder
  BrokerEvents <- UsualEvents
  MaxFaults = 0
SPECIFICATION Spec
PROPERTY ExpirySparesExecuted
