CONSTANTS
  Proposals = {p1}
  Orders = {o1, o2}
  Consumers = {news}
  Scans = {}
  NoProposal = NoProposal
  NoOrder = NoOrder
  BrokerEvents <- UsualEvents
  MaxFaults = 1
SPECIFICATION Spec
PROPERTY NoSecondOrder
