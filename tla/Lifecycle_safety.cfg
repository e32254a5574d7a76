CONSTANTS
  Proposals = {p1, p2}
  Orders = {o1, o2}
  Consumers = {news}
  Scans = {trend}
  NoProposal = NoProposal
  NoOrder = NoOrder
  BrokerEvents <- UsualEvents
  MaxFaults = 1
SPECIFICATION Spec
SYMMETRY Symmetric
INVARIANTS TypeOK AtMostOneLiveTrade RowNeverAhead OneOrderWithoutFaults
PROPERTIES AutomaticSentOnce RejectedNeverSent
