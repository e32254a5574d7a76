CONSTANTS
  Proposals = {p1}
  Orders = {o1, o2}
  Consumers = {news}
  Scans = {trend}
  NoProposal = NoProposal
  NoOrder = NoOrder
  BrokerEvents <- UsualEvents
  MaxFaults = 1
SPECIFICATION FairSpec
PROPERTIES StaleOnlyIfStarved ImplementsClaims
