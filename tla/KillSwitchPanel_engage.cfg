CONSTANTS
  Consumers = {"news"}
  Scans = {"trend"}
  Calendar <- OneSession
  LastTick = 3
SPECIFICATION PanelSpec
PROPERTY EngageEngages
