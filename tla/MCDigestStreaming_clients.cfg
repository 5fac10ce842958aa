SPECIFICATION Spec
CONSTANTS
  tool = tool
  gui = gui
  h1 = h1
  h2 = h2
  h3 = h3
  h4 = h4
  null = null
  x = x
  y = y
  Clients = {tool, gui}
  Style <- ToolAndGui
  Handles = {h1, h2, h3, h4}
  NoHandle = null
  Data = {x, y}
  MaxChunks = 2
SYMMETRY Symmetry
CHECK_DEADLOCK FALSE
INVARIANTS
  TypeOK
  DigestIsOfOwnChunks
  ReportedErrorIsOwn
  EveryContextHasOneOwner
