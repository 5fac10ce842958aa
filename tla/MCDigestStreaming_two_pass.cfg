SPECIFICATION Spec
CONSTANTS
  tool = tool
  gui = gui
  h1 = h1
  h2 = h2
  h3 = h3
  h4 = h4
  null = null
  x = x
  y = y
  Clients = {gui}
  Style <- ToolAndGui
  Handles = {h1, h2}
  NoHandle = null
  Data = {x, y}
  MaxChunks = 1
CHECK_DEADLOCK FALSE
INVARIANTS
  SecondPassDelivers
