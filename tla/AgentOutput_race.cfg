SPECIFICATION OutputSpec
CONSTANTS
  h1 = h1
  h2 = h2
  h3 = h3
  Screens <- MCScreens
  Handlers = {h1}
  Kind <- OneInput
  Sync = sync
  FrameLimit = 2
  MaxChanges = 2
  MaxRestarts = 1
INVARIANTS AlwaysChain
