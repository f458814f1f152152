SPECIFICATION SceneSpec
CONSTANTS
  h1 = h1
  h2 = h2
  h3 = h3
  Screens <- MCScreens
  Handlers = {h1, h2, h3}
  Kind <- OneOfEach
  Sync = sync
  FrameLimit = 2
  MaxChanges = 2
  MaxRestarts = 1
INVARIANTS OutputTypeOK RenderedGoesOut FramesChain
PROPERTIES CatchesUp
