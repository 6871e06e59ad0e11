CONSTANTS
  g1 = g1
  None = None
  Generations = {g1}
  MayAsk = {}
  MaxEvents = 2
  MaxFetches = 1
  Paragraphs = 2
  Sizes = 2
  Versions = {1}
  Smooth = 1
  MaxStep = 1
SPECIFICATION TabSpec
PROPERTIES
  FramesHandled
  TextsEnd
CHECK_DEADLOCK FALSE
