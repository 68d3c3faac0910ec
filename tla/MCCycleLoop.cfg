SPECIFICATION Spec
CONSTANTS
  loop = loop
  oneshot = oneshot
  Loops = {loop}
  OneShots = {oneshot}
  Threshold = 2
  MaxCycles = 3
  MaxCrashes = 2
INVARIANTS
  TypeOK
  StreaksAreAlerted
PROPERTIES
  ImplementsBook
  EveryCycleCloses
