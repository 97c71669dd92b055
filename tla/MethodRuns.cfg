SPECIFICATION Spec
CONSTANTS
  Methods <- AllMethods
  ByteSize = 8
INVARIANTS
  JumpsLand
  StackSound
  EveryTargetHasAFrame
  FramesTrue
  ReadsItsVariable
