CONSTANTS
  Threads = {t1, t2}
  Frames = {f1, f2}
  NoFrame = NoFrame
  Prompt = FALSE
SPECIFICATION FairSpec
INVARIANTS
  TypeOK
PROPERTIES
  WedgedForGood
  LateMeansWedged
