SPECIFICATION Spec
CONSTANTS
  o1 = o1
  o2 = o2
  a1 = a1
  a2 = a2
  t1 = t1
  t2 = t2
  s1 = s1
  s2 = s2
  s3 = s3
  None = None
  Zero = Zero
  Threads = {t1, t2}
  Arrays = {s1, s2, s3}
  MaxBlocks = 3
  Blocks <- MCBlocks
  Calls <- MCCalls
SYMMETRY Symmetry
CONSTRAINT OneWriterOneReader
INVARIANTS TypeOK SliceIsExact NothingBroughtBack NothingMissed
