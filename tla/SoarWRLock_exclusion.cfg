SPECIFICATION Spec
CONSTANTS Readers = {r1}
          Writers = {w1}
          Loops = 1
INVARIANT ReaderWriterExclusion
