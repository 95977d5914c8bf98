CONSTANT
  Threads = {t1, t2, t3}
SPECIFICATION FairSpec
INVARIANTS
  WriterExcludes
  HoldersCounted
PROPERTIES
  NoWriterJumpsAReader
  ReadersServed
