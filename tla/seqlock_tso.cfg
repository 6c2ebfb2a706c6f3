SPECIFICATION FairSpec
CONSTANTS
  Words = {w1, w2}
  Readers = {r1}
  Weak = FALSE
  MaxWrites = 3
INVARIANTS TypeOK NoTornRead FreshRead
PROPERTIES ImplementsAtomicFrame ReadTerminates
