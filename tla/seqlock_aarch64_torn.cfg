SPECIFICATION Spec
CONSTANTS
  Words = {w1, w2}
  Readers = {r1}
  Weak = TRUE
  MaxWrites = 2
INVARIANTS NoTornRead
