SPECIFICATION FairSpec
CONSTANTS
  Getter = {g1, g2}
  Local = {w1, w2}
  Remote = {v1}
  MaxWrites = 2
  MaxFaults = 1
INVARIANTS TypeOK Fresh ReadYourWrites
PROPERTY CallsReturn
