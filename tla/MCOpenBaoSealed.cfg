SPECIFICATION Spec
CONSTANTS
  s1 = s1
  s2 = s2
  Starts = {s1}
  Earlier <- EarlierSetups
  Misses <- OneOrMore
  Remains = {FALSE}
  MaxFaults = 0
  MaxRestarts = 2
INVARIANT NeverWithoutToken
