SPECIFICATION Spec
CONSTANTS
  s1 = s1
  s2 = s2
  Starts = {s1, s2}
  Earlier <- EarlierSetups
  Misses <- OneOrMore
  Remains = {TRUE, FALSE}
  MaxFaults = 2
  MaxRestarts = 2
INVARIANT TypeOK
PROPERTIES OnlyTheWindowLosesCodes SuccessIsComplete KeptSecretsConverge
