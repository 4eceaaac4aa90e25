SPECIFICATION Spec
CONSTANTS
  main = main  extra = extra  named = named
  q1 = q1  q2 = q2
  None = None
  File = {main, extra, named}
  Tracked = {main, extra, named}
  Query = {q1, q2}
  Reads <- TwoDatabases
  MaxText = 1
SYMMETRY Interchangeable
CONSTRAINT FewSaves
INVARIANTS
  FreshIsCurrent
  ExpansionsAgree
