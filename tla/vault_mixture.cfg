SPECIFICATION Spec
CONSTANTS
  Job = {j1, j2}
  e1 = e1
  e2 = e2
  s1 = s1
  Env = {e1, e2}
  Name = {n1}
  ModeOf <- OneCloudOneCold
  SlugOf <- OneSlug
  MaxVersion = 3
  Genesis = Genesis
  NULL = NULL
SYMMETRY Symmetry
CHECK_DEADLOCK FALSE
INVARIANTS
  NeverMixture
