CONSTANTS
  Passthrus <- Two
  Clients = {c1, c2}
  Sizes = {1, 2}
  Unknowns = {TRUE, FALSE}
  Layouts <- TwoLayouts
  Policies = {"plugin", "rules", "python"}
  Modulus = 64
  IntLimit = 6
  MaxStored = 9
  MaxGrown = 1
  Unlimited = Unlimited
  Malformed = Malformed
SYMMETRY Alike
SPECIFICATION Spec
INVARIANTS TypeOK Filled RefusedWhenFull
