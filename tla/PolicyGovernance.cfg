\* Two shells, two texts of one policy version and one of another, two approvals required.
CONSTANTS
  t1 = t1
  t2 = t2
  t3 = t3
  v1 = v1
  v2 = v2
  Commands = {c1, c2}
  Texts = {t1, t2, t3}
  Versions = {v1, v2}
  VersionOf <- MCVersionOf
  Approvers = {a1, a2}
  RequiredApprovals = 2
  Models = {m1, m2}
  MaxCommands = 4
SPECIFICATION Spec
SYMMETRY Interchangeable
CHECK_DEADLOCK FALSE
INVARIANTS
  AtMostOneActive
  ServedWasPromoted
  PromotedAsApproved
