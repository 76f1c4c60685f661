SPECIFICATION Spec
CONSTANTS
  o1 = o1
  u1 = u1
  inv1 = inv1
  inv2 = inv2
  q1 = q1
  q2 = q2
  Users = {o1, u1}
  Founder = o1
  Invites = {inv1, inv2}
  Requests = {q1, q2}
  Ops = {"role", "remove", "invite", "accept", "createKey", "rotate", "revoke", "createDashboard", "publish", "unpublish", "rename", "deleteDashboard"}
  Nothing = Nothing
  MaxRequests = 5
SYMMETRY Symmetry
CONSTRAINT OneConcern
CHECK_DEADLOCK FALSE
INVARIANTS RolesAreGranted AcceptedOnce SecretsNeverReturn
PROPERTIES OwnersKeepTheirRole LinkAndDeletionStay
