CONSTANTS
  d1 = d1
  k1 = k1
  i1 = i1
  s1 = s1
  opr = opr
  Calls = {d1, k1, i1}
  PathOf <- MCPathOf
  Sessions = {s1}
  SessionOf <- MCSessionOf
  Assessments <- MCAssessments
  TTL = 0
  Cap = 1
  Drop = 1
  PendingCap = 0
  MaxTime = 1
  MaxRuns = 3
  Users = {opr}
  RoleOf <- MCRoleOf
  Requester <- MCRequester
  NoUser = NoUser
  TenantOf <- MCTenantOf
  MemberOf <- MCMemberOf

SPECIFICATION Spec

INVARIANTS
  RunsAreAuthorized
  
  GovernedCallsRunOnce
  HighRiskIsRecorded

CHECK_DEADLOCK FALSE
