CONSTANTS
  adm1 = adm1
  adm2 = adm2
  opr = opr
  alien = alien
  Requests = {r1}
  Users = {adm1, adm2}
  NoUser = NoUser
  RoleOf <- MCRoleOf
  Requester <- MCRequester
  TenantOf <- MCTenantOf
  MemberOf <- MCMemberOf
  Submissions = {s1}
  Monitors = {m1}

SPECIFICATION FairSpec

PROPERTIES
  EveryRequestAnswered

CHECK_DEADLOCK FALSE
