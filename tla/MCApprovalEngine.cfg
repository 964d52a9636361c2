CONSTANTS
  adm1 = adm1
  adm2 = adm2
  opr = opr
  alien = alien
  Requests = {r1}
  Users = {adm1, adm2, opr, alien}
  NoUser = NoUser
  RoleOf <- MCRoleOf
  Requester <- MCRequester
  TenantOf <- MCTenantOf
  MemberOf <- MCMemberOf
  Submissions = {s1, s2}
  Monitors = {m1, m2}

SPECIFICATION FairSpec

INVARIANTS
  AnswerIsAudited

PROPERTIES
  ImplementsContract
  RegisteredIsAnswered

CHECK_DEADLOCK FALSE
