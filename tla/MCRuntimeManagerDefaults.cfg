CONSTANTS
  c1 = c1
  c2 = c2
  c3 = c3
  c4 = c4
  t1 = t1
  t2 = t2
  a1 = a1
  a2 = a2
  a3 = a3
  Calls = {c1, c2, c3, c4}
  Tenants = {t1, t2}
  Agents = {a1, a2, a3}
  TenantOf <- MCTenantOf
  AgentOf <- MCAgentOf
  PriorityOf <- MCPriorityOf
  MaxGlobal = 2
  MaxPerTenant = 2
  MaxPerAgent = Undefined
  Undefined = Undefined
  DefaultPerAgent = 1
  MaxRecoveries = 1

SPECIFICATION Spec

INVARIANT DefaultApplies

CHECK_DEADLOCK FALSE
