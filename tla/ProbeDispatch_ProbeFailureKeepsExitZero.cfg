CONSTANTS
  u1 = u1
  o1 = o1
  new1 = new1
  UserIds <- MCUserIds
  OrgIds <- MCOrgIds
  NewId = new1
  CLIArgs <- MCCLIArgs
SPECIFICATION Spec
INVARIANT ProbeFailureKeepsExitZero
