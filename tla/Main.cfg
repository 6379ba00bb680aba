CONSTANTS
  f1 = f1
  f2 = f2
  n1 = n1
  c1 = c1
  c2 = c2
  o1 = o1
  new1 = new1
  Flows <- MCFlows
  Nonces <- MCNonces
  Cookies <- MCCookies
  StatusCodes <- MCStatusCodes
  UserIds = {}
  OrgIds <- MCOrgIds
  NewId = new1
  CLIArgs <- MCCLIArgs
SPECIFICATION Spec
INVARIANT SessionGatesProbes
PROPERTY Termination
