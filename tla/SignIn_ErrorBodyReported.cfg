CONSTANTS
  f1 = f1
  f2 = f2
  n1 = n1
  c1 = c1
  c2 = c2
  Flows <- MCFlows
  Nonces <- MCNonces
  Cookies <- MCCookies
  StatusCodes <- MCStatusCodes
SPECIFICATION Spec
INVARIANT ErrorBodyReported
