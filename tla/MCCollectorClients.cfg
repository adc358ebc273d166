SPECIFICATION Spec
CONSTANTS
  Host = {h1, h2}
  V4 = {a4}
  V6 = {a6}
  Proc = {parent, child}
  First = parent
  Configuration <- MCConfiguration
  MaxChanges = 2
  MaxClients = 2
INVARIANTS
  TempsOwned
  IdentityUnderCa
  PlaintextHasCause
  BackendsDialled
CHECK_DEADLOCK FALSE
