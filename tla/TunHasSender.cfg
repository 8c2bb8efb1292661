SPECIFICATION Spec
CONSTANTS
  r1 = r1
  r2 = r2
  c1 = c1
  c2 = c2
  h1 = h1
  n8 = n8
  n24 = n24
  Real = {r1, r2}
  CN = {c1, c2}
  Handle <- HandleDef
  Host = {h1}
  Net = {n8, n24}
  NetBits <- NetBitsDef
  Covers <- CoversDef
  Iroutes <- IroutesDef
  Push <- PushDef
  MaxRoutes = 3
  Capacity = 1
  MaxInstances = 3
  NoName = NoName
  NoAddr = NoAddr
  All = All
SYMMETRY Symmetry
INVARIANT TunHasSender
