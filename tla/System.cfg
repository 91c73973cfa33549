SPECIFICATION SystemSpec
CONSTANTS
  alice = alice
  shop = shop
  usdc = usdc
  xusdc = xusdc
  page = page
  post = post
  home = home
  fac = fac
  n1 = n1
  n2 = n2
  v1 = v1
  v2 = v2
  NoTx = NoTx
  Malformed = Malformed
  Payers = {alice}
  Recipients = {shop}
  Nonces = {n1, n2}
  Word = 8
  UnixMax = 4
  Limits <- MCLimits
  MayEvict = TRUE
  Requests = {v1, v2}
  Payloads <- MCPayloads
  MaxNow = 1
  MaxRestarts = 1
  Visits = {v1, v2}
  Server <- MCServer
  Headers <- MCHeaders
  Schemes <- MCSchemes
  Denoms = {usdc, xusdc}
  Resources = {page, post}
  ChainIds = {home}
  Grantees = {fac}
  HomeChain = home
  Float64 <- SameFloat
  Exact = 8
  DefaultTimeout = 3
SYMMETRY Symmetry
INVARIANTS
  ServedIsReceived
  ServicesAreSold
  SoldOncePerRun
  ChargesAreExplained
PROPERTIES
  ImplementsGate
CHECK_DEADLOCK FALSE
