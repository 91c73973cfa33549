SPECIFICATION FairSpec
CONSTANTS
  alice = alice
  shop = shop
  usdc = usdc
  page = page
  post = post
  home = home
  fac = fac
  n1 = n1
  n2 = n2
  v1 = v1
  v2 = v2
  Malformed = Malformed
  Payers = {alice}
  Recipients = {shop}
  Nonces = {n1, n2}
  Word = 8
  UnixMax = 6
  Schemes <- MCSchemes
  Denoms = {usdc}
  Resources = {page, post}
  ChainIds = {home}
  Grantees = {fac}
  HomeChain = home
  Float64 <- SameFloat
  Exact = 8
  DefaultTimeout = 3
  Visits = {v1, v2}
  Server <- MCServer
  Headers <- MCHeaders
  MayShare = TRUE
INVARIANTS
  ServedIsPaid
  OneServicePerNonce
  ReasonTellsCharge
  SecondChargeIsAnnounced
PROPERTIES
  EveryVisitAnswered
CHECK_DEADLOCK FALSE
