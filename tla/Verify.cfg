SPECIFICATION Spec
CONSTANTS
  alice = alice
  bob = bob
  shop = shop
  rival = rival
  usdc = usdc
  atom = atom
  page = page
  post = post
  home = home
  away = away
  fac = fac
  fac2 = fac2
  n1 = n1
  Malformed = Malformed
  Payers = {alice, bob}
  Recipients = {shop, rival}
  Nonces = {n1}
  Word = 16
  UnixMax = 10
  Schemes <- MCSchemes
  Denoms = {usdc, atom}
  Resources = {page, post}
  ChainIds = {home, away}
  Grantees = {fac, fac2}
  HomeChain = home
  Float64 <- ThreeDigits
  Exact = 8
  DefaultTimeout = 3
  Requests <- MCRequests
  Signer = fac
  GrantTables <- MCGrants
  BalanceTables <- MCBalances
  Configs <- MCConfigs
  PayerWindows <- MCWindows
  Start = 2
  MaxNow = 4
CHECK_DEADLOCK FALSE
INVARIANTS
  ValidMeansVerified
  CodesAreTruthful
  OnlySignedIsValid
  HonestPaymentsFit
