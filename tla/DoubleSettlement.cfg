SPECIFICATION Spec
CONSTANTS
  r1 = r1
  r2 = r2
  r3 = r3
  alice = alice
  bob = bob
  shop = shop
  n1 = n1
  n2 = n2
  usdc = usdc
  xusdc = xusdc
  NoTx = NoTx
  Denoms = {usdc}
  Payers = {alice}
  Recipients = {shop}
  Nonces = {n1}
  Word = 8
  UnixMax = 4
  Limits <- Plenty
  MayEvict = FALSE
  Requests = {r1, r2}
  Payloads <- OneNonce
  MaxNow = 2
  MaxRestarts = 0
INVARIANTS
  NoDoubleSettlement
