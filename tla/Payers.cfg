SPECIFICATION Spec
CONSTANTS
  r1 = r1
  r2 = r2
  r3 = r3
  alice = alice
  bob = bob
  shop = shop
  n1 = n1
  n2 = n2
  usdc = usdc
  xusdc = xusdc
  NoTx = NoTx
  Denoms = {usdc, xusdc}
  Payers = {alice, bob}
  Recipients = {shop}
  Nonces = {n1, n2}
  Word = 8
  UnixMax = 4
  Limits <- OneOrNone
  MayEvict = TRUE
  Requests = {r1, r2, r3}
  Payloads <- TwoPayers
  MaxNow = 1
  MaxRestarts = 0
SYMMETRY Symmetry
INVARIANTS
  TypeOK
  NoOrphanReservation
  SuccessIsBacked
  AuthorizedPullsOnly
  ReceiptIsUnique
