\* The flow of funds: two holders, a treasury that sells one donated asset.
SPECIFICATION Spec
CONSTANTS
  Users = {u1, u2}
  Routers = {r1}
  Assets = {a1}
  NoKey = NoKey
  MimPerUser = 3
  MarketMim = 1
  Cooldowns = {0}
  DefaultCooldown = 0
  I64Half = 64
  MaxTime = 0
  MaxAsset = 1
SYMMETRY UserSymmetry
INVARIANTS FullyBacked EscrowBacked ReservesBacked RedeemableAtPar
INVARIANTS JoiningNeverPays PartsNeverPay
PROPERTIES NavNeverFalls QueuedClaimFrozen ImplementsNavVault
CHECK_DEADLOCK FALSE
