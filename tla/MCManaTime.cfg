\* Cooldowns, their changes, and the payment of what is queued.
SPECIFICATION FairSpec
CONSTANTS
  Users = {u1, u2}
  Routers = {r1}
  Assets = {}
  NoKey = NoKey
  MimPerUser = 2
  MarketMim = 0
  Cooldowns = {1, 2}
  DefaultCooldown = 2
  I64Half = 64
  MaxTime = 3
  MaxAsset = 0
INVARIANTS TypeOK ReservesBacked
PROPERTIES QueuedClaimFrozen CooldownServed QueuedIsPaid
CHECK_DEADLOCK FALSE
