\* A cooldown_seconds of 2^63 or more (here 15 of 0..15).
SPECIFICATION Spec
CONSTANTS
  Users = {u1, u2}
  Routers = {r1}
  Assets = {}
  NoKey = NoKey
  MimPerUser = 1
  MarketMim = 0
  Cooldowns = {1, 15}
  DefaultCooldown = 1
  I64Half = 8
  MaxTime = 2
  MaxAsset = 0
PROPERTIES CooldownServed
CHECK_DEADLOCK FALSE
