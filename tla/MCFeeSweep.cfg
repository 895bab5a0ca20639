\* Two deployments of the treasury, one pool, and a configuration that the
\* admin may point anywhere.
SPECIFICATION FairSpec
CONSTANTS
  MIM = MIM
  ASSET = ASSET
  Treasuries = {"old", "new"}
  Mints = {MIM, ASSET}
  Mim = MIM
  MintOf <- MCMintOf
  Tokens <- MCTokens
  Arriving <- MCArriving
INVARIANT TypeOK
PROPERTIES FeesReachTheTreasury NothingPaidUnrouted KeepsLedger SweptOnceRouted
CHECK_DEADLOCK FALSE
