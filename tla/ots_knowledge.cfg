SPECIFICATION FairSpec
CONSTANTS
  Txid = {t1}
  Network = {mainnet, signet}
  Slot = {s1, s2, s3}
PROPERTIES
  LearnedForGood
