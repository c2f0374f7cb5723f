\* One bucket, sold by the unit and in packs, with entries that go stale.
CONSTANTS
  alice = alice
  bob = bob
  punks = punks
  punk7 = punk7
  punk8 = punk8
  punk9 = punk9
  hive = hive
  NoAccount = NoAccount
  Market = Market
  Accounts = {alice, bob}
  Deployer = alice
  Collections = {punks}
  Tokens = {hive}
  NativeTokens = {hive}
  Deducting = {}
  MaxHeight = 2
  PauseChoices = {}
  OwnerChoices = {}
  FeeRecipientChoices = {}
  FeeChoices = {}
  CollectionFeeChoices = {}
  RoyaltyChoices = {}
  SplitChoices = {}
  AddTokenChoices = {}
  RemoveTokenChoices = {}
  DenyChoices = {}
  AllowChoices = {}
  MinBidIncChoices = {}
  AntiSnipeChoices = {}
  MinOfferChoices = {}
  Items = {punk7, punk8, punk9}
  CollectionOf <- MCCollectionOf
  Soulbound = {}
  MintedTo <- MCMintedTo
  OutsideTrades <- MCOutsideTrades
  LotSizes = {1}
  Word = 64
  Allowances <- MCAllowances
  CollectionOwner <- MCCollectionOwner
  MaxBuckets = 1
  MaxBucketStacks = 2
  BucketChunk = 2
  MaxBucketEntries = 4
  MaxEntriesPerCall = 2
  MaxDrawsPerTx = 3
  MaxStaleRetries = 1
  MaxDrawWork = 33
  Stocks <- MCStocks
  SinglePrices = {1}
  PackOffers <- MCPackOffers
  Quantities = {1, 2}
  Expirations = {1}
SPECIFICATION Spec
INVARIANTS TypeOK CountersAgree DrawFindsOneEntry DrawnUnitsHeld UnitsAccounted
CHECK_DEADLOCK FALSE
