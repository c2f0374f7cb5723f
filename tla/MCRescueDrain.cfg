\* The same, without the proviso on the whitelist.
CONSTANTS
  alice = alice
  bob = bob
  carol = carol
  punks = punks
  punk7 = punk7
  hive = hive
  dust = dust
  NoAccount = NoAccount
  Market = Market
  Accounts = {alice, bob, carol}
  Deployer = carol
  Collections = {punks}
  Tokens = {hive, dust}
  NativeTokens = {hive}
  Deducting = {dust}
  MaxHeight = 3
  PauseChoices = {TRUE, FALSE}
  OwnerChoices = {}
  FeeRecipientChoices = {}
  FeeChoices = {}
  CollectionFeeChoices = {}
  RoyaltyChoices = {}
  SplitChoices = {}
  AddTokenChoices <- MCAddTokenChoices
  RemoveTokenChoices = {hive, dust}
  DenyChoices = {}
  AllowChoices = {}
  MinBidIncChoices = {}
  AntiSnipeChoices = {}
  MinOfferChoices = {}
  Items = {punk7}
  CollectionOf <- MCCollectionOf
  Soulbound = {}
  MintedTo <- MCMintedTo
  MaxAuctions = 1
  LotSizes = {1}
  StartPrices = {1}
  EndPrices = {0}
  StartBlocks = {0}
  EndBlocks = {2}
  AuctionTypes = {"english", "dutch"}
  Bids = {1, 2}
  OutsideTrades = {}
  Word = 64
  StrayAmounts = {1}
  WithdrawAmounts = {1, 2}
  MaxStray = 1
SPECIFICATION RescueSpec
INVARIANTS OnlyDustWithdrawn
CHECK_DEADLOCK FALSE
