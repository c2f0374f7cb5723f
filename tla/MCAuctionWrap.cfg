\* One English auction; block numbers and the anti-snipe window near the word's limit.
CONSTANTS
  alice = alice
  bob = bob
  carol = carol
  punks = punks
  punk7 = punk7
  hive = hive
  NoAccount = NoAccount
  Market = Market
  Accounts = {alice, bob, carol}
  Deployer = carol
  Collections = {punks}
  mapped = mapped
  Tokens = {hive}
  NativeTokens = {hive}
  Deducting = {}
  MaxHeight = 4
  PauseChoices = {}
  OwnerChoices = {}
  FeeRecipientChoices = {}
  FeeChoices = {}
  CollectionFeeChoices = {}
  RoyaltyChoices = {}
  SplitChoices = {}
  AddTokenChoices = {}
  RemoveTokenChoices = {}
  DenyChoices = {}
  AllowChoices = {}
  MinBidIncChoices = {}
  AntiSnipeChoices = {2, 7}
  MinOfferChoices = {}
  Items = {punk7}
  CollectionOf <- MCCollectionOf
  Soulbound = {}
  MintedTo <- MCMintedTo
  MaxAuctions = 1
  LotSizes = {1}
  StartPrices = {2}
  EndPrices = {0}
  StartBlocks = {0}
  EndBlocks = {2}
  AuctionTypes = {"english"}
  Bids = {2, 3, 4}
  OutsideTrades = {}
  Word = 8
SPECIFICATION FairSpec
PROPERTIES BidLeavesTime
CHECK_DEADLOCK FALSE
