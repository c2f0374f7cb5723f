\* One auction under every restriction: an English one, its end put off by
\* bids, or a Dutch one with a price that falls;
\* stray money in two tokens and its withdrawal.
CONSTANTS
  alice = alice
  bob = bob
  carol = carol
  punks = punks
  punk7 = punk7
  hive = hive
  dust = dust
  NoAccount = NoAccount
  Market = Market
  Accounts = {alice, bob, carol}
  Deployer = carol
  Collections = {punks}
  Tokens = {hive, dust}
  NativeTokens = {hive}
  Deducting = {dust}
  MaxHeight = 10
  PauseChoices = {TRUE, FALSE}
  OwnerChoices = {}
  FeeRecipientChoices = {}
  FeeChoices = {}
  CollectionFeeChoices = {}
  RoyaltyChoices = {}
  SplitChoices = {}
  AddTokenChoices <- MCAddTokenChoices
  RemoveTokenChoices = {hive}
  DenyChoices = {punks}
  AllowChoices = {punks}
  MinBidIncChoices = {5000}
  AntiSnipeChoices = {2}
  MinOfferChoices = {}
  Items = {punk7}
  CollectionOf <- MCCollectionOf
  Soulbound = {}
  MintedTo <- MCMintedTo
  MaxAuctions = 1
  LotSizes = {1}
  StartPrices = {2}
  EndPrices = {1}
  StartBlocks = {0}
  EndBlocks = {3}
  AuctionTypes = {"english", "dutch"}
  Bids = {2, 3, 5}
  OutsideTrades = {}
  Word = 64
  StrayAmounts = {1}
  WithdrawAmounts = {1, 2}
  MaxStray = 1
SPECIFICATION FairRescueSpec
INVARIANTS WhitelistProtects LogTellsAuctions DutchPriceFalls
PROPERTIES BidLeavesTime AuctionsEnd
CHECK_DEADLOCK FALSE
