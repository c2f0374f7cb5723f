\* Two auctions of one item, English and Dutch, two payment tokens.
CONSTANTS
  alice = alice
  bob = bob
  carol = carol
  punks = punks
  punk7 = punk7
  hive = hive
  mapped = mapped
  NoAccount = NoAccount
  Market = Market
  Accounts = {alice, bob, carol}
  Deployer = carol
  Collections = {punks}
  Tokens = {hive, mapped}
  NativeTokens = {hive}
  Deducting = {mapped}
  MaxHeight = 3
  PauseChoices = {}
  OwnerChoices = {}
  FeeRecipientChoices = {}
  FeeChoices = {}
  CollectionFeeChoices <- MCCollectionFeeChoices
  RoyaltyChoices <- MCRoyaltyChoices
  SplitChoices <- MCSplitChoices
  AddTokenChoices <- MCAddTokenChoices
  RemoveTokenChoices = {}
  DenyChoices = {punks}
  AllowChoices = {}
  MinBidIncChoices = {}
  AntiSnipeChoices = {}
  MinOfferChoices = {}
  Items = {punk7}
  CollectionOf <- MCCollectionOf
  Soulbound = {}
  MintedTo <- MCMintedTo
  MaxAuctions = 2
  LotSizes = {1}
  StartPrices = {2}
  EndPrices = {0}
  StartBlocks = {0}
  EndBlocks = {2}
  AuctionTypes = {"english", "dutch"}
  Bids = {2, 3, 4}
  OutsideTrades <- MCOutsideTrades
  Word = 64
SPECIFICATION Spec
INVARIANTS TypeOK BidsBacked LotsHeld LotFollowsMoney NothingMissing RoyaltyViewsAgree
PROPERTIES SaleSpec
CHECK_DEADLOCK FALSE
