\* Two rentals of one item, nothing else going on.
CONSTANTS
  alice = alice
  bob = bob
  carol = carol
  punks = punks
  punk7 = punk7
  hive = hive
  mapped = mapped
  NoAccount = NoAccount
  Market = Market
  Accounts = {alice, bob, carol}
  Deployer = carol
  Collections = {punks}
  Tokens = {hive}
  NativeTokens = {hive}
  Deducting = {}
  MaxHeight = 5
  PauseChoices = {}
  OwnerChoices = {}
  FeeRecipientChoices = {}
  FeeChoices = {}
  CollectionFeeChoices = {}
  RoyaltyChoices = {}
  SplitChoices = {}
  AddTokenChoices = {}
  RemoveTokenChoices = {}
  DenyChoices = {}
  AllowChoices = {}
  MinBidIncChoices = {}
  AntiSnipeChoices = {}
  MinOfferChoices = {}
  Items = {punk7}
  CollectionOf <- MCCollectionOf
  Soulbound = {}
  MintedTo <- MCMintedTo
  OutsideTrades = {}
  LotSizes = {1}
  Word = 64
  MaxRentals = 2
  PricesPerBlock = {1}
  BlockRanges <- MCBlockRanges
  RentBlocks = {1, 2}
  Allowances <- MCAllowances
SPECIFICATION FairSpec
INVARIANTS AttestationSurvives
CHECK_DEADLOCK FALSE
