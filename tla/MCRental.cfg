\* Two rentals of one item; fees that change; pauses, bans, approvals withdrawn.
CONSTANTS
  alice = alice
  bob = bob
  carol = carol
  punks = punks
  punk7 = punk7
  hive = hive
  mapped = mapped
  NoAccount = NoAccount
  Market = Market
  Accounts = {alice, bob, carol}
  Deployer = carol
  Collections = {punks}
  Tokens = {mapped}
  NativeTokens = {}
  Deducting = {mapped}
  MaxHeight = 3
  PauseChoices = {TRUE, FALSE}
  OwnerChoices = {}
  FeeRecipientChoices = {}
  FeeChoices = {10000}
  CollectionFeeChoices = {}
  RoyaltyChoices <- MCRoyaltyChoices
  SplitChoices = {}
  AddTokenChoices <- MCAddTokenChoices
  RemoveTokenChoices = {}
  DenyChoices = {punks}
  AllowChoices = {}
  MinBidIncChoices = {}
  AntiSnipeChoices = {}
  MinOfferChoices = {}
  Items = {punk7}
  CollectionOf <- MCCollectionOf
  Soulbound = {}
  MintedTo <- MCMintedTo
  OutsideTrades <- MCOutsideTrades
  LotSizes = {1}
  Word = 64
  MaxRentals = 2
  PricesPerBlock = {1}
  BlockRanges <- MCBlockRanges
  RentBlocks = {1, 2}
  Allowances <- MCAllowances
SPECIFICATION FairSpec
INVARIANTS TypeOK RentedUnitsHeld AttestationTruthful AttestationKept LockedTermsPayable
PROPERTIES OwnersKeepTitle RentalsEnd
CHECK_DEADLOCK FALSE
