\* Two offers for units of two items, in parts; two payment tokens; a pause for good.
CONSTANTS
  alice = alice
  bob = bob
  punks = punks
  punk7 = punk7
  punk8 = punk8
  hive = hive
  mapped = mapped
  NoAccount = NoAccount
  Market = Market
  Accounts = {alice, bob}
  Deployer = alice
  Collections = {punks}
  Tokens = {hive, mapped}
  NativeTokens = {hive}
  Deducting = {mapped}
  MaxHeight = 2
  PauseChoices = {TRUE}
  OwnerChoices = {}
  FeeRecipientChoices = {}
  FeeChoices = {}
  CollectionFeeChoices <- MCCollectionFeeChoices
  RoyaltyChoices <- MCRoyaltyChoices
  SplitChoices = {}
  AddTokenChoices <- MCAddTokenChoices
  RemoveTokenChoices = {}
  DenyChoices = {}
  AllowChoices = {}
  MinBidIncChoices = {}
  AntiSnipeChoices = {}
  MinOfferChoices = {}
  Items = {punk7, punk8}
  CollectionOf <- MCCollectionOf
  Soulbound = {}
  MintedTo <- MCMintedTo
  OutsideTrades <- MCOutsideTrades
  LotSizes = {1}
  Word = 64
  Allowances <- MCAllowances
  MaxOffers = 2
  UnitPrices = {1}
  Amounts = {2}
  Expirations = {1}
  AcceptAmounts = {0, 1}
SPECIFICATION FairSpec
INVARIANTS TypeOK EscrowBacked BuyersAccount
PROPERTIES ExpiredOffersEnd
CHECK_DEADLOCK FALSE
