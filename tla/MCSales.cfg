\* Two swaps or sales, of any kinds, inside or after one another.
CONSTANTS
  alice = alice
  vault = vault
  punks = punks
  punk7 = punk7
  punk8 = punk8
  hive = hive
  mapped = mapped
  NoAccount = NoAccount
  Market = Market
  Accounts = {alice, vault}
  Deployer = alice
  Collections = {punks}
  Tokens = {hive, mapped}
  NativeTokens = {hive}
  Deducting = {mapped}
  MaxHeight = 2
  PauseChoices = {TRUE}
  OwnerChoices = {}
  FeeRecipientChoices = {}
  FeeChoices = {}
  CollectionFeeChoices = {}
  RoyaltyChoices = {}
  SplitChoices = {}
  AddTokenChoices <- MCAddTokenChoices
  RemoveTokenChoices = {mapped}
  DenyChoices = {}
  AllowChoices = {}
  MinBidIncChoices = {}
  AntiSnipeChoices = {}
  MinOfferChoices = {}
  Items = {punk7, punk8}
  CollectionOf <- MCCollectionOf
  Soulbound = {}
  MintedTo <- MCMintedTo
  OutsideTrades <- MCOutsideTrades
  LotSizes = {1}
  Word = 5
  Allowances <- MCAllowances
  CollectionOwner <- MCCollectionOwner
  CallbackAccount <- MCCallbackAccount
  MaxDepth = 2
  MaxOffers = 2
  MaxSwaps = 2
  Sides <- MCSides
  TopUps <- MCTopUps
  SwapExpirations = {1}
  MaxSpotListings = 2
  SpotPrices = {1}
  SpotCaps = {0, 4}
  SpotExpirations = {1}
  SpotStarts = {0}
  SpotAmounts = {1, 4}
  EditionSize <- MCEditionSize
  MintRight <- MCMintRight
  Unlimited = Unlimited
  MaxTokenListings = 2
  TokenAmounts = {1, 2}
  TokenPrices = {1}
  TokenExpirations = {1}
  TokenStarts = {0}
  CoinsAtFirst <- MCCoinsAtFirst
  TokenTrades <- MCTokenTrades
SPECIFICATION Spec
INVARIANTS SalesTypeOK NothingKept BarterWhole SoldIsDelivered
CHECK_DEADLOCK FALSE
