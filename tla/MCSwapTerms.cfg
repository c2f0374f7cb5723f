\* A swap proposed while fee and royalty are zero.
CONSTANTS
  alice = alice
  vault = vault
  punks = punks
  punk7 = punk7
  punk8 = punk8
  hive = hive
  mapped = mapped
  NoAccount = NoAccount
  Market = Market
  Accounts = {alice, vault}
  Deployer = alice
  Collections = {punks}
  Tokens = {hive, mapped}
  NativeTokens = {hive}
  Deducting = {mapped}
  MaxHeight = 2
  PauseChoices = {}
  OwnerChoices = {}
  FeeRecipientChoices = {}
  FeeChoices = {}
  CollectionFeeChoices <- MCCollectionFeeChoices
  RoyaltyChoices <- MCRoyaltyChoices
  SplitChoices = {}
  AddTokenChoices <- MCAddTokenChoices
  RemoveTokenChoices = {}
  DenyChoices = {}
  AllowChoices = {}
  MinBidIncChoices = {}
  AntiSnipeChoices = {}
  MinOfferChoices = {}
  Items = {punk7, punk8}
  CollectionOf <- MCCollectionOf
  Soulbound = {}
  MintedTo <- MCMintedTo
  OutsideTrades <- MCOutsideTrades
  LotSizes = {1}
  Word = 5
  Allowances = {}
  CollectionOwner <- MCCollectionOwner
  CallbackAccount <- MCCallbackAccount
  MaxDepth = 2
  MaxOffers = 1
  MaxSwaps = 1
  Sides <- MCSides
  TopUps <- MCTopUps
  SwapExpirations = {1}
  MaxSpotListings = 0
  SpotPrices = {1}
  SpotCaps = {2, 4}
  SpotExpirations = {1}
  SpotStarts = {0}
  SpotAmounts = {1, 4}
  EditionSize <- MCEditionSize
  MintRight <- MCMintRight
  Unlimited = Unlimited
  MaxTokenListings = 0
  TokenAmounts = {1, 2}
  TokenPrices = {1}
  TokenExpirations = {1}
  TokenStarts = {0}
  CoinsAtFirst <- MCCoinsAtFirst
  TokenTrades <- MCTokenTrades
SPECIFICATION Spec
INVARIANT SwapTermsStand
CHECK_DEADLOCK FALSE
