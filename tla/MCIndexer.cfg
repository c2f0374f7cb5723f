\* Listings and bundles, purchases inside one another, settings that change, and the log.
CONSTANTS
  alice = alice
  vault = vault
  punks = punks
  punk7 = punk7
  punk8 = punk8
  hive = hive
  mapped = mapped
  NoAccount = NoAccount
  Market = Market
  Accounts = {alice, vault}
  Deployer = alice
  Collections = {punks}
  Tokens = {hive, mapped}
  NativeTokens = {hive}
  Deducting = {mapped}
  MaxHeight = 2
  PauseChoices = {TRUE, FALSE}
  OwnerChoices = {alice, vault}
  FeeRecipientChoices = {vault}
  FeeChoices = {2500}
  CollectionFeeChoices <- MCCollectionFeeChoices
  RoyaltyChoices <- MCRoyaltyChoices
  SplitChoices <- MCSplitChoices
  AddTokenChoices <- MCAddTokenChoices
  RemoveTokenChoices = {mapped}
  DenyChoices = {punks}
  AllowChoices = {punks}
  MinBidIncChoices = {500}
  AntiSnipeChoices = {1}
  MinOfferChoices = {1}
  Items = {punk7, punk8}
  CollectionOf <- MCCollectionOf
  Soulbound = {punk8}
  MintedTo <- MCMintedTo
  OutsideTrades <- MCOutsideTrades
  LotSizes = {2}
  Word = 64
  Allowances <- MCAllowances
  CallbackAccount <- MCCallbackAccount
  MaxDepth = 2
  CollectionOwner <- MCCollectionOwner
  MaxListings = 2
  MaxOrders = 2
  Offered <- MCOffered
  UnitPrices = {3}
  Orders <- MCOrders
  Budgets = {3}
  MaxBundles = 2
  MaxBundleItems = 2
  Contents <- MCContents
  BundlePrices = {2}
  BundleExpirations = {1}
  MaxOnOffer = 2
SPECIFICATION IndexerSpec
INVARIANTS AnswersOK SoldWithinListed SweepDearerOnlyByRaise PaymentsPass BundlesWhole TermsHonoured ViewsAgree
PROPERTY TermsStand
CHECK_DEADLOCK FALSE
