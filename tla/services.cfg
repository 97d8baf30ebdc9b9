SPECIFICATION ServicesSpec
CONSTANTS
  \* ChainReader
  Urls = 2
  Pooled = {2}
  LastBlock = 1
  \* Submit
  ra = ra
  rb = rb
  rc = rc
  ka = ka
  kb = kb
  ca = ca
  cb = cb
  NoKey = NoKey
  Requests = {ra, rb, rc}
  Keys = {ka, kb}
  Calls = {ca, cb}
  KeyOf <- KeysOf
  CostWei <- Costs
  Refused = {ra}
  CapWei = 5
  GWEI = 2
  MaxTxs = 2
  MaxDays = 1
  MaxLost = 1
  \* Relays
  Relayed = {ra}
  MAX_ATTEMPTS_OF_DELIVERY = 2
  MaxBegun = 3
  \* Rules
  b1 = b1
  b2 = b2
  bad = bad
  old = old
  e1 = e1
  e2 = e2
  c1 = c1
  Nought = Nought
  Bodies = {b1, b2}
  Invalid = {bad}
  Outdated = {old}
  Editors = {e1, e2}
  Caches = {c1}
  TTL = 2
  MaxLoad = 1
  MaxEdits = 2
  MaxClock = 4
  \* Listing
  Chains = 2
  SortKeys = {1, 2}
  Unreadable <- UnreadableMC
  Foreign <- ForeignMC
  Limits = {1, 2}
  \* SignIn
  n1 = n1
  w1 = w1
  w2 = w2
  v1 = v1
  v2 = v2
  Nonces = {n1}
  Wallets = {w1, w2}
  AllowedWallets = {w1}
  Verifiers = {v1, v2}
  NONCE_SECONDS = 2
  SESSION_SECONDS = 2
  Skew = 1
  MaxTime = 3
  MaxMessages = 1
  \* Vault
  a1 = a1
  a2 = a2
  Accounts = {a1, a2}
  threshold = 1
  topUpAmount = 2
  cooldown = 2
  MaxUint = 8
  Epoch = 2
  MaxTimestamp = 7
  MaxFunded = 4
  \* Fees and Pricing
  priceBumpPercent = 10
  FirstFees <- FirstFeesMC
  Estimates <- EstimatesMC
  Caps <- CapsMC
  \* Attempts
  Quotes <- QuotesMC
  Cap <- CapMC
  MAX_ATTEMPTS = 1
  MAX_SIGNED_ATTEMPTS = 1
  MAX_STORED_ATTEMPTS = 2
  MAX_RETIRED_HASHES = 1
  MaxBlocks = 1
  \* Events
  Statuses = {"submitted", "mined"}
  MAX_HISTORY = 2
  MaxChanges = 4
  \* Outbound
  RequestIds = {1}
  Targets = {"a", "aa", "b", "x"}
  Site <- SiteMC
  BadTargets = {"x"}
  Acceptors = {1, 2}
  MaxPuts = 2
  \* Matching
  Logs <- LogsMC
  RuleSet <- RuleSetMC
  MaxLogs = 4
  \* Pipeline
  sure = sure
  early = early
  MatchIds = {sure, early}
  Finalized = {sure}
  NoDelivery = NoDelivery
  MaxPlanned = 1
  MaxRelayTxs = 2
INVARIANTS
  ServicesTypeOK WholeRange GivenUpForCause OneTxPerKey SpendWithinCap RelayEndsTrue
  EditsTakeEffect ListedOnce NonceSpentOnce GrantTraced TopUpsApart BumpIsTaken
  AttemptsKept RefusedUnheard OutsideUnknown ChangesPlannedOnce OneDestination KeysStable
  ActsOnSettled ActsOnce
\* each component stops somewhere: a bound is reached, or its work is done
CHECK_DEADLOCK FALSE
