SPECIFICATION ProvidersSpec
CONSTANTS
  d1 = d1
  d2 = d2
  d3 = d3
  w1 = w1
  w2 = w2
  Deliveries = {d1, d2, d3}
  Workers = {w1, w2}
  MaxMessages = 2
  MaxLosses = 2
  Lines = {ad1, ad2}
  Retries = 1
  MaxTokens = 3
  Configuring = {o1, o2}
  AppInSettings = FALSE
  HttpsBackUrl = TRUE
  Filers = {f1, f2}
  Cuits = {"c1", "c2"}
  Papers = {"p1", "p2"}
  PaperOf <- OneDocumentEach
  Margin = 3
  Timeout = 1
  LastNow = 6
  MaxLife = 4
  Documents = {n1, n2}
  Keys = {k1, k2}
  Confirming = {c1, c2}
  Checking = {v1}
  NoDocument = NoDocument
  NoKey = NoKey
INVARIANTS ProvidersTypeOK UnhandledIsOpen RefusedIsNotReused ConfiguredIsInUse
  TaxpayerIsSound OrderIsIdentified
PROPERTIES AcceptedIsHandled
CHECK_DEADLOCK FALSE
