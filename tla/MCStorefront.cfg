SPECIFICATION SfSpec
CONSTANTS
  MaxCases = 2
  Users = {u}
  Guests = {g}
  Posts = {q1, q2}
  PostKeys = {k1, k2}
  Attaching = {k1}
  NoOne = NoOne
  Visitors = {w1}
  Account = acct
  Variants = {va}
  CartCoupons = {cp}
  CartCalls = {c1, c2}
  MaxLine = 3
  MaxStock = 4
  MaxAsked = 4
  NoCart = NoCart
  Bare = Bare
  Goods = {20, 30}
  Tariffs = {13}
  MostParcels = 2
  Policies <- TwoPolicies
  NoThreshold = NoThreshold
  Products = {pa, pb}
  Places = {l1, l2}
  Asks = {q1}
  Quotes = {t1}
  Bought = {b1}
  MaxUnits = 1
  MaxEdits = 2
  MaxTries = 1
  NoQuote = NoQuote
  NoPlace = NoPlace
  Nodes = {n1, n2, n3}
  Editors = {e1, e2}
  MaxDepth = 2
  Top = Top
  Absent = Absent
  Pictures = {f1, f2}
  Painters = {p1, p2}
  NoPicture = NoPicture
  Clients = {r1, r2}
  MaxWrites = 1
  Writers = {w1, w2}
  LastNumber = 2
  ListPrices = {2, 4}
  Limits = {3}
  Markdowns = {0, 50}
  Values = {x, y}
  Unset = Unset
  People = {h1, h2, h3}
  MaxAttempts = 2
  Runs = {b1}
  Restores = {s1, s2}
  DbTargets = {d1}
  MaxNow = 2
  Retention = 1
  NoRun = NoRun
  Tabs = {b1, b2}
  Metres = {0, 2, 160}
  NoPoint = NoPoint
  Tours = {b1}
  PageViews = {h1}
  Checkouts = {k1}
  Conversions = {o1}
  Window = 4
  EventDays = 4
  LastDay = 4
  MaxOver = 1
  MaxMissed = 1
INVARIANTS SfTypeOK BackupsAreWhole FilesExist CasesAreSound UnitsWereAsked
  OfferIsSound ParcelsHoldOrder CatalogueIsSound FreshIsServed FilterIsExact GuessesAreFew ConfirmedIsAgreed
  ClosedDayIsComplete
CHECK_DEADLOCK FALSE
