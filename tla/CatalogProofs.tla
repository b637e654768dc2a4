---------------------------- MODULE CatalogProofs ---------------------------
(***************************************************************************)
(* What holds of the catalogue, its files and its upkeep, for any number   *)
(* of categories, editors, pictures, variants, requests and backups.       *)
(***************************************************************************)
EXTENDS Images, Backups, Categories, Publication, Catalogue, CatalogCache, FiniteFacts, FiniteSetTheorems, TLAPS

(* Each committed change moves the version once at most.                   *)
Counted ==
  /\ unannounced \subseteq 1..catalogue
  /\ version + Cardinality(unannounced) <= catalogue + 1
  /\ announced <= catalogue

(* A request that has yet to answer with a page ...                        *)
Asking(r) == fetch[r].kind = "page" /\ fetch[r].at \in {"look", "read", "store"}

(* ... has a key of the present or the past, and a key of the present only *)
(* if nothing has been announced since; requests of one key began after    *)
(* the same announcements.                                                 *)
KeysTellFloors ==
  /\ \A r \in Clients : fetch[r].at = "key" => fetch[r].kind = "facets"
  /\ \A r \in Clients : Asking(r) =>
       /\ fetch[r].key <= version /\ fetch[r].floor <= announced
       /\ fetch[r].key = version => fetch[r].floor = announced
  /\ \A r, q \in Clients :
       Asking(r) /\ Asking(q) /\ fetch[r].key = fetch[q].key => fetch[r].floor = fetch[q].floor

(* A stored page is as new as the version it is under, for those who come  *)
(* and for those who are looking.                                          *)
PagesAreNew ==
  \A v \in Versions : entry["page"][v] # Nothing =>
    /\ v <= version
    /\ v = version => entry["page"][v] >= announced
    /\ \A r \in Clients : Asking(r) /\ fetch[r].key = v => entry["page"][v] >= fetch[r].floor

(* So is a page that is about to be stored or served.                      *)
ValuesAreNew ==
  \A r \in Clients :
    fetch[r].kind = "page" /\ fetch[r].at \in {"store", "served"} => fetch[r].value >= fetch[r].floor

Fresh == ~emptied => KeysTellFloors /\ PagesAreNew /\ ValuesAreNew

-----------------------------------------------------------------------------
(* The counts: every announcement takes one of the unannounced changes.    *)
LEMMA CountedStays == CacheTypeOK /\ Counted /\ [CacheNext]_cacheVars => Counted'
<1> SUFFICES ASSUME CacheTypeOK, Counted, [CacheNext]_cacheVars PROVE Counted'
  OBVIOUS
<1> USE CacheAssumption DEF CacheTypeOK, Counted, Changes, Versions
<1>1. IsFiniteSet(unannounced) /\ Cardinality(unannounced) \in 0..catalogue
  <2>1. IsFiniteSet(1..catalogue) /\ Cardinality(1..catalogue) = catalogue
    BY FS_Interval
  <2>2. unannounced \in SUBSET (1..catalogue)
    OBVIOUS
  <2>3. IsFiniteSet(unannounced) /\ Cardinality(unannounced) <= Cardinality(1..catalogue)
    BY <2>1, <2>2, FS_Subset
  <2>4. Cardinality(unannounced) \in Nat
    BY <2>3, FS_CardinalityType
  <2> QED BY <2>1, <2>3, <2>4
<1>2. CASE CommitChange
  <2>1. catalogue + 1 \notin unannounced
    OBVIOUS
  <2>2. Cardinality(unannounced') = Cardinality(unannounced) + 1
    BY <1>1, <1>2, <2>1, FS_AddElement DEF CommitChange
  <2> QED BY <1>1, <1>2, <2>2 DEF CommitChange
<1>3. ASSUME NEW c \in Changes, Bump(c) \/ LoseBump(c) PROVE Counted'
  <2>1. Cardinality(unannounced') = Cardinality(unannounced) - 1
    BY <1>1, <1>3, FS_RemoveElement DEF Bump, LoseBump
  <2>2. unannounced' \subseteq unannounced /\ catalogue' = catalogue /\ c <= catalogue
    BY <1>3 DEF Bump, LoseBump
  <2>3. version' <= version + 1 /\ version' \in Nat /\ announced' <= catalogue
    BY <1>3, <2>2 DEF Bump, LoseBump, Newer
  <2> QED BY <1>1, <2>1, <2>2, <2>3
<1>4. ASSUME NEW r \in Clients, TakeKey(r) PROVE Counted'
  BY <1>1, <1>4 DEF TakeKey, Newer
<1>5. CASE EmptyCache
  BY <1>1, <1>5 DEF EmptyCache
<1>6. ASSUME NEW r \in Clients,
             ReadProducts(r) \/ LookUp(r) \/ ReadDatabase(r) \/ StoreEntry(r) \/ Return(r)
      PROVE  Counted'
  BY <1>6 DEF ReadProducts, LookUp, ReadDatabase, StoreEntry, Return
<1>7. ASSUME NEW k \in Kinds, NEW v \in Versions, ExpireEntry(k, v) PROVE Counted'
  BY <1>7 DEF ExpireEntry
<1>8. CASE UNCHANGED cacheVars
  BY <1>8 DEF cacheVars
<1> QED BY <1>2, <1>3, <1>4, <1>5, <1>6, <1>7, <1>8 DEF CacheNext

(* Types: the version stays within the number of changes.                  *)
LEMMA TypesStay == CacheTypeOK /\ Counted /\ Counted' /\ [CacheNext]_cacheVars => CacheTypeOK'
<1> SUFFICES ASSUME CacheTypeOK, Counted, Counted', [CacheNext]_cacheVars PROVE CacheTypeOK'
  OBVIOUS
<1> USE CacheAssumption DEF CacheTypeOK, Changes, Versions, Kinds, Nothing, NoFetch
<1>1. IsFiniteSet(unannounced') => Cardinality(unannounced') \in Nat
  BY FS_CardinalityType
<1>2. CASE CommitChange
  BY <1>2 DEF CommitChange
<1>3. ASSUME NEW c \in Changes, Bump(c) PROVE CacheTypeOK'
  <2>1. IsFiniteSet(1..catalogue)
    BY FS_Interval
  <2>2. IsFiniteSet(unannounced')
    BY <1>3, <2>1, FS_Subset DEF Bump, Counted
  <2>3. version' <= catalogue' + 1
    BY <1>1, <1>3, <2>2 DEF Bump, Counted
  <2> QED BY <1>3, <2>3 DEF Bump, Newer
<1>4. ASSUME NEW c \in Changes, LoseBump(c) PROVE CacheTypeOK'
  BY <1>4 DEF LoseBump
<1> DEFINE Request == [at : {"idle", "key", "look", "read", "store", "served"}, kind : Kinds,
                       key : Versions, value : Changes \cup {Nothing}, floor : Changes]
<1>5. ASSUME NEW r \in Clients, ReadProducts(r) \/ TakeKey(r) PROVE CacheTypeOK'
  <2>1. fetch[r] \in Request
    OBVIOUS
  <2>2. CASE ReadProducts(r)
    <3>1. [at |-> "key", kind |-> "facets", key |-> 1, value |-> catalogue,
           floor |-> announced] \in Request
      OBVIOUS
    <3>2. fetch' \in [Clients -> Request]
      BY <2>2, <3>1 DEF ReadProducts
    <3> QED BY <2>2, <3>2 DEF ReadProducts
  <2>3. CASE TakeKey(r)
    <3>1. Newer(version, 1) \in Versions
      BY DEF Newer
    <3>2. fetch' \in [Clients -> Request]
      BY <2>1, <2>3, <3>1 DEF TakeKey
    <3> QED BY <2>3, <3>1, <3>2 DEF TakeKey
  <2> QED BY <1>5, <2>2, <2>3
<1>6. ASSUME NEW r \in Clients, LookUp(r) PROVE CacheTypeOK'
  <2>1. Found(r) \in Changes \cup {Nothing}
    BY DEF Found
  <2>2. fetch[r] \in Request
    OBVIOUS
  <2>3. fetch' \in [Clients -> Request]
    BY <1>6, <2>1, <2>2 DEF LookUp
  <2> QED BY <1>6, <2>3 DEF LookUp
<1>7. ASSUME NEW r \in Clients, ReadDatabase(r) \/ Return(r) PROVE CacheTypeOK'
  <2>1. fetch[r] \in Request /\ NoFetch \in Request
    OBVIOUS
  <2>2. CASE ReadDatabase(r)
    BY <2>1, <2>2 DEF ReadDatabase
  <2>3. CASE Return(r)
    <3>1. fetch' \in [Clients -> Request]
      BY <2>1, <2>3 DEF Return
    <3> QED BY <2>3, <3>1 DEF Return
  <2> QED BY <1>7, <2>2, <2>3
<1>8. ASSUME NEW r \in Clients, StoreEntry(r) PROVE CacheTypeOK'
  <2>1. entry' \in [Kinds -> [Versions -> Changes \cup {Nothing}]]
    BY <1>8 DEF StoreEntry, KeyUsed
  <2>2. fetch[r] \in Request
    OBVIOUS
  <2>3. fetch' \in [Clients -> Request]
    BY <1>8, <2>2 DEF StoreEntry
  <2> QED BY <1>8, <2>1, <2>3 DEF StoreEntry
<1>9. ASSUME NEW k \in Kinds, NEW v \in Versions, ExpireEntry(k, v) PROVE CacheTypeOK'
  BY <1>9 DEF ExpireEntry
<1>10. CASE EmptyCache
  BY <1>10 DEF EmptyCache
<1>11. CASE UNCHANGED cacheVars
  BY <1>11 DEF cacheVars
<1> QED BY <1>2, <1>3, <1>4, <1>5, <1>6, <1>7, <1>8, <1>9, <1>10, <1>11 DEF CacheNext

(* Columns, cache and requests keep their types.                           *)
THEOREM CacheTypes == CacheSpec => [](CacheTypeOK /\ Counted)
<1>1. CacheInit => CacheTypeOK /\ Counted
  <2> SUFFICES ASSUME CacheInit PROVE CacheTypeOK /\ Counted
    OBVIOUS
  <2>1. Counted
    <3>1. Cardinality({}) = 0
      BY FS_EmptySet
    <3> QED BY <3>1 DEF CacheInit, Counted
  <2>2. NoFetch \in [at : {"idle", "key", "look", "read", "store", "served"}, kind : Kinds,
                     key : Versions, value : Changes \cup {Nothing}, floor : Changes]
    BY CacheAssumption DEF NoFetch, Kinds, Versions, Changes
  <2>3. catalogue \in Changes /\ version \in 0..(MaxWrites + 1) /\ announced \in Changes
    BY CacheAssumption DEF CacheInit, Changes
  <2> QED BY <2>1, <2>2, <2>3 DEF CacheInit, CacheTypeOK, Kinds
<1>2. CacheTypeOK /\ Counted /\ [CacheNext]_cacheVars => (CacheTypeOK /\ Counted)'
  BY CountedStays, TypesStay
<1> QED BY <1>1, <1>2, PTL DEF CacheSpec

-----------------------------------------------------------------------------
(* Freshness: every step of a reader or a writer that leaves the cache     *)
(* filled keeps keys, stored pages and read pages as new as they should be.*)
LEMMA FreshStays ==
  CacheTypeOK /\ Counted /\ Fresh /\ [CacheNext]_cacheVars => Fresh'
<1> SUFFICES ASSUME CacheTypeOK, Counted, Fresh, [CacheNext]_cacheVars, ~emptied' PROVE Fresh'
  BY DEF Fresh
<1>0. /\ version \in Int /\ announced \in Int /\ catalogue \in Int
      /\ announced <= catalogue
      /\ entry \in [Kinds -> [Versions -> Changes \cup {Nothing}]]
      /\ fetch = [q \in Clients |-> fetch[q]]
      /\ Versions \subseteq Int /\ Changes \subseteq Int /\ Nothing \in Int
  BY CacheAssumption DEF CacheTypeOK, Counted, Changes, Versions, Nothing
<1>1. \A q \in Clients : /\ fetch[q].key \in Versions /\ fetch[q].floor \in Int
                         /\ fetch[q].value \in Int
                         /\ fetch[q] = [at |-> fetch[q].at, kind |-> fetch[q].kind,
                                        key |-> fetch[q].key, value |-> fetch[q].value,
                                        floor |-> fetch[q].floor]
  BY CacheAssumption DEF CacheTypeOK, Changes, Versions, Nothing
<1>2. ~EmptyCache /\ ~emptied
  <2>1. ~EmptyCache
    BY Zenon DEF EmptyCache
  <2>2. emptied' = emptied
    BY <2>1 DEF CacheNext, CommitChange, Bump, LoseBump, ReadProducts, TakeKey, LookUp,
                ReadDatabase, StoreEntry, Return, ExpireEntry, cacheVars
  <2> QED BY <2>1, <2>2, Zenon
<1>3. KeysTellFloors /\ PagesAreNew /\ ValuesAreNew
  BY <1>2 DEF Fresh
<1> DEFINE Goal == KeysTellFloors' /\ PagesAreNew' /\ ValuesAreNew'
<1>4. ASSUME UNCHANGED <<version, entry, announced, fetch>> PROVE Goal
  BY <1>3, <1>4 DEF KeysTellFloors, PagesAreNew, ValuesAreNew, Asking
<1>5. ASSUME NEW c \in Changes, Bump(c) PROVE Goal
  <2>1. /\ version' = version + 1 /\ UNCHANGED <<entry, fetch>>
        /\ announced' \in Int /\ announced' >= announced
    BY <1>0, <1>5 DEF Bump, Newer
  <2>2. KeysTellFloors'
    BY <1>0, <1>1, <1>3, <2>1 DEF KeysTellFloors, Asking
  <2>3. PagesAreNew'
    BY <1>0, <1>3, <2>1 DEF PagesAreNew, Asking
  <2> QED BY <1>3, <2>1, <2>2, <2>3 DEF ValuesAreNew
<1>6. ASSUME NEW r \in Clients, ReadProducts(r) \/ Return(r) PROVE Goal
  <2>1. /\ fetch'[r].at \in {"key", "idle"}
        /\ fetch'[r].at = "key" => fetch'[r].kind = "facets"
    <3>1. CASE ReadProducts(r)
      BY <1>0, <3>1 DEF ReadProducts, NoFetch
    <3>2. CASE Return(r)
      BY <1>0, <3>2 DEF Return, NoFetch
    <3> QED BY <1>6, <3>1, <3>2
  <2>2. \A q \in Clients \ {r} : fetch'[q] = fetch[q]
    BY <1>0, <1>6 DEF ReadProducts, Return
  <2>3. UNCHANGED <<version, entry, announced>>
    BY <1>6 DEF ReadProducts, Return
  <2>4. KeysTellFloors'
    BY <1>3, <2>1, <2>2, <2>3 DEF KeysTellFloors, Asking
  <2>5. PagesAreNew'
    BY <1>3, <2>1, <2>2, <2>3 DEF PagesAreNew, Asking
  <2>6. ValuesAreNew'
    BY <1>3, <2>1, <2>2, <2>3 DEF ValuesAreNew
  <2> QED BY <2>4, <2>5, <2>6
<1>7. ASSUME NEW r \in Clients, TakeKey(r) PROVE Goal
  <2> DEFINE new == Newer(version, 1)
  <2>1. /\ version' = new /\ new \in Int /\ new >= version /\ new >= 1
        /\ version >= 1 => new = version
        /\ UNCHANGED <<announced, entry>>
    BY <1>0, <1>7 DEF TakeKey, Newer
  <2>2. /\ fetch'[r].at = "look" /\ fetch'[r].key = new /\ fetch'[r].kind = fetch[r].kind
        /\ fetch[r].kind = "page" => fetch'[r].floor = announced
    BY <1>0, <1>1, <1>3, <1>7 DEF TakeKey, KeysTellFloors
  <2>3. \A q \in Clients \ {r} : fetch'[q] = fetch[q]
    BY <1>0, <1>7 DEF TakeKey
  <2> HIDE DEF new
  <2>4. \A v \in Versions : v <= version => version >= 1
    BY <1>0 DEF Versions
  <2>5. \A q \in Clients \ {r} : Asking(q)' => Asking(q) /\ new = version
    BY <1>1, <1>3, <2>1, <2>3, <2>4 DEF Asking, KeysTellFloors
  <2>6. KeysTellFloors'
    <3>1. \A q \in Clients : Asking(q)' =>
             /\ fetch'[q].key <= new /\ fetch'[q].floor <= announced
             /\ fetch'[q].key = new => fetch'[q].floor = announced
      BY <1>0, <1>3, <2>1, <2>2, <2>3, <2>5 DEF KeysTellFloors, Asking
    <3>2. \A p, q \in Clients :
             Asking(p)' /\ Asking(q)' /\ fetch'[p].key = fetch'[q].key =>
               fetch'[p].floor = fetch'[q].floor
      BY <1>3, <2>2, <2>3, <2>5, <3>1 DEF KeysTellFloors
    <3>3. \A q \in Clients : fetch'[q].at = "key" => fetch'[q].kind = "facets"
      BY <1>3, <2>2, <2>3 DEF KeysTellFloors
    <3> QED BY <2>1, <3>1, <3>2, <3>3 DEF KeysTellFloors
  <2>7. PagesAreNew'
    BY <1>0, <1>3, <2>1, <2>2, <2>3, <2>4 DEF PagesAreNew, Asking
  <2>8. ValuesAreNew'
    BY <1>3, <2>2, <2>3 DEF ValuesAreNew
  <2> QED BY <2>6, <2>7, <2>8
<1>8. ASSUME NEW r \in Clients, LookUp(r) \/ ReadDatabase(r) \/ StoreEntry(r) PROVE Goal
  <2>1. \A q \in Clients \ {r} : fetch'[q] = fetch[q]
    BY <1>0, <1>8 DEF LookUp, ReadDatabase, StoreEntry
  <2>2. /\ fetch'[r].key = fetch[r].key /\ fetch'[r].floor = fetch[r].floor
        /\ fetch'[r].kind = fetch[r].kind
        /\ fetch[r].at \in {"look", "read", "store"}
        /\ fetch'[r].at \in {"read", "store", "served"}
    <3>1. CASE LookUp(r)
      <4>1. CASE Found(r) # Nothing
        BY <3>1, <4>1 DEF LookUp, CacheTypeOK
      <4>2. CASE Found(r) = Nothing
        BY <1>0, <1>1, <3>1, <4>2 DEF LookUp
      <4> QED BY <4>1, <4>2
    <3>2. CASE ReadDatabase(r)
      BY <1>0, <1>1, <3>2 DEF ReadDatabase
    <3>3. CASE StoreEntry(r)
      BY <1>0, <1>1, <3>3 DEF StoreEntry
    <3> QED BY <1>8, <3>1, <3>2, <3>3
  <2>3. UNCHANGED <<version, announced>>
    BY <1>8 DEF LookUp, ReadDatabase, StoreEntry
  <2>4. \A q \in Clients : Asking(q)' => Asking(q)
    BY <2>1, <2>2 DEF Asking
  <2>5. KeysTellFloors'
    BY <1>3, <2>1, <2>2, <2>3, <2>4 DEF KeysTellFloors
  <2>6. ValuesAreNew'
    <3>1. ASSUME fetch[r].kind = "page", fetch'[r].at \in {"store", "served"}
          PROVE  fetch'[r].value >= fetch'[r].floor
      <4>1. CASE LookUp(r)
        BY <1>0, <1>1, <1>3, <2>2, <3>1, <4>1 DEF LookUp, Found, PagesAreNew, Asking
      <4>2. CASE ReadDatabase(r)
        <5>1. fetch'[r].value = catalogue
          BY <4>2 DEF ReadDatabase, CacheTypeOK
        <5>2. fetch[r].floor <= announced
          BY <1>3, <2>2, <3>1 DEF KeysTellFloors, Asking
        <5> QED BY <1>0, <1>1, <2>2, <5>1, <5>2
      <4>3. CASE StoreEntry(r)
        BY <1>0, <1>1, <1>3, <2>2, <3>1, <4>3 DEF StoreEntry, ValuesAreNew
      <4> QED BY <1>8, <4>1, <4>2, <4>3
    <3> QED BY <1>3, <2>1, <2>2, <3>1 DEF ValuesAreNew
  <2>7. PagesAreNew'
    <3>1. CASE UNCHANGED entry
      BY <1>3, <2>1, <2>2, <2>3, <2>4, <3>1 DEF PagesAreNew
    <3>2. CASE StoreEntry(r) /\ fetch[r].kind = "facets"
      <4>1. entry'["page"] = entry["page"]
        BY <1>0, <3>2 DEF StoreEntry, Kinds
      <4> QED BY <1>3, <2>1, <2>2, <2>3, <2>4, <4>1 DEF PagesAreNew
    <3>3. CASE StoreEntry(r) /\ fetch[r].kind = "page"
      <4>1. Asking(r) /\ fetch[r].value >= fetch[r].floor
        BY <1>3, <3>3 DEF StoreEntry, Asking, ValuesAreNew
      <4>2. \A v \in Versions :
               entry'["page"][v] = IF v = fetch[r].key THEN fetch[r].value ELSE entry["page"][v]
        BY <1>0, <1>1, <3>3 DEF StoreEntry, KeyUsed, Kinds
      <4>3. /\ fetch[r].key <= version
            /\ fetch[r].key = version => fetch[r].value >= announced
            /\ \A q \in Clients : Asking(q) /\ fetch[q].key = fetch[r].key =>
                 fetch[r].value >= fetch[q].floor
        BY <1>3, <4>1 DEF KeysTellFloors
      <4> QED BY <1>3, <2>1, <2>2, <2>3, <2>4, <4>2, <4>3 DEF PagesAreNew
    <3> QED BY <1>1, <1>8, <3>1, <3>2, <3>3 DEF LookUp, ReadDatabase, StoreEntry, CacheTypeOK, Kinds
  <2> QED BY <2>5, <2>6, <2>7
<1>9. ASSUME NEW k \in Kinds, NEW v \in Versions, ExpireEntry(k, v) PROVE Goal
  <2>1. /\ UNCHANGED <<version, announced, fetch>>
        /\ \A w \in Versions : entry'["page"][w] \in {entry["page"][w], Nothing}
    BY <1>0, <1>9 DEF ExpireEntry, Kinds
  <2> QED BY <1>3, <2>1 DEF KeysTellFloors, PagesAreNew, ValuesAreNew, Asking
<1> QED
  BY <1>2, <1>4, <1>5, <1>6, <1>7, <1>8, <1>9
     DEF CacheNext, Fresh, CommitChange, LoseBump, cacheVars

(* A page is served as new as the last change announced before the request *)
(* began, however many requests and changes overlap (catalog/cache.py).    *)
THEOREM FreshPages == CacheSpec => []FreshIsServed
<1>1. CacheInit => Fresh
  BY CacheAssumption DEF CacheInit, Fresh, KeysTellFloors, PagesAreNew, ValuesAreNew, Asking,
                         NoFetch, Nothing, Kinds, Versions
<1>2. CacheTypeOK /\ Counted /\ Fresh /\ [CacheNext]_cacheVars => Fresh'
  BY FreshStays
<1>3. Fresh => FreshIsServed
  BY DEF Fresh, ValuesAreNew, FreshIsServed
<1> QED BY <1>1, <1>2, <1>3, CacheTypes, PTL DEF CacheSpec

-----------------------------------------------------------------------------
(* IMAGES.  A row names the derivatives of its own file, if any, and a     *)
(* request writes back those it loaded.                                    *)
MadeOf(r) == r.made \in {NoPicture, r.file}

RowsAreMade ==
  /\ MadeOf(shown)
  /\ \A p \in Painters :
       /\ MadeOf(paint[p].loaded)
       /\ paint[p].at \in {"loaded", "read", "derive"} => paint[p].copy.made = paint[p].loaded.made
       /\ paint[p].at \in {"saved", "supersede", "audit"} => MadeOf(paint[p].copy)

(* Names are of files that have been uploaded, and the file that a request *)
(* brings is known to nobody else until its row is written.                *)
NamesAreUsed ==
  /\ shown.file \in uploaded \cup {NoPicture}
  /\ \A p \in Painters : {paint[p].loaded.file, paint[p].previous.file, paint[p].copy.file}
                           \subseteq uploaded \cup {NoPicture}

Brings(p) ==
  /\ paint[p].at \in {"loaded", "read", "derive", "saved", "audit"}
  /\ paint[p].copy.file \notin {NoPicture, paint[p].loaded.file}

BroughtIsNew ==
  \A p \in Painters : Brings(p) =>
    /\ shown.file # paint[p].copy.file /\ paint[p].previous.file # paint[p].copy.file
    /\ \A q \in Painters \ {p} :
         paint[p].copy.file \notin {paint[q].loaded.file, paint[q].previous.file, paint[q].copy.file}

(* The row is locked from its write on, when the file that was brought has *)
(* been stored; only a save that commits by itself deletes afterwards.     *)
Writing(p) == paint[p].at \in {"derive", "saved", "audit"}
RowIsLocked ==
  \A p \in Painters : /\ Writing(p) => held = {p}
                      /\ paint[p].at = "supersede" => ~paint[p].outer
BroughtIsStored ==
  \A p \in Painters : Writing(p) /\ Brings(p) => paint[p].copy.file \in originals

(* Until harm is done: no file is shown again that was replaced ...        *)
NotShownAgain ==
  \A p \in Painters :
    /\ /\ paint[p].at \in {"read", "derive"}
       /\ paint[p].loaded.file = shown.file /\ shown.file # NoPicture
       => paint[p].previous.file = shown.file
    /\ paint[p].at = "supersede" /\ Changed(p) /\ paint[p].previous.file # NoPicture
       => paint[p].previous.file # shown.file

(* ... what a request that saw the row's last state is to publish is there *)
(* ...                                                                     *)
DerivedIsStored ==
  \A p \in Painters :
    /\ paint[p].at \in {"saved", "audit"} /\ ~TakesRisk(p) /\ paint[p].copy.made # NoPicture
    => paint[p].copy.made \in derived

(* ... and so is what is shown, until a request deletes it and commits.    *)
Intact ==
  /\ shown.file # NoPicture => shown.file \in originals
  /\ shown.made # NoPicture => shown.made \in derived

ShownIsStored == (\A p \in Painters : paint[p].at = "audit" => ~Changed(p)) => Intact

Unharmed == ~harmed => NotShownAgain /\ DerivedIsStored /\ ShownIsStored

ImgInv ==
  /\ ImgTypeOK /\ RowsAreMade /\ NamesAreUsed /\ BroughtIsNew /\ RowIsLocked /\ BroughtIsStored
  /\ Unharmed

PaintPlaces == {"idle", "loaded", "read", "derive", "saved", "supersede", "audit"}
PaintRecord ==
  [at : PaintPlaces, loaded : Row, copy : Row, previous : Row, outer : BOOLEAN]

LEMMA ImgTypes ==
  ImgTypeOK <=>
    /\ shown \in Row /\ held \subseteq Painters /\ harmed \in BOOLEAN
    /\ originals \subseteq Pictures /\ derived \subseteq Pictures /\ uploaded \subseteq Pictures
    /\ paint \in [Painters -> PaintRecord]
BY DEF ImgTypeOK, PaintRecord, PaintPlaces

LEMMA ImgRecords ==
  /\ NoRow \in Row /\ NoPaint \in PaintRecord
  /\ NoPaint.at = "idle" /\ NoPaint.copy = NoRow /\ NoPaint.loaded = NoRow /\ NoPaint.previous = NoRow
  /\ NoRow.file = NoPicture /\ NoRow.made = NoPicture
  /\ \A r \in Row : r.file \in Pictures \cup {NoPicture} /\ r.made \in Pictures \cup {NoPicture}
<1>1. NoRow \in Row /\ NoRow.file = NoPicture /\ NoRow.made = NoPicture
  BY DEF NoRow, Row
<1>2. "idle" \in PaintPlaces
  BY DEF PaintPlaces
<1>3. NoPaint \in PaintRecord
  BY <1>1, <1>2 DEF NoPaint, PaintRecord
<1>4. NoPaint.at = "idle" /\ NoPaint.copy = NoRow /\ NoPaint.loaded = NoRow /\ NoPaint.previous = NoRow
  BY DEF NoPaint
<1>5. \A r \in Row : r.file \in Pictures \cup {NoPicture} /\ r.made \in Pictures \cup {NoPicture}
  BY DEF Row
<1> QED BY <1>1, <1>3, <1>4, <1>5

(* The records that the steps write, field by field.                       *)
LEMMA PaintMoves ==
  ASSUME NEW t \in PaintRecord, NEW at \in PaintPlaces, NEW n, n = [t EXCEPT !.at = at]
  PROVE  /\ n \in PaintRecord /\ n.at = at /\ n.loaded = t.loaded /\ n.copy = t.copy
         /\ n.previous = t.previous /\ n.outer = t.outer
BY DEF PaintRecord

LEMMA PaintLoads ==
  ASSUME NEW at \in PaintPlaces, NEW l \in Row, NEW c \in Row, NEW r \in Row, NEW o \in BOOLEAN,
         NEW n, n = [at |-> at, loaded |-> l, copy |-> c, previous |-> r, outer |-> o]
  PROVE  n \in PaintRecord /\ n.at = at /\ n.loaded = l /\ n.copy = c /\ n.previous = r
BY DEF PaintRecord

LEMMA RowTakes ==
  ASSUME NEW r \in Row, NEW f \in Pictures \cup {NoPicture}, NEW n, n = [r EXCEPT !.file = f]
  PROVE  n \in Row /\ n.file = f /\ n.made = r.made
BY DEF Row

(* What a step does to the request that takes it and to the others.        *)
Others(p) == \A q \in Painters \ {p} : paint'[q] = paint[q]
SameRows(p) ==
  /\ paint'[p].loaded = paint[p].loaded /\ paint'[p].copy = paint[p].copy
  /\ paint'[p].previous = paint[p].previous /\ paint'[p].outer = paint[p].outer
Forgets(p) ==
  /\ paint'[p].at = "idle" /\ paint'[p].loaded = NoRow /\ paint'[p].copy = NoRow
  /\ paint'[p].previous = NoRow

LEMMA ImgEffects ==
  ASSUME ImgTypeOK, NEW p \in Painters
  PROVE
  /\ LoadImage(p) \/ ReadPrevious(p) \/ WriteImage(p) \/ Derive(p) \/ DeriveFails(p)
       \/ CommitImage(p) \/ Supersede(p) \/ CommitRequest(p) \/ RequestIsLost(p)
     => paint' \in [Painters -> PaintRecord] /\ Others(p)
  /\ LoadImage(p) =>
       \E f \in {shown.file, NoPicture} \cup (Pictures \ uploaded) :
         /\ paint'[p].at = "loaded" /\ paint'[p].loaded = shown /\ paint'[p].copy.file = f
         /\ paint'[p].copy.made = shown.made /\ paint'[p].previous = NoRow
         /\ uploaded' = uploaded \cup ({f} \ {NoPicture})
  /\ ReadPrevious(p) =>
       /\ paint'[p].at = "read" /\ paint'[p].loaded = paint[p].loaded
       /\ paint'[p].copy = paint[p].copy /\ paint'[p].previous = shown
  /\ WriteImage(p) => paint'[p].at = "derive" /\ SameRows(p)
  /\ Derive(p) =>
       /\ paint'[p].at = "saved" /\ paint'[p].loaded = paint[p].loaded
       /\ paint'[p].previous = paint[p].previous /\ paint'[p].copy.file = paint[p].copy.file
       /\ LET f == paint[p].copy.file
              needed == f # NoPicture /\ (Changed(p) \/ paint[p].copy.made = NoPicture) IN
          /\ derived' = IF needed /\ f \in originals THEN derived \cup {f} ELSE derived
          /\ paint'[p].copy.made =
               IF f = NoPicture \/ (needed /\ f \notin originals) THEN NoPicture
               ELSE IF needed THEN f ELSE paint[p].copy.made
  /\ CommitImage(p) => paint'[p].at = "supersede" /\ SameRows(p)
  /\ Supersede(p) => \/ paint[p].outer /\ paint'[p].at = "audit" /\ SameRows(p)
                     \/ ~paint[p].outer /\ Forgets(p)
  /\ DeriveFails(p) \/ CommitRequest(p) \/ RequestIsLost(p) => Forgets(p)
<1>1. /\ shown \in Row /\ paint \in [Painters -> PaintRecord] /\ paint[p] \in PaintRecord
      /\ paint[p].copy \in Row /\ paint[p].outer \in BOOLEAN
  BY ImgTypes DEF PaintRecord
<1>2. \A at \in {"loaded", "read", "derive", "saved", "supersede", "audit"} : at \in PaintPlaces
  BY DEF PaintPlaces
(* A request that is given a record.                                       *)
<1>3. ASSUME NEW n \in PaintRecord, paint' = [paint EXCEPT ![p] = n]
      PROVE  paint' \in [Painters -> PaintRecord] /\ Others(p) /\ paint'[p] = n
  BY <1>1, <1>3 DEF Others
<1>4. ASSUME paint' = [paint EXCEPT ![p] = NoPaint]
      PROVE  paint' \in [Painters -> PaintRecord] /\ Others(p) /\ Forgets(p)
  BY <1>3, <1>4, ImgRecords DEF Forgets
<1>5. ASSUME NEW at \in PaintPlaces, paint' = [paint EXCEPT ![p] = [paint[p] EXCEPT !.at = at]]
      PROVE  paint' \in [Painters -> PaintRecord] /\ Others(p) /\ SameRows(p) /\ paint'[p].at = at
  <2>0. PICK n : n = [paint[p] EXCEPT !.at = at]
    OBVIOUS
  <2>1. /\ n \in PaintRecord /\ n.at = at /\ n.loaded = paint[p].loaded /\ n.copy = paint[p].copy
        /\ n.previous = paint[p].previous /\ n.outer = paint[p].outer
    BY <1>1, <2>0, PaintMoves
  <2>2. paint' = [paint EXCEPT ![p] = n]
    BY <1>5, <2>0
  <2> QED BY <1>3, <2>1, <2>2 DEF SameRows
<1> DEFINE Typed == paint' \in [Painters -> PaintRecord] /\ Others(p)
<1>6. ASSUME LoadImage(p)
      PROVE  Typed /\ \E f \in {shown.file, NoPicture} \cup (Pictures \ uploaded) :
               /\ paint'[p].at = "loaded" /\ paint'[p].loaded = shown /\ paint'[p].copy.file = f
               /\ paint'[p].copy.made = shown.made /\ paint'[p].previous = NoRow
               /\ uploaded' = uploaded \cup ({f} \ {NoPicture})
  <2>1. PICK f \in {shown.file, NoPicture} \cup (Pictures \ uploaded), outer \in BOOLEAN :
          /\ paint' = [paint EXCEPT ![p] = [at |-> "loaded", loaded |-> shown,
                         copy |-> [shown EXCEPT !.file = f], previous |-> NoRow, outer |-> outer]]
          /\ uploaded' = uploaded \cup ({f} \ {NoPicture})
    BY <1>6 DEF LoadImage
  <2>0a. PICK at \in PaintPlaces : at = "loaded"
    BY <1>2
  <2>0. PICK c, n :
          /\ c = [shown EXCEPT !.file = f]
          /\ n = [at |-> at, loaded |-> shown, copy |-> c, previous |-> NoRow, outer |-> outer]
    OBVIOUS
  <2>2. f \in Pictures \cup {NoPicture}
    BY <1>1, ImgRecords
  <2>3. c \in Row /\ c.file = f /\ c.made = shown.made
    BY <1>1, <2>0, <2>2, RowTakes
  <2>4. /\ n \in PaintRecord /\ n.at = at /\ n.loaded = shown /\ n.copy = c
        /\ n.previous = NoRow
    <3>1. NoRow \in Row
      BY ImgRecords
    <3> QED BY <1>1, <2>0, <2>3, <3>1, PaintLoads
  <2>5. paint' = [paint EXCEPT ![p] = n]
    BY <2>0a, <2>0, <2>1, Zenon
  <2>6. Typed /\ paint'[p] = n
    BY <1>3, <2>4, <2>5
  <2>7. /\ paint'[p].at = "loaded" /\ paint'[p].loaded = shown /\ paint'[p].copy.file = f
        /\ paint'[p].copy.made = shown.made /\ paint'[p].previous = NoRow
    BY <2>0a, <2>3, <2>4, <2>6
  <2> QED BY <2>1, <2>6, <2>7
<1>7. ASSUME ReadPrevious(p)
      PROVE  /\ Typed /\ paint'[p].at = "read" /\ paint'[p].loaded = paint[p].loaded
             /\ paint'[p].copy = paint[p].copy /\ paint'[p].previous = shown
  <2>0a. PICK at \in PaintPlaces : at = "read"
    BY <1>2
  <2>0. PICK n : n = [paint[p] EXCEPT !.at = at, !.previous = shown]
    OBVIOUS
  <2>1. /\ n \in PaintRecord /\ n.at = at /\ n.loaded = paint[p].loaded /\ n.copy = paint[p].copy
        /\ n.previous = shown
    BY <1>1, <2>0 DEF PaintRecord
  <2>2. paint' = [paint EXCEPT ![p] = [paint[p] EXCEPT !.at = "read", !.previous = shown]]
    BY <1>1, <1>7 DEF ReadPrevious
  <2>3. paint' = [paint EXCEPT ![p] = n]
    BY <2>0a, <2>0, <2>2, Zenon
  <2> QED BY <1>3, <2>0a, <2>1, <2>3
<1>8. ASSUME WriteImage(p) PROVE Typed /\ paint'[p].at = "derive" /\ SameRows(p)
  <2>1. paint' = [paint EXCEPT ![p] = [paint[p] EXCEPT !.at = "derive"]]
    BY <1>1, <1>8 DEF WriteImage
  <2> QED BY <1>2, <1>5, <2>1, Zenon
<1>9. ASSUME Derive(p)
      PROVE  /\ Typed
             /\ paint'[p].at = "saved" /\ paint'[p].loaded = paint[p].loaded
             /\ paint'[p].previous = paint[p].previous /\ paint'[p].copy.file = paint[p].copy.file
             /\ LET f == paint[p].copy.file
                    needed == f # NoPicture /\ (Changed(p) \/ paint[p].copy.made = NoPicture) IN
                /\ derived' = IF needed /\ f \in originals THEN derived \cup {f} ELSE derived
                /\ paint'[p].copy.made =
                     IF f = NoPicture \/ (needed /\ f \notin originals) THEN NoPicture
                     ELSE IF needed THEN f ELSE paint[p].copy.made
  <2> DEFINE f == paint[p].copy.file
             needed == f # NoPicture /\ (Changed(p) \/ paint[p].copy.made = NoPicture)
             m == IF f = NoPicture \/ (needed /\ f \notin originals) THEN NoPicture
                  ELSE IF needed THEN f ELSE paint[p].copy.made
  <2>0a. PICK at \in PaintPlaces : at = "saved"
    BY <1>2
  <2>0. PICK n : n = [paint[p] EXCEPT !.at = at, !.copy.made = m]
    OBVIOUS
  <2>1. m \in Pictures \cup {NoPicture}
    BY <1>1, ImgRecords
  <2>2. derived' = IF needed /\ f \in originals THEN derived \cup {f} ELSE derived
    BY <1>9 DEF Derive
  <2>0b. paint' = [paint EXCEPT ![p] = [paint[p] EXCEPT !.at = "saved", !.copy.made = m]]
    BY <1>1, <1>9 DEF Derive
  <2>3. paint' = [paint EXCEPT ![p] = n]
    BY <2>0a, <2>0b, <2>0, Zenon
  <2> HIDE DEF m
  <2>4. /\ n \in PaintRecord /\ n.at = at /\ n.loaded = paint[p].loaded
        /\ n.previous = paint[p].previous /\ n.copy.file = paint[p].copy.file /\ n.copy.made = m
    BY <1>1, <2>0, <2>1 DEF PaintRecord, Row
  <2>5. Typed /\ paint'[p] = n
    BY <1>3, <2>3, <2>4
  <2> QED BY <2>0a, <2>2, <2>4, <2>5 DEF m
<1>10. ASSUME CommitImage(p) PROVE Typed /\ paint'[p].at = "supersede" /\ SameRows(p)
  <2>1. paint' = [paint EXCEPT ![p] = [paint[p] EXCEPT !.at = "supersede"]]
    BY <1>1, <1>10 DEF CommitImage
  <2> QED BY <1>2, <1>5, <2>1, Zenon
<1>11. ASSUME Supersede(p)
       PROVE  Typed /\ \/ paint[p].outer /\ paint'[p].at = "audit" /\ SameRows(p)
                       \/ ~paint[p].outer /\ Forgets(p)
  <2>1. CASE paint[p].outer
    <3>1. paint' = [paint EXCEPT ![p] = [paint[p] EXCEPT !.at = "audit"]]
      BY <1>1, <1>11, <2>1 DEF Supersede
    <3> QED BY <1>2, <1>5, <2>1, <3>1, Zenon
  <2>2. CASE ~paint[p].outer
    <3>1. paint' = [paint EXCEPT ![p] = NoPaint]
      BY <1>1, <1>11, <2>2 DEF Supersede
    <3> QED BY <1>4, <2>2, <3>1
  <2> QED BY <2>1, <2>2
<1>12. ASSUME DeriveFails(p) \/ CommitRequest(p) \/ RequestIsLost(p) PROVE Typed /\ Forgets(p)
  BY <1>4, <1>12 DEF DeriveFails, CommitRequest, RequestIsLost
<1> QED BY <1>6, <1>7, <1>8, <1>9, <1>10, <1>11, <1>12, Zenon

(* Every step keeps it.                                                    *)
LEMMA ImgInvStays == ImgInv /\ [ImgNext]_imgVars => ImgInv'
<1> SUFFICES ASSUME ImgInv, [ImgNext]_imgVars PROVE ImgInv'
  OBVIOUS
<1>1. /\ ImgTypeOK /\ shown \in Row /\ held \subseteq Painters /\ harmed \in BOOLEAN
      /\ originals \subseteq Pictures /\ derived \subseteq Pictures /\ uploaded \subseteq Pictures
      /\ paint \in [Painters -> PaintRecord]
      /\ RowsAreMade /\ NamesAreUsed /\ BroughtIsNew /\ RowIsLocked /\ BroughtIsStored
  BY ImgTypes DEF ImgInv
<1>2. ~harmed => NotShownAgain /\ DerivedIsStored /\ ShownIsStored
  BY DEF ImgInv, Unharmed
<1>3. \A p \in Painters :
        /\ paint[p] \in PaintRecord /\ paint[p].loaded \in Row /\ paint[p].copy \in Row
        /\ paint[p].previous \in Row
        /\ paint[p].copy.file \in Pictures \cup {NoPicture}
        /\ paint[p].previous.file \in Pictures \cup {NoPicture}
  BY <1>1, ImgRecords DEF PaintRecord
<1>4. /\ NoPicture \notin Pictures /\ shown.file \in Pictures \cup {NoPicture}
      /\ NoRow.file = NoPicture /\ NoRow.made = NoPicture /\ NoRow \in Row
  BY <1>1, ImagesAssumption, ImgRecords
<1> DEFINE Typed == /\ shown' \in Row /\ held' \subseteq Painters /\ harmed' \in BOOLEAN
                    /\ originals' \subseteq Pictures /\ derived' \subseteq Pictures
                    /\ uploaded' \subseteq Pictures /\ paint' \in [Painters -> PaintRecord]
           Safe == /\ RowsAreMade' /\ NamesAreUsed' /\ BroughtIsNew' /\ RowIsLocked'
                   /\ BroughtIsStored' /\ Unharmed'
<1>5. ASSUME Typed, Safe PROVE ImgInv'
  BY <1>5 DEF ImgInv, ImgTypeOK, PaintRecord, PaintPlaces
<1>6. \A p, q \in Painters : Writing(p) /\ Writing(q) => p = q
  <2>1. \A p, q \in Painters : {p} = {q} => p = q
    OBVIOUS
  <2> QED BY <1>1, <2>1 DEF RowIsLocked
<1>7. ASSUME NEW p \in Painters, LoadImage(p) PROVE Typed /\ Safe
  <2>1. PICK f \in {shown.file, NoPicture} \cup (Pictures \ uploaded) :
          /\ paint'[p].at = "loaded" /\ paint'[p].loaded = shown /\ paint'[p].copy.file = f
          /\ paint'[p].copy.made = shown.made /\ paint'[p].previous = NoRow
          /\ uploaded' = uploaded \cup ({f} \ {NoPicture})
    BY <1>1, <1>7, ImgEffects
  <2>2. paint' \in [Painters -> PaintRecord] /\ \A q \in Painters \ {p} : paint'[q] = paint[q]
    BY <1>1, <1>7, ImgEffects DEF Others
  <2>3. paint[p].at = "idle" /\ UNCHANGED <<shown, originals, derived, held, harmed>>
    BY <1>7 DEF LoadImage
  <2>4. Typed
    BY <1>1, <1>4, <2>1, <2>2, <2>3
  <2>5. RowsAreMade'
    BY <1>1, <2>1, <2>2, <2>3 DEF RowsAreMade, MadeOf
  <2>6. NamesAreUsed'
    BY <1>1, <1>4, <2>1, <2>2, <2>3 DEF NamesAreUsed
  <2>7. BroughtIsNew'
    <3>1. ASSUME NEW q \in Painters \ {p}, Brings(q)' PROVE paint[q].copy.file \notin {NoPicture, f, shown.file}
      BY <1>1, <2>2, <3>1 DEF BroughtIsNew, NamesAreUsed, Brings
    <3>2. Brings(p)' => f \in Pictures \ uploaded
      BY <2>1 DEF Brings
    <3> QED BY <1>1, <1>4, <2>1, <2>2, <2>3, <3>1, <3>2 DEF BroughtIsNew, NamesAreUsed, Brings
  <2>8. RowIsLocked' /\ BroughtIsStored'
    BY <1>1, <2>1, <2>2, <2>3 DEF RowIsLocked, BroughtIsStored, Writing, Brings
  <2>9. Unharmed'
    BY <1>2, <2>1, <2>2, <2>3 DEF Unharmed, NotShownAgain, DerivedIsStored, ShownIsStored, Intact,
       TakesRisk, Changed
  <2> QED BY <2>4, <2>5, <2>6, <2>7, <2>8, <2>9
<1>8. ASSUME NEW p \in Painters, ReadPrevious(p) PROVE Typed /\ Safe
  <2>1. /\ paint'[p].at = "read" /\ paint'[p].loaded = paint[p].loaded
        /\ paint'[p].copy = paint[p].copy /\ paint'[p].previous = shown
        /\ paint' \in [Painters -> PaintRecord] /\ \A q \in Painters \ {p} : paint'[q] = paint[q]
    BY <1>1, <1>8, ImgEffects DEF Others
  <2>2. paint[p].at = "loaded" /\ UNCHANGED <<shown, originals, derived, uploaded, held, harmed>>
    BY <1>8 DEF ReadPrevious
  <2>3. Typed
    BY <1>1, <2>1, <2>2
  <2>4. RowsAreMade' /\ NamesAreUsed'
    BY <1>1, <2>1, <2>2 DEF RowsAreMade, MadeOf, NamesAreUsed
  <2>5. BroughtIsNew'
    BY <1>1, <2>1, <2>2 DEF BroughtIsNew, Brings
  <2>6. RowIsLocked' /\ BroughtIsStored'
    BY <1>1, <2>1, <2>2 DEF RowIsLocked, BroughtIsStored, Writing, Brings
  <2>7. Unharmed'
    BY <1>2, <2>1, <2>2 DEF Unharmed, NotShownAgain, DerivedIsStored, ShownIsStored, Intact,
       TakesRisk, Changed
  <2> QED BY <2>3, <2>4, <2>5, <2>6, <2>7
<1>9. ASSUME NEW p \in Painters, WriteImage(p) PROVE Typed /\ Safe
  <2>1. /\ paint'[p].at = "derive" /\ paint'[p].loaded = paint[p].loaded
        /\ paint'[p].copy = paint[p].copy /\ paint'[p].previous = paint[p].previous
        /\ paint' \in [Painters -> PaintRecord] /\ \A q \in Painters \ {p} : paint'[q] = paint[q]
    BY <1>1, <1>9, ImgEffects DEF Others, SameRows
  <2>2. /\ paint[p].at = "read" /\ held = {} /\ held' = {p}
        /\ UNCHANGED <<shown, derived, uploaded, harmed>>
        /\ originals \subseteq originals' /\ originals' \subseteq Pictures
        /\ Brings(p) => paint[p].copy.file \in originals'
    BY <1>1, <1>3, <1>9 DEF WriteImage, Brings
  <2>3. Typed
    BY <1>1, <2>1, <2>2
  <2>4. RowsAreMade' /\ NamesAreUsed'
    BY <1>1, <2>1, <2>2 DEF RowsAreMade, MadeOf, NamesAreUsed
  <2>5. BroughtIsNew'
    BY <1>1, <2>1, <2>2 DEF BroughtIsNew, Brings
  <2>6. \A q \in Painters : ~Writing(q)
    BY <1>1, <2>2 DEF RowIsLocked
  <2>7. RowIsLocked' /\ BroughtIsStored'
    BY <1>1, <2>1, <2>2, <2>6 DEF RowIsLocked, BroughtIsStored, Writing, Brings
  <2>8. Unharmed'
    BY <1>2, <2>1, <2>2 DEF Unharmed, NotShownAgain, DerivedIsStored, ShownIsStored, Intact,
       TakesRisk, Changed
  <2> QED BY <2>3, <2>4, <2>5, <2>7, <2>8
<1>10. ASSUME NEW p \in Painters, Derive(p) PROVE Typed /\ Safe
  <2> DEFINE f == paint[p].copy.file
             needed == f # NoPicture /\ (Changed(p) \/ paint[p].copy.made = NoPicture)
  <2>1. /\ paint'[p].at = "saved" /\ paint'[p].loaded = paint[p].loaded
        /\ paint'[p].previous = paint[p].previous /\ paint'[p].copy.file = f
        /\ paint' \in [Painters -> PaintRecord] /\ \A q \in Painters \ {p} : paint'[q] = paint[q]
    BY <1>1, <1>10, ImgEffects DEF Others
  <2>2. /\ derived' = IF needed /\ f \in originals THEN derived \cup {f} ELSE derived
        /\ paint'[p].copy.made = IF f = NoPicture \/ (needed /\ f \notin originals) THEN NoPicture
                                 ELSE IF needed THEN f ELSE paint[p].copy.made
    BY <1>1, <1>10, ImgEffects
  <2>3. paint[p].at = "derive" /\ UNCHANGED <<shown, originals, uploaded, held, harmed>>
    BY <1>10 DEF Derive
  <2>4. derived' \subseteq Pictures /\ derived \subseteq derived'
    BY <1>1, <1>3, <2>2
  <2>5. Typed
    BY <1>1, <2>1, <2>3, <2>4
  <2>6. MadeOf(paint[p].loaded) /\ paint[p].copy.made = paint[p].loaded.made
    BY <1>1, <2>3 DEF RowsAreMade
  <2>7. ~needed /\ f # NoPicture => paint[p].previous.file = f /\ paint[p].copy.made # NoPicture
    BY DEF Changed
  <2>8. Brings(p) => paint[p].previous.file # f
    BY <1>1 DEF BroughtIsNew
  <2>9. ~needed /\ f # NoPicture => f = paint[p].loaded.file
    BY <2>3, <2>7, <2>8 DEF Brings
  <2>10. paint'[p].copy.made \in {NoPicture, f}
    BY <2>2, <2>6, <2>9 DEF MadeOf
  <2>11. RowsAreMade' /\ NamesAreUsed'
    BY <1>1, <2>1, <2>3, <2>10 DEF RowsAreMade, MadeOf, NamesAreUsed
  <2>12. BroughtIsNew'
    BY <1>1, <2>1, <2>3 DEF BroughtIsNew, Brings
  <2>13. RowIsLocked' /\ BroughtIsStored'
    BY <1>1, <2>1, <2>3 DEF RowIsLocked, BroughtIsStored, Writing, Brings
  <2>14. \A q \in Painters : paint[q].at # "audit"
    BY <1>6, <2>3 DEF Writing
  <2>15. ~harmed => NotShownAgain' /\ ShownIsStored'
    BY <1>2, <2>1, <2>3, <2>4, <2>14 DEF NotShownAgain, ShownIsStored, Intact, Changed
  <2>16. ~harmed => DerivedIsStored'
    <3>1. ASSUME ~harmed, paint[p].loaded = shown, paint[p].previous = shown,
                 paint'[p].copy.made # NoPicture
          PROVE  paint'[p].copy.made \in derived'
      <4>1. CASE needed
        BY <2>2, <3>1, <4>1
      <4>2. CASE ~needed
        <5>1. paint'[p].copy.made = shown.made /\ shown.made # NoPicture
          BY <2>2, <2>6, <3>1, <4>2
        <5> QED BY <1>2, <2>4, <2>14, <3>1, <5>1 DEF ShownIsStored, Intact
      <4> QED BY <4>1, <4>2
    <3>2. \A q \in Painters \ {p} : paint[q].at \notin {"saved", "audit"}
      BY <1>6, <2>3 DEF Writing
    <3> QED BY <2>1, <2>3, <3>1, <3>2 DEF DerivedIsStored, TakesRisk
  <2> QED BY <2>3, <2>5, <2>11, <2>12, <2>13, <2>15, <2>16 DEF Unharmed
<1>11. ASSUME NEW p \in Painters, paint[p].at \in {"saved", "audit"}, Publish(p),
              paint'[p].at \in {"supersede", "idle"},
              paint'[p].at = "supersede" => SameRows(p) /\ ~paint[p].outer,
              paint'[p].at = "idle" => Forgets(p),
              paint' \in [Painters -> PaintRecord], Others(p),
              UNCHANGED <<originals, derived, uploaded>>
       PROVE  Typed /\ Safe
  <2>1. /\ shown' = paint[p].copy /\ held' = held \ {p}
        /\ harmed' = (harmed \/ TakesRisk(p)) /\ UNCHANGED <<originals, derived, uploaded>>
    BY <1>11 DEF Publish
  <2>2. /\ \A q \in Painters \ {p} : paint'[q] = paint[q]
        /\ ~Brings(p)' /\ ~Writing(p)' /\ Writing(p)
    BY <1>11 DEF Others, Brings, Writing
  <2>3. /\ paint'[p].loaded \in {paint[p].loaded, NoRow} /\ paint'[p].copy \in {paint[p].copy, NoRow}
        /\ paint'[p].previous \in {paint[p].previous, NoRow}
        /\ paint'[p].at = "supersede" => /\ paint'[p].copy = paint[p].copy /\ ~paint'[p].outer
                                         /\ paint'[p].previous = paint[p].previous
    BY <1>11 DEF SameRows, Forgets
  <2>4. \A q \in Painters \ {p} : ~Writing(q)
    BY <1>6, <2>2
  <2>5. harmed' \in BOOLEAN
    BY <1>1, <2>1, Zenon DEF TakesRisk
  <2>6. Typed
    BY <1>1, <1>3, <1>11, <2>1, <2>5
  <2>7. RowsAreMade'
    <3>1. MadeOf(paint[p].copy) /\ MadeOf(paint[p].loaded) /\ MadeOf(NoRow)
      BY <1>1, <1>4, <1>11 DEF RowsAreMade, MadeOf
    <3> QED BY <1>1, <1>11, <2>1, <2>2, <2>3, <3>1 DEF RowsAreMade, MadeOf
  <2>8. NamesAreUsed'
    BY <1>1, <1>4, <2>1, <2>2, <2>3 DEF NamesAreUsed
  <2>9. BroughtIsNew'
    <3>1. ASSUME NEW q \in Painters \ {p}, Brings(q)'
          PROVE  /\ Brings(q) /\ paint[q].copy.file # NoPicture
                 /\ paint[q].previous.file # paint[q].copy.file
                 /\ \A o \in Painters \ {q} :
                      paint[q].copy.file \notin {paint[o].loaded.file, paint[o].previous.file, paint[o].copy.file}
      BY <1>1, <2>2, <3>1 DEF BroughtIsNew, Brings
    <3>2. ASSUME NEW q \in Painters \ {p}, Brings(q)', NEW o \in Painters \ {q}
          PROVE  paint[q].copy.file \notin {paint'[o].loaded.file, paint'[o].previous.file, paint'[o].copy.file}
      <4>1. CASE o = p
        <5>1. /\ paint[q].copy.file # NoPicture
              /\ paint[q].copy.file \notin {paint[p].loaded.file, paint[p].previous.file, paint[p].copy.file}
          BY <3>1, <3>2
        <5>2. /\ paint'[p].loaded.file \in {paint[p].loaded.file, NoPicture}
              /\ paint'[p].copy.file \in {paint[p].copy.file, NoPicture}
              /\ paint'[p].previous.file \in {paint[p].previous.file, NoPicture}
          BY <2>3 DEF NoRow
        <5> QED BY <4>1, <5>1, <5>2
      <4>2. CASE o # p
        BY <2>2, <3>1, <3>2, <4>2
      <4> QED BY <4>1, <4>2
    <3> QED BY <2>1, <2>2, <3>1, <3>2 DEF BroughtIsNew
  <2>10. RowIsLocked' /\ BroughtIsStored'
    BY <1>1, <2>2, <2>3, <2>4 DEF RowIsLocked, BroughtIsStored, Writing
  <2>11. Unharmed'
    <3> SUFFICES ASSUME ~harmed' PROVE NotShownAgain' /\ DerivedIsStored' /\ ShownIsStored'
      BY DEF Unharmed
    <3>1. /\ ~harmed /\ ~TakesRisk(p) /\ paint[p].loaded = shown /\ paint[p].previous = shown
          /\ NotShownAgain /\ DerivedIsStored /\ ShownIsStored
      BY <1>2, <2>1, Zenon DEF TakesRisk
    <3>2. NotShownAgain'
      <4>1. Brings(p) \/ paint[p].copy.file \in {NoPicture, shown.file}
        BY <1>11, <3>1 DEF Brings
      <4>2. ASSUME NEW q \in Painters \ {p}, paint[q].at = "read",
                   paint[q].loaded.file = paint[p].copy.file, paint[p].copy.file # NoPicture
            PROVE  paint[q].previous.file = paint[p].copy.file
        BY <1>1, <3>1, <4>1, <4>2 DEF NotShownAgain, BroughtIsNew
      <4>3. ASSUME NEW q \in Painters \ {p}, paint[q].at = "supersede", Changed(q),
                   paint[q].previous.file # NoPicture
            PROVE  paint[q].previous.file # paint[p].copy.file
        BY <1>1, <3>1, <4>1, <4>3 DEF NotShownAgain, BroughtIsNew
      <4> QED BY <1>11, <2>1, <2>2, <2>3, <2>4, <4>2, <4>3 DEF NotShownAgain, Changed, Writing
    <3>3. DerivedIsStored'
      BY <1>11, <2>2, <2>4 DEF DerivedIsStored, Writing
    <3>4. Intact'
      <4>1. paint[p].copy.made # NoPicture => paint[p].copy.made \in derived
        BY <1>11, <3>1 DEF DerivedIsStored
      <4>2. CASE Brings(p)
        BY <1>1, <2>1, <2>2, <4>1, <4>2 DEF Intact, BroughtIsStored
      <4>3. CASE ~Brings(p) /\ Changed(p)
        BY <1>11, <2>1, <3>1, <4>1, <4>3 DEF Intact, Brings, Changed
      <4>4. CASE ~Changed(p)
        BY <2>1, <2>4, <3>1, <4>1, <4>4 DEF Intact, ShownIsStored, Changed, Writing
      <4> QED BY <4>2, <4>3, <4>4
    <3> QED BY <3>2, <3>3, <3>4 DEF ShownIsStored
  <2> QED BY <2>6, <2>7, <2>8, <2>9, <2>10, <2>11
<1>12. ASSUME NEW p \in Painters, CommitImage(p) \/ CommitRequest(p) PROVE Typed /\ Safe
  <2>1. CASE CommitImage(p)
    <3>1. /\ paint[p].at = "saved" /\ ~paint[p].outer /\ Publish(p)
          /\ UNCHANGED <<originals, derived, uploaded>>
      BY <2>1 DEF CommitImage
    <3>2. /\ paint'[p].at = "supersede" /\ SameRows(p)
          /\ paint' \in [Painters -> PaintRecord] /\ Others(p)
      BY <1>1, <2>1, ImgEffects
    <3> QED BY <1>11, <3>1, <3>2
  <2>2. CASE CommitRequest(p)
    <3>1. paint[p].at = "audit" /\ Publish(p) /\ UNCHANGED <<originals, derived, uploaded>>
      BY <2>2 DEF CommitRequest
    <3>2. Forgets(p) /\ paint' \in [Painters -> PaintRecord] /\ Others(p)
      BY <1>1, <2>2, ImgEffects
    <3>3. paint'[p].at = "idle"
      BY <3>2 DEF Forgets
    <3> QED BY <1>11, <3>1, <3>2, <3>3
  <2> QED BY <1>12, <2>1, <2>2
(* Two that forget what they were doing keep what does not depend on files.*)
<1>13. ASSUME NEW p \in Painters, Forgets(p), Others(p), paint' \in [Painters -> PaintRecord],
              held' \in {held, held \ {p}}, UNCHANGED <<shown, uploaded>>,
              held' = held => ~Writing(p)
       PROVE  /\ RowsAreMade' /\ NamesAreUsed' /\ BroughtIsNew' /\ RowIsLocked'
              /\ NotShownAgain => NotShownAgain'
  <2>1. /\ paint'[p].at = "idle" /\ paint'[p].loaded = NoRow /\ paint'[p].copy = NoRow
        /\ paint'[p].previous = NoRow
        /\ \A q \in Painters \ {p} : paint'[q] = paint[q]
    BY <1>13 DEF Forgets, Others
  <2>2. RowsAreMade'
    BY <1>1, <1>4, <1>13, <2>1 DEF RowsAreMade, MadeOf
  <2>3. NamesAreUsed'
    BY <1>1, <1>4, <1>13, <2>1 DEF NamesAreUsed
  <2>4. BroughtIsNew'
    BY <1>1, <1>4, <1>13, <2>1 DEF BroughtIsNew, Brings
  <2>5. RowIsLocked'
    <3>1. \A q \in Painters \ {p} : Writing(q) => held = {q} /\ held' = held
      <4>1. ASSUME NEW q \in Painters \ {p}, Writing(q) PROVE held = {q} /\ held' = held
        BY <1>1, <1>13, <4>1 DEF RowIsLocked
      <4> QED BY <4>1
    <3> QED BY <1>1, <2>1, <3>1 DEF RowIsLocked, Writing
  <2>6. NotShownAgain => NotShownAgain'
    BY <1>13, <2>1 DEF NotShownAgain, Changed
  <2> QED BY <2>2, <2>3, <2>4, <2>5, <2>6
<1>14. ASSUME NEW p \in Painters, DeriveFails(p) PROVE Typed /\ Safe
  <2>1. /\ Forgets(p) /\ Others(p) /\ paint' \in [Painters -> PaintRecord]
    BY <1>1, <1>14, ImgEffects
  <2>2. /\ paint'[p].at = "idle" /\ \A q \in Painters \ {p} : paint'[q] = paint[q]
    BY <2>1 DEF Forgets, Others
  <2>3. /\ paint[p].at = "derive" /\ paint[p].copy.file # NoPicture
        /\ originals' = originals \ FailedAssets(p) /\ derived' = derived \ FailedAssets(p)
        /\ held' = held \ {p} /\ UNCHANGED <<shown, uploaded, harmed>>
    BY <1>14 DEF DeriveFails, Without
  <2>4. \A q \in Painters \ {p} : ~Writing(q)
    BY <1>6, <2>3 DEF Writing
  <2>5. Typed
    BY <1>1, <2>1, <2>3
  <2>6. held' = held => ~Writing(p)
    <3>1. Writing(p) => held = {p}
      BY <1>1 DEF RowIsLocked
    <3> QED BY <2>3, <3>1
  <2>7. BroughtIsStored'
    BY <2>2, <2>4 DEF BroughtIsStored, Writing
  <2>8. ~harmed => NotShownAgain' /\ DerivedIsStored' /\ ShownIsStored'
    <3> SUFFICES ASSUME ~harmed PROVE NotShownAgain' /\ DerivedIsStored' /\ ShownIsStored'
      OBVIOUS
    <3>1. Intact
      BY <1>2, <2>3, <2>4 DEF ShownIsStored, Writing
    <3>2. shown.file # NoPicture => shown.file \notin FailedAssets(p)
      BY <1>1, <1>2, <2>3 DEF NotShownAgain, BroughtIsNew, Brings, FailedAssets, Changed
    <3>3. shown.made # NoPicture => shown.made \notin FailedAssets(p)
      BY <1>1, <3>2 DEF RowsAreMade, MadeOf
    <3>4. Intact'
      BY <2>3, <3>1, <3>2, <3>3 DEF Intact
    <3> QED BY <1>2, <1>13, <2>1, <2>2, <2>3, <2>4, <2>6, <3>4 DEF ShownIsStored, DerivedIsStored, Writing
  <2>9. RowsAreMade' /\ NamesAreUsed' /\ BroughtIsNew' /\ RowIsLocked'
    BY <1>13, <2>1, <2>3, <2>6
  <2> QED BY <2>3, <2>5, <2>7, <2>8, <2>9 DEF Unharmed
<1>15. ASSUME NEW p \in Painters, Supersede(p), paint[p].at = "supersede" PROVE Typed /\ Safe
  <2>1. /\ Forgets(p) /\ Others(p) /\ paint' \in [Painters -> PaintRecord]
    BY <1>1, <1>15, ImgEffects DEF RowIsLocked
  <2>2. /\ paint'[p].at = "idle" /\ \A q \in Painters \ {p} : paint'[q] = paint[q]
    BY <2>1 DEF Forgets, Others
  <2> DEFINE gone == IF Changed(p) THEN {paint[p].previous.file} ELSE {}
  <2>3. /\ originals' = originals \ gone /\ derived' = derived \ gone
        /\ UNCHANGED <<shown, uploaded, held, harmed>>
    BY <1>15 DEF Supersede, Without
  <2>4. ~Writing(p)
    BY <1>15 DEF Writing
  <2>5. Typed
    BY <1>1, <2>1, <2>3
  <2>6. BroughtIsStored'
    BY <1>1, <2>2, <2>3 DEF BroughtIsStored, BroughtIsNew, Writing, Brings
  <2>7. ~harmed => NotShownAgain' /\ DerivedIsStored' /\ ShownIsStored'
    <3> SUFFICES ASSUME ~harmed PROVE NotShownAgain' /\ DerivedIsStored' /\ ShownIsStored'
      OBVIOUS
    <3>1. shown.file # NoPicture => shown.file \notin gone
      BY <1>2, <1>15 DEF NotShownAgain
    <3>2. shown.made # NoPicture => shown.made \notin gone
      BY <1>1, <3>1 DEF RowsAreMade, MadeOf
    <3>3. ShownIsStored'
      <4>1. ASSUME \A q \in Painters : paint'[q].at = "audit" => ~Changed(q)' PROVE Intact'
        <5>1. \A q \in Painters : paint[q].at = "audit" => ~Changed(q)
          BY <1>15, <2>2, <4>1 DEF Changed
        <5> QED BY <1>2, <2>3, <3>1, <3>2, <5>1 DEF Intact, ShownIsStored
      <4> QED BY <4>1 DEF ShownIsStored
    <3>4. DerivedIsStored'
      <4>1. ASSUME NEW q \in Painters \ {p}, paint[q].at \in {"saved", "audit"},
                   ~TakesRisk(q), paint[q].copy.made # NoPicture
            PROVE  paint[q].copy.made \in derived'
        <5>1. paint[q].copy.made \in derived /\ paint[q].copy.made = paint[q].copy.file
          BY <1>1, <1>2, <4>1 DEF DerivedIsStored, RowsAreMade, MadeOf
        <5>2. CASE Brings(q)
          BY <1>1, <2>3, <5>1, <5>2 DEF BroughtIsNew
        <5>3. CASE ~Brings(q)
          <6>1. paint[q].copy.file = shown.file
            BY <4>1, <5>1, <5>3 DEF Brings, TakesRisk
          <6> QED BY <2>3, <3>1, <4>1, <5>1, <6>1
        <5> QED BY <5>2, <5>3
      <4> QED BY <2>2, <2>3, <4>1 DEF DerivedIsStored, TakesRisk
    <3> QED BY <1>2, <1>13, <2>1, <2>3, <2>4, <3>3, <3>4
  <2>8. RowsAreMade' /\ NamesAreUsed' /\ BroughtIsNew' /\ RowIsLocked'
    BY <1>13, <2>1, <2>3, <2>4
  <2> QED BY <2>3, <2>5, <2>6, <2>7, <2>8 DEF Unharmed
<1>16. ASSUME NEW p \in Painters, Supersede(p), paint[p].at # "supersede" PROVE Typed /\ Safe
  <2>1. paint[p].at = "saved" /\ paint[p].outer
    BY <1>16 DEF Supersede
  <2>2. /\ paint'[p].at = "audit" /\ paint'[p].loaded = paint[p].loaded
        /\ paint'[p].copy = paint[p].copy /\ paint'[p].previous = paint[p].previous
        /\ paint' \in [Painters -> PaintRecord] /\ \A q \in Painters \ {p} : paint'[q] = paint[q]
    BY <1>1, <1>16, <2>1, ImgEffects DEF Others, SameRows
  <2> DEFINE gone == IF Changed(p) THEN {paint[p].previous.file} ELSE {}
  <2>3. /\ originals' = originals \ gone /\ derived' = derived \ gone
        /\ UNCHANGED <<shown, uploaded, held, harmed>>
    BY <1>16 DEF Supersede, Without
  <2>4. \A q \in Painters \ {p} : ~Writing(q)
    BY <1>6, <2>1 DEF Writing
  <2>5. Typed
    BY <1>1, <2>2, <2>3
  <2>6. RowsAreMade' /\ NamesAreUsed'
    BY <1>1, <2>1, <2>2, <2>3 DEF RowsAreMade, MadeOf, NamesAreUsed
  <2>7. BroughtIsNew'
    BY <1>1, <2>1, <2>2, <2>3 DEF BroughtIsNew, Brings
  <2>8. RowIsLocked'
    BY <1>1, <2>1, <2>2, <2>3 DEF RowIsLocked, Writing
  <2>9. BroughtIsStored'
    BY <1>1, <2>1, <2>2, <2>3, <2>4 DEF BroughtIsStored, BroughtIsNew, Writing, Brings
  <2>10. ~harmed => NotShownAgain' /\ DerivedIsStored' /\ ShownIsStored'
    <3> SUFFICES ASSUME ~harmed PROVE NotShownAgain' /\ DerivedIsStored' /\ ShownIsStored'
      OBVIOUS
    <3>1. NotShownAgain'
      BY <1>2, <2>2, <2>3 DEF NotShownAgain, Changed
    <3>2. DerivedIsStored'
      <4>1. ASSUME ~TakesRisk(p), paint[p].copy.made # NoPicture PROVE paint[p].copy.made \in derived'
        <5>1. paint[p].copy.made \in derived /\ paint[p].copy.made = paint[p].copy.file
          BY <1>1, <1>2, <2>1, <4>1 DEF DerivedIsStored, RowsAreMade, MadeOf
        <5> QED BY <2>3, <5>1 DEF Changed
      <4> QED BY <2>2, <2>3, <2>4, <4>1 DEF DerivedIsStored, TakesRisk, Writing
    <3>3. ShownIsStored'
      <4>1. ASSUME ~Changed(p) PROVE Intact'
        <5>1. Intact
          BY <1>2, <2>1, <2>4 DEF ShownIsStored, Writing
        <5> QED BY <2>3, <4>1, <5>1 DEF Intact
      <4> QED BY <2>2, <4>1 DEF ShownIsStored, Changed
    <3> QED BY <3>1, <3>2, <3>3
  <2> QED BY <2>3, <2>5, <2>6, <2>7, <2>8, <2>9, <2>10 DEF Unharmed
<1>17. ASSUME NEW p \in Painters, RequestIsLost(p) PROVE Typed /\ Safe
  <2>1. /\ Forgets(p) /\ Others(p) /\ paint' \in [Painters -> PaintRecord]
    BY <1>1, <1>17, ImgEffects
  <2>2. /\ paint'[p].at = "idle" /\ \A q \in Painters \ {p} : paint'[q] = paint[q]
    BY <2>1 DEF Forgets, Others
  <2>3. /\ held' = held \ {p} /\ UNCHANGED <<shown, originals, derived, uploaded>>
        /\ harmed' = (harmed \/ (paint[p].at = "audit" /\ Changed(p)))
    BY <1>17 DEF RequestIsLost
  <2>4. harmed' \in BOOLEAN
    BY <1>1, <2>3, Zenon
  <2>5. Typed
    BY <1>1, <2>1, <2>3, <2>4
  <2>6. held' = held => ~Writing(p)
    <3>1. Writing(p) => held = {p}
      BY <1>1 DEF RowIsLocked
    <3> QED BY <2>3, <3>1
  <2>7. BroughtIsStored'
    BY <1>1, <2>2, <2>3 DEF BroughtIsStored, Writing, Brings
  <2>8. Unharmed'
    <3> SUFFICES ASSUME ~harmed' PROVE NotShownAgain' /\ DerivedIsStored' /\ ShownIsStored'
      BY DEF Unharmed
    <3>1. ~harmed /\ (paint[p].at = "audit" => ~Changed(p))
      BY <2>3, Zenon
    <3>2. DerivedIsStored'
      BY <1>2, <2>2, <2>3, <3>1 DEF DerivedIsStored, TakesRisk
    <3>3. ShownIsStored'
      BY <1>2, <2>2, <2>3, <3>1 DEF ShownIsStored, Intact, Changed
    <3> QED BY <1>2, <1>13, <2>1, <2>3, <2>6, <3>1, <3>2, <3>3
  <2>9. RowsAreMade' /\ NamesAreUsed' /\ BroughtIsNew' /\ RowIsLocked'
    BY <1>13, <2>1, <2>3, <2>6
  <2> QED BY <2>5, <2>7, <2>8, <2>9
<1>18. CASE UNCHANGED imgVars
  <2>1. UNCHANGED <<shown, originals, derived, uploaded, paint, held, harmed>>
    BY <1>18 DEF imgVars
  <2> QED BY <1>1, <1>2, <2>1 DEF ImgInv, ImgTypeOK, PaintRecord, PaintPlaces, RowsAreMade, MadeOf,
        NamesAreUsed, BroughtIsNew, Brings, RowIsLocked, BroughtIsStored, Writing, Unharmed,
        NotShownAgain, DerivedIsStored, ShownIsStored, Intact, TakesRisk, Changed
<1> QED
  <2>1. ASSUME NEW p \in Painters, Supersede(p) PROVE ImgInv'
    BY <1>5, <1>15, <1>16, <2>1
  <2> QED BY <1>5, <1>7, <1>8, <1>9, <1>10, <1>12, <1>14, <1>17, <1>18, <2>1, Zenon DEF ImgNext

(* What the row names is stored, unless a request wrote over what another  *)
(* had written or was lost after its deletions, for any number of requests *)
(* and files (landing/models.py:275-344, catalog/models.py:222-262).       *)
THEOREM ImagesCorrect == ImgSpec => [](ImgTypeOK /\ ImageExists)
<1>1. ImgInit => ImgInv
  <2> SUFFICES ASSUME ImgInit PROVE ImgInv
    OBVIOUS
  <2>1. PICK f \in Pictures : /\ shown = [file |-> f, made |-> f]
                              /\ originals = {f} /\ derived = {f} /\ uploaded = {f}
    <3>1. (CHOOSE g \in Pictures : TRUE) \in Pictures
      BY ImagesAssumption
    <3> QED BY <3>1 DEF ImgInit
  <2>2. shown \in Row /\ shown.file = f /\ shown.made = f
    BY <2>1 DEF Row
  <2>3. /\ paint = [p \in Painters |-> NoPaint] /\ held = {} /\ harmed = FALSE
    BY DEF ImgInit
  <2>4. ImgTypeOK
    BY <2>1, <2>2, <2>3, ImgTypes, ImgRecords
  <2>5. \A p \in Painters :
          /\ paint[p].at = "idle" /\ paint[p].loaded = NoRow /\ paint[p].copy = NoRow
          /\ paint[p].previous = NoRow
    BY <2>3, ImgRecords
  <2>6. RowsAreMade /\ NamesAreUsed
    BY <2>1, <2>2, <2>5, ImgRecords DEF RowsAreMade, MadeOf, NamesAreUsed
  <2>7. BroughtIsNew /\ RowIsLocked /\ BroughtIsStored
    BY <2>5 DEF BroughtIsNew, Brings, RowIsLocked, BroughtIsStored, Writing
  <2>8. NotShownAgain /\ DerivedIsStored /\ ShownIsStored
    BY <2>1, <2>2, <2>5 DEF NotShownAgain, DerivedIsStored, ShownIsStored, Intact
  <2> QED BY <2>4, <2>6, <2>7, <2>8 DEF ImgInv, Unharmed
<1>2. ImgInv => ImgTypeOK /\ ImageExists
  BY DEF ImgInv, ImageExists, Unharmed, ShownIsStored, Intact
<1> QED BY <1>1, <1>2, ImgInvStays, PTL DEF ImgSpec

-----------------------------------------------------------------------------
(* BACKUPS.  One runs at a time, its name is free until it is renamed, and *)
(* it prunes what was old enough when it began to ...                      *)
OneRuns == \A p \in Runs : run[p].at # "idle" => lock = p

RunFollows(p) ==
  /\ run[p].at # "idle" => run[p].stamp \in Stamps
  /\ run[p].at \in {"archive", "manifest", "rename"} =>
       target[run[p].stamp] = NoDir /\ partial[run[p].stamp] \subseteq Files
  /\ run[p].at = "prune" => run[p].cutoff <= now - Retention
  /\ run[p].pruned # NoStamp => run[p].at = "prune" /\ run[p].pruned < run[p].cutoff

(* ... and the database that a restore loads is its own, until the media   *)
(* of the same backup are there.                                           *)
Owns(r, d) == restore[r].at \in {"load", "extract"} /\ restore[r].db = d

RestoreFollows(r) ==
  /\ restore[r].at # "idle" => restore[r].stamp \in Stamps
  /\ restore[r].at \in {"load", "extract"} => database[restore[r].db].from = restore[r].stamp
  /\ restore[r].at = "extract" => database[restore[r].db].whole

OwnsAlone == \A r, q \in Restores, d \in DbTargets : Owns(r, d) /\ Owns(q, d) => r = q

MediaHaveTheirs ==
  media # NoStamp =>
    \E d \in DbTargets : /\ database[d].from = media /\ database[d].whole
                         /\ \A r \in Restores : ~Owns(r, d)

BackupsInv ==
  /\ BackupsTypeOK /\ OneRuns /\ OwnsAlone /\ MediaHaveTheirs /\ CompletedIsKept
  /\ \A p \in Runs : RunFollows(p)
  /\ \A r \in Restores : RestoreFollows(r)

RunPlaces == {"idle", "dump", "archive", "manifest", "rename", "prune", "verify"}
RunRecord ==
  [at : RunPlaces, stamp : Stamps \cup {NoStamp}, cutoff : Int, pruned : Stamps \cup {NoStamp}]
RestorePlaces == {"idle", "create", "load", "extract"}
RestoreRecord == [at : RestorePlaces, stamp : Stamps \cup {NoStamp}, db : DbTargets]
CopyRecord == [from : Stamps \cup {NoStamp}, whole : BOOLEAN]

LEMMA BackupsTypes ==
  BackupsTypeOK <=>
    /\ now \in Stamps /\ target \in [Stamps -> Dirs] /\ partial \in [Stamps -> Dirs]
    /\ lock \in Runs \cup {NoRun} /\ run \in [Runs -> RunRecord] /\ kept \subseteq Stamps
    /\ restore \in [Restores -> RestoreRecord] /\ database \in [DbTargets -> CopyRecord]
    /\ media \in Stamps \cup {NoStamp}
BY DEF BackupsTypeOK, RunPlaces, RunRecord, RestorePlaces, RestoreRecord, CopyRecord

LEMMA BackupsRecords ==
  /\ \A r \in RunRecord, at \in RunPlaces : [r EXCEPT !.at = at] \in RunRecord
  /\ \A r \in RunRecord, at \in RunPlaces, c \in Int : [r EXCEPT !.at = at, !.cutoff = c] \in RunRecord
  /\ \A r \in RunRecord, at \in RunPlaces, s \in Stamps :
       [r EXCEPT !.at = at, !.stamp = s] \in RunRecord
  /\ \A r \in RunRecord, s \in Stamps \cup {NoStamp} : [r EXCEPT !.pruned = s] \in RunRecord
  /\ \A r \in RestoreRecord, at \in RestorePlaces : [r EXCEPT !.at = at] \in RestoreRecord
  /\ \A at \in RestorePlaces, s \in Stamps, d \in DbTargets :
       [at |-> at, stamp |-> s, db |-> d] \in RestoreRecord
  /\ \A f \in CopyRecord, s \in Stamps : [f EXCEPT !.from = s] \in CopyRecord
  /\ \A f \in CopyRecord, w \in BOOLEAN : [f EXCEPT !.whole = w] \in CopyRecord
  /\ RunIdle \in RunRecord /\ RestoreIdle \in RestoreRecord /\ NoCopy \in CopyRecord
<1>1. \A r \in RunRecord, at \in RunPlaces : [r EXCEPT !.at = at] \in RunRecord
  BY DEF RunRecord
<1>2. \A r \in RunRecord, at \in RunPlaces, c \in Int : [r EXCEPT !.at = at, !.cutoff = c] \in RunRecord
  BY DEF RunRecord
<1>3. \A r \in RunRecord, at \in RunPlaces, s \in Stamps :
       [r EXCEPT !.at = at, !.stamp = s] \in RunRecord
  BY DEF RunRecord
<1>4. \A r \in RunRecord, s \in Stamps \cup {NoStamp} : [r EXCEPT !.pruned = s] \in RunRecord
  BY DEF RunRecord
<1>5. \A r \in RestoreRecord, at \in RestorePlaces : [r EXCEPT !.at = at] \in RestoreRecord
  BY DEF RestoreRecord
<1>6. \A at \in RestorePlaces, s \in Stamps, d \in DbTargets :
        [at |-> at, stamp |-> s, db |-> d] \in RestoreRecord
  BY DEF RestoreRecord
<1>7. \A f \in CopyRecord, s \in Stamps : [f EXCEPT !.from = s] \in CopyRecord
  BY DEF CopyRecord
<1>8. \A f \in CopyRecord, w \in BOOLEAN : [f EXCEPT !.whole = w] \in CopyRecord
  BY DEF CopyRecord
<1>9. RunIdle \in RunRecord
  BY DEF RunIdle, RunRecord, RunPlaces, NoStamp
<1>10. RestoreIdle \in RestoreRecord
  <2>1. (CHOOSE d \in DbTargets : TRUE) \in DbTargets
    BY BackupsAssumption
  <2> QED BY <2>1 DEF RestoreIdle, RestoreRecord, RestorePlaces
<1>11. NoCopy \in CopyRecord
  BY DEF NoCopy, CopyRecord
<1> QED BY <1>1, <1>2, <1>3, <1>4, <1>5, <1>6, <1>7, <1>8, <1>9, <1>10, <1>11

LEMMA BackupsTypesStay == BackupsInv /\ [BackupsNext]_bakVars => BackupsTypeOK'
<1> SUFFICES ASSUME BackupsInv, [BackupsNext]_bakVars PROVE BackupsTypeOK'
  OBVIOUS
<1>1. /\ now \in Stamps /\ target \in [Stamps -> Dirs] /\ partial \in [Stamps -> Dirs]
      /\ lock \in Runs \cup {NoRun} /\ run \in [Runs -> RunRecord] /\ kept \subseteq Stamps
      /\ restore \in [Restores -> RestoreRecord] /\ database \in [DbTargets -> CopyRecord]
      /\ media \in Stamps \cup {NoStamp}
  BY BackupsTypes DEF BackupsInv
<1>2. \A p \in Runs : run[p] \in RunRecord /\ RunFollows(p)
  BY <1>1 DEF BackupsInv
<1>3. \A r \in Restores : restore[r] \in RestoreRecord /\ RestoreFollows(r)
  BY <1>1 DEF BackupsInv
<1>4. \A r \in Restores : restore[r].db \in DbTargets
  BY <1>3 DEF RestoreRecord
<1>5. /\ NoDir \in Dirs /\ {"database"} \in Dirs
      /\ \A s \in SUBSET Files : /\ s \cup {"media"} \in Dirs /\ s \cup {"manifest"} \in Dirs
      /\ \A s \in Dirs : \A f : f \in s => s \ {f} \in Dirs
  BY DEF Dirs, NoDir, Files
<1>6. RunIdle \in RunRecord /\ RestoreIdle \in RestoreRecord /\ NoCopy \in CopyRecord
  BY BackupsRecords
<1>7. \A at \in {"dump", "archive", "manifest", "rename", "prune", "verify"} : at \in RunPlaces
  BY DEF RunPlaces
<1>8. \A at \in {"create", "load", "extract"} : at \in RestorePlaces
  BY DEF RestorePlaces
<1>9. now \in Int /\ Retention \in Int /\ NoStamp \in Int /\ \A s \in Stamps : s \in Int /\ s # NoStamp
  BY <1>1, BackupsAssumption DEF Stamps, NoStamp
<1> DEFINE Typed ==
      /\ now' \in Stamps /\ target' \in [Stamps -> Dirs] /\ partial' \in [Stamps -> Dirs]
      /\ lock' \in Runs \cup {NoRun} /\ run' \in [Runs -> RunRecord] /\ kept' \subseteq Stamps
      /\ restore' \in [Restores -> RestoreRecord] /\ database' \in [DbTargets -> CopyRecord]
      /\ media' \in Stamps \cup {NoStamp}
<1> SUFFICES Typed
  BY DEF BackupsTypeOK, RunPlaces, RunRecord, RestorePlaces, RestoreRecord, CopyRecord
<1> USE <1>1, <1>2
<1>10. ASSUME NEW p \in Runs, NEW at \in RunPlaces, Goes(p, at) PROVE run' \in [Runs -> RunRecord]
  BY <1>10, BackupsRecords DEF Goes
<1>11. ASSUME NEW p \in Runs, StartBackup(p) PROVE Typed
  <2>1. PICK s \in Stamps : run' = [run EXCEPT ![p] = [RunIdle EXCEPT !.at = "dump", !.stamp = s]]
    BY <1>11 DEF StartBackup
  <2>2. \A at \in RunPlaces : [RunIdle EXCEPT !.at = at, !.stamp = s] \in RunRecord
    BY <1>6, BackupsRecords
  <2>3. [RunIdle EXCEPT !.at = "dump", !.stamp = s] \in RunRecord
    BY <1>7, <2>2, Zenon
  <2>4. run' \in [Runs -> RunRecord]
    <3> DEFINE new == [RunIdle EXCEPT !.at = "dump", !.stamp = s]
    <3> HIDE DEF new
    <3>1. run' = [run EXCEPT ![p] = new] /\ new \in RunRecord
      BY <2>1, <2>3 DEF new
    <3> QED BY <3>1
  <2> QED BY <1>11, <2>4 DEF StartBackup, restoreVars
<1>12. ASSUME NEW p \in Runs, BackupFails(p) PROVE Typed
  BY <1>5, <1>6, <1>12 DEF BackupFails, RunFollows, restoreVars
<1>13. ASSUME NEW p \in Runs, Dump(p) PROVE Typed
  BY <1>5, <1>7, <1>10, <1>13 DEF Dump, RunFollows, restoreVars
<1>14. ASSUME NEW p \in Runs, ArchiveMedia(p) PROVE Typed
  BY <1>5, <1>7, <1>10, <1>14 DEF ArchiveMedia, RunFollows, restoreVars
<1>15. ASSUME NEW p \in Runs, WriteManifest(p) PROVE Typed
  BY <1>5, <1>7, <1>10, <1>15 DEF WriteManifest, RunFollows, restoreVars
<1>16. ASSUME NEW p \in Runs, Rename(p) PROVE Typed
  <2>1. run[p].stamp \in Stamps /\ run[p].at = "rename"
    BY <1>16 DEF Rename, RunFollows
  <2>2. target' \in [Stamps -> Dirs] /\ partial' \in [Stamps -> Dirs]
    BY <1>5, <1>16, <2>1 DEF Rename
  <2>3. run' \in [Runs -> RunRecord]
    <3> DEFINE cutoff == now - Retention
    <3>1. run' = [run EXCEPT ![p] = [run[p] EXCEPT !.at = "prune", !.cutoff = cutoff]]
      BY <1>16 DEF Rename
    <3>2. cutoff \in Int
      BY <1>9
    <3> HIDE DEF cutoff
    <3>3. \A at \in RunPlaces : [run[p] EXCEPT !.at = at, !.cutoff = cutoff] \in RunRecord
      BY <3>2, BackupsRecords
    <3>4. [run[p] EXCEPT !.at = "prune", !.cutoff = cutoff] \in RunRecord
      BY <1>7, <3>3, Zenon
    <3> DEFINE new == [run[p] EXCEPT !.at = "prune", !.cutoff = cutoff]
    <3> HIDE DEF new
    <3>5. run' = [run EXCEPT ![p] = new] /\ new \in RunRecord
      BY <3>1, <3>4 DEF new
    <3> QED BY <3>5
  <2> QED BY <1>16, <2>2, <2>3 DEF Rename, restoreVars
<1>17. ASSUME NEW p \in Runs, PruneNext(p) PROVE Typed
  <2>1. PICK s \in Stamps : run' = [run EXCEPT ![p].pruned = s]
    BY <1>17 DEF PruneNext
  <2>2. run' \in [Runs -> RunRecord]
    BY <2>1, BackupsRecords
  <2> QED BY <1>17, <2>2 DEF PruneNext, restoreVars
<1>18. ASSUME NEW p \in Runs, PruneFile(p) PROVE Typed
  <2>1. run[p].pruned \in Stamps
    BY <1>18 DEF PruneFile, RunRecord
  <2>2. target' \in [Stamps -> Dirs]
    BY <1>5, <1>18, <2>1 DEF PruneFile
  <2>3. run' \in [Runs -> RunRecord]
    <3>1. CASE run' = [run EXCEPT ![p].pruned = NoStamp]
      BY <3>1, BackupsRecords
    <3> QED BY <1>18, <3>1 DEF PruneFile
  <2> QED BY <1>18, <2>2, <2>3 DEF PruneFile, restoreVars
<1>19. ASSUME NEW p \in Runs, PruneEnds(p) PROVE Typed
  BY <1>7, <1>10, <1>19 DEF PruneEnds, restoreVars
<1>20. ASSUME NEW p \in Runs, BackupEnds(p) PROVE Typed
  BY <1>6, <1>20 DEF BackupEnds, RunFollows, restoreVars
<1>21. ASSUME NEW p \in Runs, BackupIsKilled(p) PROVE Typed
  BY <1>6, <1>21 DEF BackupIsKilled, restoreVars
<1>22. ASSUME NEW r \in Restores, NEW at \in RestorePlaces, RestoreGoes(r, at)
       PROVE  restore' \in [Restores -> RestoreRecord]
  BY <1>3, <1>22, BackupsRecords DEF RestoreGoes
<1>23. ASSUME NEW r \in Restores, StartRestore(r) PROVE Typed
  <2>1. PICK s \in Stamps, d \in DbTargets :
          restore' = [restore EXCEPT ![r] = [at |-> "create", stamp |-> s, db |-> d]]
    BY <1>23 DEF StartRestore
  <2>2. [at |-> "create", stamp |-> s, db |-> d] \in RestoreRecord
    BY <1>8, BackupsRecords
  <2>3. restore' \in [Restores -> RestoreRecord]
    BY <2>1, <2>2
  <2> QED BY <1>23, <2>3 DEF StartRestore, diskVars
<1>24. ASSUME NEW r \in Restores, CreateDb(r) PROVE Typed
  <2>1. restore[r].stamp \in Stamps
    BY <1>3, <1>24 DEF CreateDb, RestoreFollows
  <2>2. database' \in [DbTargets -> CopyRecord]
    BY <1>4, <1>24, <2>1, BackupsRecords DEF CreateDb
  <2> QED BY <1>8, <1>22, <1>24, <2>2 DEF CreateDb, diskVars
<1>25. ASSUME NEW r \in Restores, LoadDb(r) PROVE Typed
  <2>1. database' \in [DbTargets -> CopyRecord]
    BY <1>4, <1>25, BackupsRecords DEF LoadDb
  <2> QED BY <1>8, <1>22, <1>25, <2>1 DEF LoadDb, diskVars
<1>26. ASSUME NEW r \in Restores, ExtractMedia(r) PROVE Typed
  BY <1>3, <1>6, <1>26 DEF ExtractMedia, RestoreFollows, diskVars
<1>27. ASSUME NEW r \in Restores, RestoreFails(r) PROVE Typed
  BY <1>4, <1>6, <1>27 DEF RestoreFails, diskVars
<1>28. ASSUME NEW r \in Restores, RestoreIsKilled(r) PROVE Typed
  BY <1>6, <1>28 DEF RestoreIsKilled, diskVars
<1>29. CASE NextDay
  <2>1. now' \in Stamps
    BY <1>29, BackupsAssumption DEF NextDay, Stamps
  <2> QED BY <1>29, <2>1 DEF NextDay, diskVars, restoreVars
<1>30. CASE UNCHANGED bakVars
  BY <1>30 DEF bakVars
<1> QED
  BY <1>11, <1>12, <1>13, <1>14, <1>15, <1>16, <1>17, <1>18, <1>19, <1>20, <1>21, <1>23, <1>24,
     <1>25, <1>26, <1>27, <1>28, <1>29, <1>30, Zenon DEF BackupsNext

(* One run at a time keeps its name and spares what is to be kept.         *)
LEMMA DiskStays ==
  BackupsInv /\ [BackupsNext]_bakVars =>
    OneRuns' /\ CompletedIsKept' /\ \A p \in Runs : RunFollows(p)'
<1> SUFFICES ASSUME BackupsInv, [BackupsNext]_bakVars
             PROVE  OneRuns' /\ CompletedIsKept' /\ \A p \in Runs : RunFollows(p)'
  OBVIOUS
<1>1. /\ now \in Stamps /\ target \in [Stamps -> Dirs] /\ partial \in [Stamps -> Dirs]
      /\ run \in [Runs -> RunRecord] /\ kept \subseteq Stamps
      /\ OneRuns /\ CompletedIsKept
  BY BackupsTypes DEF BackupsInv
<1>2. \A p \in Runs : run[p] \in RunRecord /\ RunFollows(p)
  BY <1>1 DEF BackupsInv
<1>3. /\ now \in Int /\ Retention \in Int /\ \A s \in Stamps : s \in Int
      /\ \A p \in Runs : run[p].cutoff \in Int /\ run[p].pruned \in Stamps \cup {NoStamp}
  BY <1>1, <1>2, BackupsAssumption DEF Stamps, RunRecord
<1>4. NoDir # Files /\ NoStamp \notin Stamps
  BY DEF NoDir, Files, NoStamp, Stamps
<1>5. ASSUME NEW p \in Runs, run[p].at # "idle", NEW q \in Runs \ {p} PROVE run[q].at = "idle"
  BY <1>1, <1>5 DEF OneRuns
<1> DEFINE Kept == OneRuns' /\ CompletedIsKept' /\ \A p \in Runs : RunFollows(p)'
(* A step of one run, of which what it has to keep is known.               *)
<1>6. ASSUME NEW p \in Runs, \A q \in Runs \ {p} : run'[q] = run[q] /\ run[q].at = "idle",
             run'[p].at # "idle" => lock' = p, RunFollows(p)'
      PROVE  OneRuns' /\ \A q \in Runs : RunFollows(q)'
  BY <1>2, <1>6 DEF OneRuns, RunFollows
<1>7. ASSUME NEW p \in Runs, NEW at, run[p].at # "idle", Goes(p, at)
      PROVE  /\ \A q \in Runs \ {p} : run'[q] = run[q] /\ run[q].at = "idle"
             /\ run'[p].at = at /\ run'[p].stamp = run[p].stamp
             /\ run'[p].cutoff = run[p].cutoff /\ run'[p].pruned = run[p].pruned
             /\ run[p].stamp \in Stamps
             /\ lock = p
  <2>1. run'[p] = [run[p] EXCEPT !.at = at] /\ \A q \in Runs \ {p} : run'[q] = run[q]
    BY <1>1, <1>7 DEF Goes
  <2>2. /\ run'[p].at = at /\ run'[p].stamp = run[p].stamp
        /\ run'[p].cutoff = run[p].cutoff /\ run'[p].pruned = run[p].pruned
    BY <1>2, <2>1 DEF RunRecord
  <2> QED BY <1>1, <1>2, <1>5, <1>7, <2>1, <2>2 DEF OneRuns, RunFollows
<1>8. ASSUME NEW p \in Runs, StartBackup(p) PROVE Kept
  <2>1. PICK s \in Stamps : run' = [run EXCEPT ![p] = [RunIdle EXCEPT !.at = "dump", !.stamp = s]]
    BY <1>8 DEF StartBackup
  <2>2. \A q \in Runs : run[q].at = "idle"
    BY <1>1, <1>8, BackupsAssumption DEF StartBackup, OneRuns
  <2>3. /\ run'[p].at = "dump" /\ run'[p].stamp = s /\ run'[p].pruned = NoStamp
        /\ \A q \in Runs \ {p} : run'[q] = run[q]
    <3>1. ASSUME NEW at \in RunPlaces
          PROVE  /\ [RunIdle EXCEPT !.at = at, !.stamp = s].at = at
                 /\ [RunIdle EXCEPT !.at = at, !.stamp = s].stamp = s
                 /\ [RunIdle EXCEPT !.at = at, !.stamp = s].pruned = RunIdle.pruned
      BY BackupsRecords DEF RunRecord
    <3>2. "dump" \in RunPlaces
      BY DEF RunPlaces
    <3>3. /\ [RunIdle EXCEPT !.at = "dump", !.stamp = s].at = "dump"
          /\ [RunIdle EXCEPT !.at = "dump", !.stamp = s].stamp = s
          /\ [RunIdle EXCEPT !.at = "dump", !.stamp = s].pruned = RunIdle.pruned
      BY <3>1, <3>2, Zenon
    <3> DEFINE new == [RunIdle EXCEPT !.at = "dump", !.stamp = s]
    <3> HIDE DEF new
    <3>4. run' = [run EXCEPT ![p] = new]
      BY <2>1 DEF new
    <3>5. run'[p] = new /\ \A q \in Runs \ {p} : run'[q] = run[q]
      BY <1>1, <3>4
    <3>6. RunIdle.pruned = NoStamp
      BY DEF RunIdle
    <3> QED BY <3>3, <3>5, <3>6, Zenon DEF new
  <2>4. lock' = p /\ UNCHANGED <<now, target, partial, kept>>
    BY <1>8 DEF StartBackup
  <2>5. RunFollows(p)'
    BY <2>3 DEF RunFollows
  <2>6. CompletedIsKept'
    BY <1>1, <2>4 DEF CompletedIsKept, Whole
  <2> QED BY <1>6, <2>2, <2>3, <2>4, <2>5, <2>6
<1>9. ASSUME NEW p \in Runs, BackupFails(p) \/ BackupIsKilled(p) PROVE Kept
  <2>1. /\ run[p].at # "idle" /\ run'[p].at = "idle" /\ run'[p].pruned = NoStamp
        /\ \A q \in Runs \ {p} : run'[q] = run[q]
        /\ UNCHANGED <<now, target, kept>>
    BY <1>1, <1>9 DEF BackupFails, BackupIsKilled, RunIdle
  <2>2. CompletedIsKept'
    BY <1>1, <2>1 DEF CompletedIsKept, Whole
  <2> QED BY <1>5, <1>6, <2>1, <2>2 DEF RunFollows
<1>10. ASSUME NEW p \in Runs, Dump(p) PROVE Kept
  <2>1. /\ run[p].at = "dump" /\ Goes(p, "archive") /\ target[run[p].stamp] = NoDir
        /\ UNCHANGED <<now, target, lock, kept>>
        /\ partial' = [partial EXCEPT ![run[p].stamp] = {"database"}]
    BY <1>10 DEF Dump
  <2>2. RunFollows(p)'
    <3>1. partial'[run[p].stamp] \subseteq Files
      BY <1>1, <1>7, <2>1 DEF Files
    <3> QED BY <1>2, <1>7, <2>1, <3>1 DEF RunFollows
  <2>3. CompletedIsKept'
    BY <1>1, <2>1 DEF CompletedIsKept, Whole
  <2> QED BY <1>6, <1>7, <2>1, <2>2, <2>3
<1>11. ASSUME NEW p \in Runs, ArchiveMedia(p) \/ WriteManifest(p) PROVE Kept
  <2>1. PICK at \in {"manifest", "rename"}, f \in Files :
          /\ run[p].at \in {"archive", "manifest"} /\ Goes(p, at)
          /\ UNCHANGED <<now, target, lock, kept>>
          /\ partial' = [partial EXCEPT ![run[p].stamp] = @ \cup {f}]
    <3>1. CASE ArchiveMedia(p)
      <4>1. /\ run[p].at \in {"archive", "manifest"} /\ Goes(p, "manifest") /\ "media" \in Files
            /\ UNCHANGED <<now, target, lock, kept>>
            /\ partial' = [partial EXCEPT ![run[p].stamp] = @ \cup {"media"}]
        BY <3>1 DEF ArchiveMedia, Files
      <4>2. "manifest" \in {"manifest", "rename"}
        OBVIOUS
      <4> QED BY <4>1, <4>2, Zenon
    <3>2. CASE WriteManifest(p)
      <4>1. /\ run[p].at \in {"archive", "manifest"} /\ Goes(p, "rename") /\ "manifest" \in Files
            /\ UNCHANGED <<now, target, lock, kept>>
            /\ partial' = [partial EXCEPT ![run[p].stamp] = @ \cup {"manifest"}]
        BY <3>2 DEF WriteManifest, Files
      <4>2. "rename" \in {"manifest", "rename"}
        OBVIOUS
      <4> QED BY <4>1, <4>2, Zenon
    <3> QED BY <1>11, <3>1, <3>2
  <2>2. RunFollows(p)'
    <3>1. target[run[p].stamp] = NoDir /\ partial[run[p].stamp] \subseteq Files
      BY <1>2, <2>1 DEF RunFollows
    <3>2. partial'[run[p].stamp] \subseteq Files
      BY <1>1, <1>7, <2>1, <3>1
    <3> QED BY <1>2, <1>7, <2>1, <3>1, <3>2 DEF RunFollows
  <2>3. CompletedIsKept'
    BY <1>1, <2>1 DEF CompletedIsKept, Whole
  <2> QED BY <1>6, <1>7, <2>1, <2>2, <2>3
<1>12. ASSUME NEW p \in Runs, Rename(p) PROVE Kept
  <2> DEFINE cutoff == now - Retention
             s == run[p].stamp
  <2>1. /\ run[p].at = "rename" /\ s \in Stamps /\ target[s] = NoDir /\ lock = p
        /\ UNCHANGED <<now, lock, kept>> /\ target' = [target EXCEPT ![s] = partial[s]]
    BY <1>1, <1>2, <1>12 DEF Rename, RunFollows, OneRuns
  <2>2. /\ run'[p].at = "prune" /\ run'[p].cutoff = cutoff
        /\ run'[p].pruned = run[p].pruned /\ run'[p].stamp = run[p].stamp
    <3>1. cutoff \in Int
      BY <1>3
    <3>2. run'[p] = [run[p] EXCEPT !.at = "prune", !.cutoff = cutoff]
      BY <1>1, <1>12 DEF Rename
    <3> HIDE DEF cutoff
    <3>3. ASSUME NEW at \in RunPlaces
          PROVE  /\ [run[p] EXCEPT !.at = at, !.cutoff = cutoff].at = at
                 /\ [run[p] EXCEPT !.at = at, !.cutoff = cutoff].cutoff = cutoff
                 /\ [run[p] EXCEPT !.at = at, !.cutoff = cutoff].pruned = run[p].pruned
                 /\ [run[p] EXCEPT !.at = at, !.cutoff = cutoff].stamp = run[p].stamp
      BY <1>2, <3>1 DEF RunRecord
    <3>4. "prune" \in RunPlaces
      BY DEF RunPlaces
    <3> QED BY <3>2, <3>3, <3>4, Zenon
  <2>3. \A q \in Runs \ {p} : run'[q] = run[q]
    BY <1>1, <1>12 DEF Rename
  <2>4. CompletedIsKept'
    BY <1>1, <1>4, <2>1 DEF CompletedIsKept, Whole
  <2>5. RunFollows(p)'
    BY <1>2, <1>3, <2>1, <2>2 DEF RunFollows
  <2> QED BY <1>5, <1>6, <2>1, <2>2, <2>3, <2>4, <2>5
<1>13. ASSUME NEW p \in Runs, PruneNext(p) PROVE Kept
  <2>1. PICK s \in Stamps :
          run[p].at = "prune" /\ s < run[p].cutoff /\ run' = [run EXCEPT ![p].pruned = s]
    BY <1>13 DEF PruneNext, OldEnough
  <2>2. UNCHANGED <<now, target, partial, lock, kept>>
    BY <1>13 DEF PruneNext
  <2>3. /\ run'[p].at = run[p].at /\ run'[p].cutoff = run[p].cutoff
        /\ run'[p].stamp = run[p].stamp /\ run'[p].pruned = s
        /\ \A q \in Runs \ {p} : run'[q] = run[q]
    BY <1>1, <1>2, <2>1 DEF RunRecord
  <2>4. RunFollows(p)'
    BY <1>2, <2>1, <2>2, <2>3 DEF RunFollows
  <2>5. CompletedIsKept'
    BY <1>1, <2>2 DEF CompletedIsKept, Whole
  <2> QED BY <1>1, <1>5, <1>6, <2>1, <2>2, <2>3, <2>4, <2>5 DEF OneRuns
<1>14. ASSUME NEW p \in Runs, PruneFile(p) PROVE Kept
  <2> DEFINE s == run[p].pruned
  <2>1. /\ run[p].at = "prune" /\ s \in Stamps /\ s < run[p].cutoff
        /\ run[p].cutoff <= now - Retention /\ lock = p
    BY <1>1, <1>2, <1>3, <1>14 DEF PruneFile, RunFollows, OneRuns
  <2>2. /\ \A t \in Stamps \ {s} : target'[t] = target[t]
        /\ UNCHANGED <<now, partial, lock, kept>>
    BY <1>1, <1>14, <2>1 DEF PruneFile
  <2>3. CompletedIsKept'
    BY <1>1, <1>3, <2>1, <2>2 DEF CompletedIsKept, Whole
  <2>4. /\ run'[p].at = run[p].at /\ run'[p].cutoff = run[p].cutoff
        /\ run'[p].stamp = run[p].stamp /\ run'[p].pruned \in {run[p].pruned, NoStamp}
        /\ \A q \in Runs \ {p} : run'[q] = run[q]
    <3>1. CASE run' = [run EXCEPT ![p].pruned = NoStamp]
      BY <1>1, <1>2, <3>1 DEF RunRecord
    <3>2. CASE UNCHANGED run
      BY <3>2
    <3> QED BY <1>14, <3>1, <3>2 DEF PruneFile
  <2>5. RunFollows(p)'
    BY <1>2, <2>1, <2>2, <2>4 DEF RunFollows
  <2> QED BY <1>5, <1>6, <2>1, <2>2, <2>3, <2>4, <2>5
<1>15. ASSUME NEW p \in Runs, PruneEnds(p) PROVE Kept
  <2>1. /\ run[p].at = "prune" /\ run[p].pruned = NoStamp /\ Goes(p, "verify")
        /\ UNCHANGED <<now, target, partial, lock, kept>>
    BY <1>15 DEF PruneEnds
  <2>2. RunFollows(p)' /\ CompletedIsKept'
    BY <1>1, <1>7, <2>1 DEF RunFollows, CompletedIsKept, Whole
  <2> QED BY <1>6, <1>7, <2>1, <2>2
<1>16. ASSUME NEW p \in Runs, BackupEnds(p) PROVE Kept
  <2>1. /\ run[p].at = "verify" /\ run'[p].at = "idle" /\ run'[p].pruned = NoStamp
        /\ \A q \in Runs \ {p} : run'[q] = run[q]
        /\ UNCHANGED <<now, target>> /\ kept' = kept \cup {run[p].stamp}
        /\ target[run[p].stamp] = Files
    BY <1>1, <1>16 DEF BackupEnds, RunIdle, Verified, Whole
  <2>2. CompletedIsKept'
    BY <1>1, <2>1 DEF CompletedIsKept, Whole
  <2> QED BY <1>5, <1>6, <2>1, <2>2 DEF RunFollows
<1>17. ASSUME UNCHANGED diskVars, now' \in Int, now' >= now PROVE Kept
  <2>1. UNCHANGED <<target, partial, lock, run, kept>>
    BY <1>17 DEF diskVars
  <2>2. CompletedIsKept'
    <3> SUFFICES ASSUME NEW s \in kept, s >= now' - Retention PROVE target[s] = Files
      BY <2>1 DEF CompletedIsKept, Whole
    <3>1. s \in Int
      BY <1>1, <1>3
    <3>2. s >= now - Retention
      <4>1. now \in Int /\ Retention \in Int /\ now' \in Int /\ now' >= now
        BY <1>3, <1>17
      <4>2. \A a, b, r, t \in Int : a >= b /\ t >= a - r => t >= b - r
        OBVIOUS
      <4> QED BY <3>1, <4>1, <4>2, Zenon
    <3> QED BY <1>1, <3>2 DEF CompletedIsKept, Whole
  <2>3. ASSUME NEW p \in Runs PROVE RunFollows(p)'
    BY <1>2, <1>3, <1>17, <2>1 DEF RunFollows
  <2> QED BY <1>1, <2>1, <2>2, <2>3 DEF OneRuns
<1>18. ASSUME NEW r \in Restores,
              \/ StartRestore(r) \/ CreateDb(r) \/ LoadDb(r) \/ ExtractMedia(r)
              \/ RestoreFails(r) \/ RestoreIsKilled(r)
       PROVE  UNCHANGED diskVars /\ now' = now
  BY <1>18 DEF StartRestore, CreateDb, LoadDb, ExtractMedia, RestoreFails, RestoreIsKilled
<1>19. ASSUME NextDay \/ UNCHANGED bakVars PROVE UNCHANGED diskVars /\ now' \in Int /\ now' >= now
  BY <1>3, <1>19 DEF NextDay, bakVars, diskVars
<1>20. now \in Int /\ now >= now
  BY <1>3
<1> QED
  <2>1. CASE \E p \in Runs :
               \/ StartBackup(p) \/ Dump(p) \/ ArchiveMedia(p) \/ WriteManifest(p) \/ Rename(p)
               \/ PruneNext(p) \/ PruneFile(p) \/ PruneEnds(p) \/ BackupEnds(p)
               \/ BackupFails(p) \/ BackupIsKilled(p)
    BY <1>8, <1>9, <1>10, <1>11, <1>12, <1>13, <1>14, <1>15, <1>16, <2>1, Zenon
  <2>2. CASE \E r \in Restores :
               \/ StartRestore(r) \/ CreateDb(r) \/ LoadDb(r) \/ ExtractMedia(r)
               \/ RestoreFails(r) \/ RestoreIsKilled(r)
    BY <1>17, <1>18, <1>20, <2>2
  <2>3. CASE NextDay \/ UNCHANGED bakVars
    BY <1>17, <1>19, <2>3
  <2> QED BY <2>1, <2>2, <2>3, Zenon DEF BackupsNext

(* A restore keeps the database it made until its media are in place.      *)
LEMMA RestoresStay ==
  BackupsInv /\ [BackupsNext]_bakVars =>
    OwnsAlone' /\ MediaHaveTheirs' /\ \A r \in Restores : RestoreFollows(r)'
<1> SUFFICES ASSUME BackupsInv, [BackupsNext]_bakVars
             PROVE  OwnsAlone' /\ MediaHaveTheirs' /\ \A r \in Restores : RestoreFollows(r)'
  OBVIOUS
<1>1. /\ restore \in [Restores -> RestoreRecord] /\ database \in [DbTargets -> CopyRecord]
      /\ media \in Stamps \cup {NoStamp} /\ OwnsAlone /\ MediaHaveTheirs
  BY BackupsTypes DEF BackupsInv
<1>2. \A r \in Restores : restore[r] \in RestoreRecord /\ RestoreFollows(r)
  BY <1>1 DEF BackupsInv
<1>3. /\ \A r \in Restores : restore[r].db \in DbTargets
      /\ \A d \in DbTargets : database[d] \in CopyRecord
      /\ NoStamp \notin Stamps /\ NoCopy.from = NoStamp
  BY <1>1, <1>2 DEF RestoreRecord, NoStamp, Stamps, NoCopy
<1> DEFINE Kept == OwnsAlone' /\ MediaHaveTheirs' /\ \A r \in Restores : RestoreFollows(r)'
<1>4. ASSUME NEW r \in Restores, NEW at, RestoreGoes(r, at)
      PROVE  /\ \A q \in Restores \ {r} : restore'[q] = restore[q]
             /\ restore'[r].at = at /\ restore'[r].stamp = restore[r].stamp
             /\ restore'[r].db = restore[r].db
  <2>1. restore'[r] = [restore[r] EXCEPT !.at = at] /\ \A q \in Restores \ {r} : restore'[q] = restore[q]
    BY <1>1, <1>4 DEF RestoreGoes
  <2> QED BY <1>2, <2>1 DEF RestoreRecord
<1>5. ASSUME NEW r \in Restores, StartRestore(r) PROVE Kept
  <2>1. PICK s \in Stamps, d \in DbTargets :
          restore' = [restore EXCEPT ![r] = [at |-> "create", stamp |-> s, db |-> d]]
    BY <1>5 DEF StartRestore
  <2>2. /\ restore'[r].at = "create" /\ restore'[r].stamp = s
        /\ \A q \in Restores \ {r} : restore'[q] = restore[q]
        /\ UNCHANGED <<database, media>>
    BY <1>1, <1>5, <2>1 DEF StartRestore
  <2>3. OwnsAlone'
    BY <1>1, <2>2 DEF OwnsAlone, Owns
  <2>4. MediaHaveTheirs'
    BY <1>1, <2>2 DEF MediaHaveTheirs, Owns
  <2>5. \A q \in Restores : RestoreFollows(q)'
    BY <1>2, <2>2 DEF RestoreFollows
  <2> QED BY <2>3, <2>4, <2>5
<1>6. ASSUME NEW r \in Restores, CreateDb(r) PROVE Kept
  <2> DEFINE d == restore[r].db
             s == restore[r].stamp
  <2>1. /\ restore[r].at = "create" /\ database[d].from = NoStamp /\ s \in Stamps /\ d \in DbTargets
        /\ UNCHANGED media /\ RestoreGoes(r, "load")
    BY <1>2, <1>3, <1>6 DEF CreateDb, RestoreFollows
  <2>2. database'[d].from = s /\ \A e \in DbTargets \ {d} : database'[e] = database[e]
    BY <1>1, <1>3, <1>6, <2>1 DEF CreateDb, CopyRecord
  <2>3. \A q \in Restores : ~Owns(q, d)
    BY <1>2, <1>3, <2>1 DEF Owns, RestoreFollows
  <2>4. OwnsAlone'
    BY <1>1, <1>4, <2>1, <2>3 DEF OwnsAlone, Owns
  <2>5. MediaHaveTheirs'
    <3> SUFFICES ASSUME media # NoStamp PROVE MediaHaveTheirs'
      BY <2>1 DEF MediaHaveTheirs
    <3>1. PICK e \in DbTargets : /\ database[e].from = media /\ database[e].whole
                                 /\ \A q \in Restores : ~Owns(q, e)
      BY <1>1 DEF MediaHaveTheirs
    <3>2. e # d
      BY <1>1, <2>1, <3>1
    <3>3. \A q \in Restores : ~Owns(q, e)'
      BY <1>4, <2>1, <3>1, <3>2 DEF Owns
    <3> QED BY <2>1, <2>2, <3>1, <3>2, <3>3 DEF MediaHaveTheirs
  <2>6. RestoreFollows(r)'
    BY <1>4, <2>1, <2>2 DEF RestoreFollows
  <2>7. ASSUME NEW q \in Restores \ {r} PROVE RestoreFollows(q)'
    BY <1>2, <1>3, <1>4, <2>1, <2>2, <2>3 DEF RestoreFollows, Owns
  <2> QED BY <2>4, <2>5, <2>6, <2>7
<1>7. ASSUME NEW r \in Restores, LoadDb(r) PROVE Kept
  <2> DEFINE d == restore[r].db
  <2>1. /\ restore[r].at = "load" /\ d \in DbTargets /\ UNCHANGED media /\ RestoreGoes(r, "extract")
        /\ restore[r].stamp \in Stamps /\ database[d].from = restore[r].stamp
    BY <1>2, <1>3, <1>7 DEF LoadDb, RestoreFollows
  <2>2. /\ database'[d].from = database[d].from /\ database'[d].whole
        /\ \A e \in DbTargets \ {d} : database'[e] = database[e]
    BY <1>1, <1>3, <1>7, <2>1 DEF LoadDb, CopyRecord
  <2>3. OwnsAlone'
    BY <1>1, <1>4, <2>1 DEF OwnsAlone, Owns
  <2>4. MediaHaveTheirs'
    <3> SUFFICES ASSUME media # NoStamp PROVE MediaHaveTheirs'
      BY <2>1 DEF MediaHaveTheirs
    <3>1. PICK e \in DbTargets : /\ database[e].from = media /\ database[e].whole
                                 /\ \A q \in Restores : ~Owns(q, e)
      BY <1>1 DEF MediaHaveTheirs
    <3>2. e # d
      BY <2>1, <3>1 DEF Owns
    <3>3. \A q \in Restores : ~Owns(q, e)'
      BY <1>4, <2>1, <3>1, <3>2 DEF Owns
    <3> QED BY <2>1, <2>2, <3>1, <3>2, <3>3 DEF MediaHaveTheirs
  <2>5. RestoreFollows(r)'
    BY <1>4, <2>1, <2>2 DEF RestoreFollows
  <2>6. ASSUME NEW q \in Restores \ {r} PROVE RestoreFollows(q)'
    <3>1. ~Owns(q, d)
      BY <1>1, <2>1 DEF OwnsAlone, Owns
    <3> QED BY <1>2, <1>3, <1>4, <2>1, <2>2, <3>1 DEF RestoreFollows, Owns
  <2> QED BY <2>3, <2>4, <2>5, <2>6
<1>8. ASSUME NEW r \in Restores, restore' = [restore EXCEPT ![r] = RestoreIdle]
      PROVE  /\ restore'[r].at = "idle" /\ \A q \in Restores \ {r} : restore'[q] = restore[q]
             /\ OwnsAlone' /\ RestoreFollows(r)'
             /\ \A q \in Restores, e \in DbTargets : ~Owns(q, e) \/ q = r => ~Owns(q, e)'
  <2>1. restore'[r].at = "idle" /\ \A q \in Restores \ {r} : restore'[q] = restore[q]
    BY <1>1, <1>8 DEF RestoreIdle
  <2>2. OwnsAlone'
    BY <1>1, <2>1 DEF OwnsAlone, Owns
  <2>3. RestoreFollows(r)'
    BY <2>1 DEF RestoreFollows
  <2>4. \A q \in Restores, e \in DbTargets : ~Owns(q, e) \/ q = r => ~Owns(q, e)'
    BY <2>1 DEF Owns
  <2> QED BY <2>1, <2>2, <2>3, <2>4
<1>9. ASSUME NEW r \in Restores, ExtractMedia(r) PROVE Kept
  <2> DEFINE d == restore[r].db
  <2>1. /\ restore[r].at = "extract" /\ media = NoStamp /\ media' = restore[r].stamp
        /\ UNCHANGED database /\ restore' = [restore EXCEPT ![r] = RestoreIdle]
    BY <1>9 DEF ExtractMedia
  <2>2. d \in DbTargets /\ database[d].from = restore[r].stamp /\ database[d].whole
    BY <1>2, <1>3, <2>1 DEF RestoreFollows
  <2>3. \A q \in Restores \ {r} : ~Owns(q, d)
    BY <1>1, <1>3, <2>1 DEF OwnsAlone, Owns
  <2>5. MediaHaveTheirs'
    <3>1. PICK e \in DbTargets : e = restore[r].db
      BY <2>2
    <3>2. \A q \in Restores : ~Owns(q, e)'
      <4>1. \A q \in Restores \ {r} : ~Owns(q, e)
        BY <2>3, <3>1, Zenon
      <4> QED BY <1>8, <2>1, <4>1
    <3> QED BY <2>1, <2>2, <3>1, <3>2 DEF MediaHaveTheirs
  <2>6. ASSUME NEW q \in Restores \ {r} PROVE RestoreFollows(q)'
    BY <1>2, <1>8, <2>1 DEF RestoreFollows
  <2> QED BY <1>8, <2>1, <2>5, <2>6
<1>10. ASSUME NEW r \in Restores, RestoreFails(r) \/ RestoreIsKilled(r) PROVE Kept
  <2> DEFINE d == restore[r].db
  <2>1. /\ restore' = [restore EXCEPT ![r] = RestoreIdle] /\ UNCHANGED media
        /\ \/ UNCHANGED database
           \/ Owns(r, d) /\ \A e \in DbTargets \ {d} : database'[e] = database[e]
    <3>1. CASE RestoreIsKilled(r)
      BY <3>1 DEF RestoreIsKilled
    <3>2. CASE RestoreFails(r)
      <4>1. DropsDb(r) => Owns(r, d)
        BY <1>2, <3>2 DEF RestoreFails, DropsDb, Owns, RestoreRecord, RestorePlaces
      <4> QED BY <1>1, <3>2, <4>1 DEF RestoreFails
    <3> QED BY <1>10, <3>1, <3>2
  <2>2. MediaHaveTheirs'
    <3> SUFFICES ASSUME media # NoStamp PROVE MediaHaveTheirs'
      BY <2>1 DEF MediaHaveTheirs
    <3>1. PICK e \in DbTargets : /\ database[e].from = media /\ database[e].whole
                                 /\ \A q \in Restores : ~Owns(q, e)
      BY <1>1 DEF MediaHaveTheirs
    <3>2. database'[e] = database[e]
      BY <2>1, <3>1 DEF Owns
    <3>3. \A q \in Restores : ~Owns(q, e)'
      BY <1>8, <2>1, <3>1
    <3> QED BY <2>1, <3>1, <3>2, <3>3 DEF MediaHaveTheirs
  <2>3. ASSUME NEW q \in Restores \ {r} PROVE RestoreFollows(q)'
    <3>1. CASE UNCHANGED database
      BY <1>2, <1>8, <2>1, <3>1 DEF RestoreFollows
    <3>2. CASE Owns(r, d) /\ \A e \in DbTargets \ {d} : database'[e] = database[e]
      <4>1. ~Owns(q, d)
        BY <1>1, <1>3, <3>2 DEF OwnsAlone
      <4> QED BY <1>2, <1>3, <1>8, <2>1, <3>2, <4>1 DEF RestoreFollows, Owns
    <3> QED BY <2>1, <3>1, <3>2
  <2> QED BY <1>8, <2>1, <2>2, <2>3
<1>11. ASSUME UNCHANGED restoreVars PROVE Kept
  <2>1. UNCHANGED <<restore, database, media>>
    BY <1>11 DEF restoreVars
  <2>2. ASSUME NEW r \in Restores PROVE RestoreFollows(r)'
    BY <1>2, <2>1 DEF RestoreFollows
  <2> QED BY <1>1, <2>1, <2>2 DEF OwnsAlone, MediaHaveTheirs, Owns
<1>12. ASSUME NEW p \in Runs,
              \/ StartBackup(p) \/ Dump(p) \/ ArchiveMedia(p) \/ WriteManifest(p) \/ Rename(p)
              \/ PruneNext(p) \/ PruneFile(p) \/ PruneEnds(p) \/ BackupEnds(p)
              \/ BackupFails(p) \/ BackupIsKilled(p)
       PROVE  UNCHANGED restoreVars
  BY <1>12, Zenon DEF StartBackup, Dump, ArchiveMedia, WriteManifest, Rename, PruneNext, PruneFile,
     PruneEnds, BackupEnds, BackupFails, BackupIsKilled
<1>13. ASSUME NextDay \/ UNCHANGED bakVars PROVE UNCHANGED restoreVars
  BY <1>13 DEF NextDay, bakVars, restoreVars
<1> QED
  <2>1. CASE \E p \in Runs :
               \/ StartBackup(p) \/ Dump(p) \/ ArchiveMedia(p) \/ WriteManifest(p) \/ Rename(p)
               \/ PruneNext(p) \/ PruneFile(p) \/ PruneEnds(p) \/ BackupEnds(p)
               \/ BackupFails(p) \/ BackupIsKilled(p)
    BY <1>11, <1>12, <2>1, Zenon
  <2>2. CASE \E r \in Restores :
               \/ StartRestore(r) \/ CreateDb(r) \/ LoadDb(r) \/ ExtractMedia(r)
               \/ RestoreFails(r) \/ RestoreIsKilled(r)
    BY <1>5, <1>6, <1>7, <1>9, <1>10, <2>2, Zenon
  <2>3. CASE NextDay \/ UNCHANGED bakVars
    BY <1>11, <1>13, <2>3
  <2> QED BY <2>1, <2>2, <2>3, Zenon DEF BackupsNext

(* A completed backup is there while it is to be retained, and restored    *)
(* media have their database, for any number of runs, restores and days    *)
(* (infra/ops/backup.py, restore.py).                                      *)
THEOREM BackupsCorrect == BackupsSpec => [](BackupsTypeOK /\ CompletedIsKept /\ RestoredIsWhole)
<1>1. BackupsInit => BackupsInv
  <2> SUFFICES ASSUME BackupsInit PROVE BackupsInv
    OBVIOUS
  <2>1. BackupsTypeOK
    <3>1. now \in Stamps
      BY BackupsAssumption DEF BackupsInit, Stamps
    <3>2. NoDir \in Dirs
      BY DEF Dirs
    <3> QED BY <3>1, <3>2, BackupsTypes, BackupsRecords DEF BackupsInit
  <2>2. \A p \in Runs : run[p].at = "idle" /\ run[p].pruned = NoStamp
    BY DEF BackupsInit, RunIdle
  <2>3. \A r \in Restores : restore[r].at = "idle"
    BY DEF BackupsInit, RestoreIdle
  <2>4. OneRuns /\ (\A p \in Runs : RunFollows(p)) /\ \A r \in Restores : RestoreFollows(r)
    BY <2>2, <2>3 DEF OneRuns, RunFollows, RestoreFollows
  <2>5. OwnsAlone /\ MediaHaveTheirs /\ CompletedIsKept
    BY <2>3 DEF OwnsAlone, Owns, MediaHaveTheirs, CompletedIsKept, BackupsInit
  <2> QED BY <2>1, <2>4, <2>5 DEF BackupsInv
<1>2. BackupsInv /\ [BackupsNext]_bakVars => BackupsInv'
  BY BackupsTypesStay, DiskStays, RestoresStay DEF BackupsInv
<1>3. BackupsInv => RestoredIsWhole
  <2> SUFFICES ASSUME BackupsInv, media # NoStamp
               PROVE  \E d \in DbTargets : database[d] = [from |-> media, whole |-> TRUE]
    BY DEF RestoredIsWhole
  <2>1. PICK d \in DbTargets : database[d].from = media /\ database[d].whole
    BY DEF BackupsInv, MediaHaveTheirs
  <2>2. database[d] \in CopyRecord
    BY BackupsTypes DEF BackupsInv
  <2>3. database[d] = [from |-> media, whole |-> TRUE]
    BY <2>1, <2>2 DEF CopyRecord
  <2> QED BY <2>3
<1>4. BackupsInv => BackupsTypeOK /\ CompletedIsKept
  BY DEF BackupsInv
<1> QED BY <1>1, <1>2, <1>3, <1>4, PTL DEF BackupsSpec

-----------------------------------------------------------------------------
(* CATEGORIES.  The types of the tree and of the requests.                 *)
EditRecord ==
  [at : {"rest", "widen", "move", "create", "read", "save"}, node : Nodes \cup {Absent},
   to : Nodes \cup {Top, Absent}, locked : SUBSET Nodes, level : SUBSET Nodes]

CatTyped ==
  /\ parent \in [Nodes -> Nodes \cup {Top, Absent}]
  /\ edit \in [Editors -> EditRecord]
  /\ overtaken \in BOOLEAN
  /\ \A e \in Editors : edit[e].at # "rest" => edit[e].node \in Nodes

LEMMA RestingIsTyped == Resting \in EditRecord /\ Resting.at = "rest"
BY DEF Resting, EditRecord

LEMMA CatTypedInitially == CatInit => CatTyped
BY RestingIsTyped DEF CatInit, CatTyped

(* One request changes what it is at.                                      *)
LEMMA EditIsTyped ==
  ASSUME CatTyped, NEW e \in Editors, NEW new \in EditRecord, edit' = [edit EXCEPT ![e] = new],
         new.at # "rest" => new.node \in Nodes,
         parent' \in [Nodes -> Nodes \cup {Top, Absent}], overtaken' \in BOOLEAN
  PROVE  CatTyped'
BY DEF CatTyped

LEMMA CatTypedSteps == CatTyped /\ [CatNext]_catVars => CatTyped'
<1> SUFFICES ASSUME CatTyped, [CatNext]_catVars PROVE CatTyped'
  OBVIOUS
<1> DEFINE stages == {"rest", "widen", "move", "create", "read", "save"}
<1>1. /\ parent \in [Nodes -> Nodes \cup {Top, Absent}] /\ overtaken \in BOOLEAN
      /\ edit \in [Editors -> EditRecord]
      /\ \A e \in Editors : edit[e].at # "rest" => edit[e].node \in Nodes
  BY DEF CatTyped
<1>2. Rows \subseteq Nodes /\ \A S : Children(S) \subseteq Nodes
  BY DEF Rows, Children
<1>3. ASSUME NEW e \in Editors, NEW c \in Nodes, NEW p \in Nodes \cup {Top}, BeginMove(e, c, p)
      PROVE  CatTyped'
  <2> DEFINE new == [at |-> "widen", node |-> c, to |-> p, locked |-> RowsOfMove(c, p), level |-> {c}]
  <2>1. edit' = [edit EXCEPT ![e] = new] /\ UNCHANGED <<parent, overtaken>>
    BY <1>3 DEF BeginMove
  <2>2. new \in EditRecord /\ new.node = c
    BY DEF EditRecord, RowsOfMove
  <2> HIDE DEF new
  <2> QED BY <1>1, <2>1, <2>2, EditIsTyped
<1>4. ASSUME NEW e \in Editors, NEW c \in Nodes, NEW p \in Nodes \cup {Top}, CheckCreate(e, c, p)
      PROVE  CatTyped'
  <2>1. PICK at \in stages : at = "create"
    OBVIOUS
  <2> DEFINE new == [Resting EXCEPT !.at = at, !.node = c, !.to = p]
  <2>2. edit' = [edit EXCEPT ![e] = new] /\ UNCHANGED <<parent, overtaken>>
    BY <1>4, <2>1, Zenon DEF CheckCreate
  <2>3. new \in EditRecord /\ new.node = c
    BY RestingIsTyped DEF EditRecord
  <2> HIDE DEF new
  <2> QED BY <1>1, <2>2, <2>3, EditIsTyped
<1>5. ASSUME NEW e \in Editors, NEW c \in Nodes, ReadForEdit(e, c)
      PROVE  CatTyped'
  <2>1. PICK at \in stages : at = "read"
    OBVIOUS
  <2> DEFINE new == [Resting EXCEPT !.at = at, !.node = c, !.to = parent[c]]
  <2>2. edit' = [edit EXCEPT ![e] = new] /\ UNCHANGED <<parent, overtaken>>
    BY <1>5, <2>1, Zenon DEF ReadForEdit
  <2>3. new \in EditRecord /\ new.node = c
    BY <1>1, RestingIsTyped DEF EditRecord
  <2> HIDE DEF new
  <2> QED BY <1>1, <2>2, <2>3, EditIsTyped
<1>6. ASSUME NEW e \in Editors, Widen(e) PROVE CatTyped'
  <2> DEFINE rows == Children(edit[e].level)
             new == [edit[e] EXCEPT !.level = rows, !.locked = @ \cup rows]
  <2>1. edit' = [edit EXCEPT ![e] = new] /\ UNCHANGED <<parent, overtaken>>
        /\ edit[e].at = "widen"
    BY <1>6 DEF Widen
  <2>2. edit[e] \in EditRecord /\ rows \subseteq Nodes
    BY <1>1, <1>2
  <2> HIDE DEF rows
  <2>3. new \in EditRecord /\ new.node = edit[e].node
    BY <2>2 DEF EditRecord
  <2> HIDE DEF new
  <2> QED BY <1>1, <2>1, <2>3, EditIsTyped
<1>7. ASSUME NEW e \in Editors, CheckMove(e) PROVE CatTyped'
  <2>1. PICK at \in stages : at = "move"
    OBVIOUS
  <2> DEFINE new == [edit[e] EXCEPT !.at = at]
  <2>2. edit' = [edit EXCEPT ![e] = new] /\ UNCHANGED <<parent, overtaken>>
        /\ edit[e].at = "widen"
    BY <1>7, <2>1, Zenon DEF CheckMove
  <2>3. new \in EditRecord /\ new.node = edit[e].node
    BY <1>1 DEF EditRecord
  <2> HIDE DEF new
  <2> QED BY <1>1, <2>2, <2>3, EditIsTyped
<1>8. ASSUME NEW e \in Editors, CommitMove(e) \/ Create(e) \/ SaveEdit(e) PROVE CatTyped'
  <2>1. parent' = [parent EXCEPT ![edit[e].node] = edit[e].to] /\ edit[e].to \in Rows \cup {Top}
        /\ edit' = [edit EXCEPT ![e] = Resting]
    BY <1>8 DEF CommitMove, Create, SaveEdit
  <2>2. parent' \in [Nodes -> Nodes \cup {Top, Absent}]
    BY <1>1, <1>2, <2>1
  <2>3. overtaken' \in BOOLEAN
    BY <1>1, <1>8, Zenon DEF CommitMove, Create, SaveEdit
  <2> QED BY <2>1, <2>2, <2>3, RestingIsTyped, EditIsTyped
<1>9. ASSUME NEW e \in Editors, CheckEdit(e) PROVE CatTyped'
  <2>1. PICK at \in stages : at = "save"
    OBVIOUS
  <2> DEFINE settled == [edit[e] EXCEPT !.at = at]
  <2>2. /\ edit' = [edit EXCEPT ![e] = settled] \/ edit' = [edit EXCEPT ![e] = Resting]
        /\ UNCHANGED <<parent, overtaken>> /\ edit[e].at = "read"
    BY <1>9, <2>1, Zenon DEF CheckEdit
  <2>3. settled \in EditRecord /\ settled.node = edit[e].node
    BY <1>1 DEF EditRecord
  <2> HIDE DEF settled
  <2> QED BY <1>1, <2>2, <2>3, RestingIsTyped, EditIsTyped
<1>10. ASSUME NEW e \in Editors, GiveUpEdit(e) PROVE CatTyped'
  BY <1>1, <1>10, RestingIsTyped, EditIsTyped DEF GiveUpEdit
<1>11. ASSUME NEW c \in Nodes, DeleteCategory(c) PROVE CatTyped'
  <2>1. parent' \in [Nodes -> Nodes \cup {Top, Absent}] /\ UNCHANGED <<edit, overtaken>>
    BY <1>1, <1>11 DEF DeleteCategory
  <2> QED BY <1>1, <2>1 DEF CatTyped
<1>12. CASE UNCHANGED catVars
  BY <1>1, <1>12 DEF catVars, CatTyped
<1> QED
  BY <1>3, <1>4, <1>5, <1>6, <1>7, <1>8, <1>9, <1>10, <1>11, <1>12, Zenon DEF CatNext

(* The types of the tree and of the requests, for any of them.             *)
THEOREM CategoryTypes == CatSpec => []CatTypeOK
<1>1. CatTyped => CatTypeOK
  BY DEF CatTyped, CatTypeOK, EditRecord
<1> QED BY <1>1, CatTypedInitially, CatTypedSteps, PTL DEF CatSpec

-----------------------------------------------------------------------------
-----------------------------------------------------------------------------
(* THE FOREST.  What lies within a category is closed under children, and  *)
(* is the least such set.                                                  *)
LEMMA WithinIsLeast ==
  ASSUME NEW c \in Nodes
  PROVE  /\ Within(c) \in SUBSET Nodes /\ c \in Within(c)
         /\ Children(Within(c)) \subseteq Within(c)
         /\ \A T \in SUBSET Nodes : c \in T /\ Children(T) \subseteq T => Within(c) \subseteq T
<1> DEFINE step == [S \in SUBSET Nodes |-> S \cup Children(S)]
<1>1. IsFiniteSet(Nodes)
  BY CategoriesAssumption
<1>2. \A S : Children(S) \subseteq Nodes
  BY DEF Children, Rows
<1>3. step \in [SUBSET Nodes -> SUBSET Nodes] /\ \A S \in SUBSET Nodes : step[S] = S \cup Children(S)
  BY <1>2
<1>0. {c} \subseteq Nodes /\ Grows(step, Nodes)
  BY <1>3 DEF Grows
<1> HIDE DEF step
<1>4. PICK g : Iterates(g, {c}, step)
  BY IterationExists
<1>5. \A n \in Nat : g[n] \in SUBSET Nodes
  <2>1. StaysIn(g, Nodes)
    BY <1>0, <1>4, IterationsGrow, Zenon
  <2> QED BY <2>1 DEF StaysIn
<1>6. g = [n \in Nat |-> IF n = 0 THEN {c} ELSE g[n - 1] \cup Children(g[n - 1])]
  <2>1. \A n \in Nat : n # 0 => step[g[n - 1]] = g[n - 1] \cup Children(g[n - 1])
    BY <1>3, <1>5
  <2>2. g = [n \in Nat |-> g[n]] /\ \A n \in Nat : g[n] = IF n = 0 THEN {c} ELSE step[g[n - 1]]
    BY <1>4 DEF Iterates
  <2> QED BY <2>1, <2>2
<1> DEFINE reach == CHOOSE f : f = [n \in Nat |-> IF n = 0 THEN {c} ELSE f[n - 1] \cup Children(f[n - 1])]
<1>7. reach = [n \in Nat |-> IF n = 0 THEN {c} ELSE reach[n - 1] \cup Children(reach[n - 1])]
  BY <1>6
<1>8. Within(c) = reach[Cardinality(Nodes)]
  BY DEF Within
<1> HIDE DEF reach
<1>9. \A n \in Nat : reach[n] \in SUBSET Nodes
  <2> DEFINE good == {n \in Nat : reach[n] \in SUBSET Nodes}
  <2>1. 0 \in good
    BY <1>7
  <2>2. ASSUME NEW n \in good PROVE n + 1 \in good
    <3>1. n + 1 \in Nat /\ n + 1 # 0 /\ (n + 1) - 1 = n
      OBVIOUS
    <3>2. reach[n + 1] = reach[n] \cup Children(reach[n])
      BY <1>7, <3>1
    <3> QED BY <1>2, <3>1, <3>2
  <2>3. good \subseteq Nat
    OBVIOUS
  <2>4. good = Nat
    <3> HIDE DEF good
    <3> QED BY <2>1, <2>2, <2>3, CountingUp
  <2> QED BY <2>4
<1>10. Iterates(reach, {c}, step)
  <2>1. \A n \in Nat : n # 0 => step[reach[n - 1]] = reach[n - 1] \cup Children(reach[n - 1])
    BY <1>3, <1>9
  <2>2. reach = [n \in Nat |-> reach[n]]
    BY <1>7
  <2>3. \A n \in Nat : reach[n] = IF n = 0 THEN {c} ELSE reach[n - 1] \cup Children(reach[n - 1])
    BY <1>7
  <2>4. \A n \in Nat : reach[n] = IF n = 0 THEN {c} ELSE step[reach[n - 1]]
    BY <2>1, <2>3
  <2> QED BY <2>2, <2>4 DEF Iterates
<1>11. Cardinality(Nodes) \in Nat
  BY <1>1, FS_CardinalityType
<1>12. /\ Holds(reach, {c})
       /\ step[reach[Cardinality(Nodes)]] = reach[Cardinality(Nodes)]
       /\ \A T \in SUBSET Nodes :
            {c} \subseteq T /\ ClosedUnder(step, T) => StaysIn(reach, T)
  <2>1. Holds(reach, {c})
    BY <1>0, <1>10, IterationsGrow, Zenon
  <2>2. step[reach[Cardinality(Nodes)]] = reach[Cardinality(Nodes)]
    BY <1>0, <1>1, <1>10, IterationsClose, Zenon
  <2>3. ASSUME NEW T \in SUBSET Nodes, {c} \subseteq T, ClosedUnder(step, T)
        PROVE  StaysIn(reach, T)
    BY <1>10, <2>3, IterationsAreLeast, Zenon
  <2> QED BY <2>1, <2>2, <2>3
<1>13. \A S, T : S \subseteq T => Children(S) \subseteq Children(T)
  BY DEF Children
<1>14. \A T \in SUBSET Nodes : Children(T) \subseteq T => ClosedUnder(step, T)
  BY <1>3, <1>13 DEF ClosedUnder
<1> QED BY <1>3, <1>8, <1>9, <1>11, <1>12, <1>14 DEF StaysIn, Holds

(* The parent of a row is a row.                                           *)
ParentsAreRows == \A c \in Rows : parent[c] \in Rows \cup {Top}

(* What lies above a category is closed under parents, and the least such. *)
LEMMA AboveIsLeast ==
  ASSUME ParentsAreRows, NEW c \in Rows
  PROVE  /\ Above(c) \in SUBSET Rows /\ c \in Above(c)
         /\ \A a \in Above(c) : parent[a] # Top => parent[a] \in Above(c)
         /\ \A T \in SUBSET Rows :
              c \in T /\ (\A a \in T : parent[a] # Top => parent[a] \in T) => Above(c) \subseteq T
<1> DEFINE Parents(S) == {parent[a] : a \in S}
           step == [S \in SUBSET Nodes |-> S \cup (Parents(S) \cap Nodes)]
<1>1. IsFiniteSet(Nodes) /\ Cardinality(Nodes) \in Nat
  BY CategoriesAssumption, FS_CardinalityType
<1>2. Rows \subseteq Nodes /\ c \in Nodes /\ Top \notin Nodes
  BY CategoriesAssumption DEF Rows
<1>3. \A S \in SUBSET Rows : Parents(S) \ {Top} \subseteq Rows /\ Parents(S) \cap Nodes = Parents(S) \ {Top}
  BY <1>2 DEF ParentsAreRows
<1>4. /\ step \in [SUBSET Nodes -> SUBSET Nodes]
      /\ \A S \in SUBSET Nodes : S \subseteq step[S]
      /\ \A S \in SUBSET Rows : step[S] = S \cup (Parents(S) \ {Top}) /\ step[S] \subseteq Rows
  BY <1>2, <1>3
<1> HIDE DEF step
<1> DEFINE IsReach(f) ==
      f = [n \in Nat |-> IF n = 0 THEN {c} \ {Top} ELSE f[n - 1] \cup ({parent[a] : a \in f[n - 1]} \ {Top})]
<1>5. {c} \ {Top} = {c} /\ {c} \in SUBSET Rows /\ {c} \in SUBSET Nodes
  BY <1>2
<1>6. PICK g : Iterates(g, {c}, step)
  BY IterationExists
<1>7. \A n \in Nat : g[n] \in SUBSET Rows
  <2>1. {c} \subseteq Rows /\ ClosedUnder(step, Rows)
    BY <1>4, <1>5 DEF ClosedUnder
  <2>2. StaysIn(g, Rows)
    BY <1>6, <2>1, IterationsAreLeast, Zenon
  <2> QED BY <2>2 DEF StaysIn
<1>8. IsReach(g)
  <2>1. \A n \in Nat : n # 0 => step[g[n - 1]] = g[n - 1] \cup ({parent[a] : a \in g[n - 1]} \ {Top})
    BY <1>4, <1>7
  <2>2. g = [n \in Nat |-> g[n]] /\ \A n \in Nat : g[n] = IF n = 0 THEN {c} ELSE step[g[n - 1]]
    BY <1>6 DEF Iterates
  <2>3. \A n \in Nat : g[n] = IF n = 0 THEN {c} \ {Top}
                              ELSE g[n - 1] \cup ({parent[a] : a \in g[n - 1]} \ {Top})
    BY <1>5, <2>1, <2>2
  <2> QED BY <2>2, <2>3
<1> DEFINE reach == CHOOSE f : IsReach(f)
<1>9. IsReach(reach)
  <2> HIDE DEF IsReach
  <2> QED BY <1>8
<1>10. Above(c) = reach[Cardinality(Nodes)]
  BY DEF Above
<1> HIDE DEF reach
<1>11. \A n \in Nat : reach[n] = IF n = 0 THEN {c}
                                ELSE reach[n - 1] \cup ({parent[a] : a \in reach[n - 1]} \ {Top})
  BY <1>5, <1>9
<1>12. \A n \in Nat : reach[n] \in SUBSET Rows
  <2> DEFINE good == {n \in Nat : reach[n] \in SUBSET Rows}
  <2>1. 0 \in good
    BY <1>5, <1>11
  <2>2. ASSUME NEW n \in good PROVE n + 1 \in good
    <3>1. n + 1 \in Nat /\ n + 1 # 0 /\ (n + 1) - 1 = n
      OBVIOUS
    <3>2. reach[n + 1] = reach[n] \cup (Parents(reach[n]) \ {Top})
      BY <1>11, <3>1
    <3> QED BY <1>3, <3>1, <3>2
  <2>3. good \subseteq Nat
    OBVIOUS
  <2>4. good = Nat
    <3> HIDE DEF good
    <3> QED BY <2>1, <2>2, <2>3, CountingUp
  <2> QED BY <2>4
<1>13. Iterates(reach, {c}, step)
  <2>1. \A n \in Nat : n # 0 => step[reach[n - 1]] = reach[n - 1] \cup ({parent[a] : a \in reach[n - 1]} \ {Top})
    BY <1>4, <1>12
  <2>2. reach = [n \in Nat |-> reach[n]]
    BY <1>9
  <2>3. \A n \in Nat : reach[n] = IF n = 0 THEN {c} ELSE step[reach[n - 1]]
    BY <1>11, <2>1
  <2> QED BY <2>2, <2>3 DEF Iterates
<1>14. /\ Holds(reach, {c})
       /\ step[reach[Cardinality(Nodes)]] = reach[Cardinality(Nodes)]
       /\ \A T \in SUBSET Nodes :
            {c} \subseteq T /\ ClosedUnder(step, T) => StaysIn(reach, T)
  <2>0. Grows(step, Nodes) /\ {c} \subseteq Nodes
    BY <1>4, <1>5 DEF Grows
  <2>1. Holds(reach, {c})
    BY <1>5, <1>13, <2>0, IterationsGrow, Zenon
  <2>2. IsFiniteSet(Nodes)
    BY <1>1
  <2>3. step[reach[Cardinality(Nodes)]] = reach[Cardinality(Nodes)]
    BY <1>5, <1>13, <2>0, <2>2, IterationsClose, Zenon
  <2>4. ASSUME NEW T \in SUBSET Nodes, {c} \subseteq T, ClosedUnder(step, T)
        PROVE  StaysIn(reach, T)
    BY <1>13, <2>4, IterationsAreLeast, Zenon
  <2> QED BY <2>1, <2>3, <2>4
<1>15. \A T \in SUBSET Rows :
         (\A a \in T : parent[a] # Top => parent[a] \in T) => ClosedUnder(step, T)
  BY <1>4 DEF ClosedUnder
<1>16. ASSUME NEW a \in Above(c), parent[a] # Top PROVE parent[a] \in Above(c)
  <2>1. Above(c) \in SUBSET Rows /\ step[Above(c)] = Above(c)
    BY <1>1, <1>10, <1>12, <1>14
  <2>2. step[Above(c)] = Above(c) \cup (Parents(Above(c)) \ {Top})
    BY <1>4, <2>1
  <2> QED BY <1>16, <2>1, <2>2
<1>17. ASSUME NEW T \in SUBSET Rows, c \in T, \A a \in T : parent[a] # Top => parent[a] \in T
       PROVE  Above(c) \subseteq T
  <2>1. T \in SUBSET Nodes /\ {c} \subseteq T /\ ClosedUnder(step, T)
    BY <1>2, <1>15, <1>17
  <2> QED BY <1>1, <1>10, <1>14, <2>1 DEF StaysIn
<1> QED BY <1>1, <1>10, <1>12, <1>14, <1>16, <1>17 DEF Holds

(* The rows are a forest: there is a rank for each, one for those without  *)
(* a parent and one more than its parent's for the others.                 *)
Ranks(r) ==
  /\ r \in [Nodes -> Nat]
  /\ \A c \in Rows : \/ parent[c] = Top /\ r[c] = 1
                     \/ parent[c] \in Rows /\ r[c] = r[parent[c]] + 1

LEMMA RanksParents == ASSUME NEW r, Ranks(r) PROVE ParentsAreRows
BY DEF Ranks, ParentsAreRows

(* The rank of a category is its depth.                                    *)
LEMMA RankIsDepth ==
  ASSUME NEW r, Ranks(r)
  PROVE  \A c \in Rows : Depth(c) = r[c] /\ Top \in {parent[a] : a \in Above(c)}
<1> DEFINE Fine(c) == Depth(c) = r[c] /\ Top \in {parent[a] : a \in Above(c)}
           good == {n \in Nat : \A c \in Rows : r[c] = n => Fine(c)}
<1>0. ParentsAreRows
  BY RanksParents
<1>1. Rows \subseteq Nodes /\ Top \notin Rows /\ \A c \in Rows : r[c] \in Nat
  BY CategoriesAssumption DEF Ranks, Rows
<1>2. ASSUME NEW c \in Rows, parent[c] = Top PROVE Fine(c)
  <2>1. Above(c) \subseteq {c} /\ c \in Above(c)
    BY <1>0, <1>2, AboveIsLeast
  <2>2. Above(c) = {c}
    BY <2>1
  <2>3. Depth(c) = 1
    BY <2>2, FS_Singleton DEF Depth
  <2>4. r[c] = 1
    BY <1>1, <1>2 DEF Ranks
  <2> QED BY <1>2, <2>2, <2>3, <2>4
<1>3. ASSUME NEW c \in Rows, parent[c] # Top, Fine(parent[c]) PROVE Fine(c)
  <2> DEFINE p == parent[c]
  <2>1. p \in Rows /\ r[c] = r[p] + 1
    BY <1>3 DEF Ranks
  <2>2. /\ Above(p) \in SUBSET Rows /\ p \in Above(p)
        /\ \A a \in Above(p) : parent[a] # Top => parent[a] \in Above(p)
        /\ Above(c) \in SUBSET Rows /\ c \in Above(c)
        /\ \A a \in Above(c) : parent[a] # Top => parent[a] \in Above(c)
    BY <1>0, <2>1, AboveIsLeast
  <2>3. Above(c) \subseteq Above(p) \cup {c}
    <3>1. Above(p) \cup {c} \in SUBSET Rows
      BY <2>2
    <3>2. \A a \in Above(p) \cup {c} : parent[a] # Top => parent[a] \in Above(p) \cup {c}
      BY <2>2
    <3> QED BY <1>0, <3>1, <3>2, AboveIsLeast
  <2>4. Above(p) \subseteq Above(c)
    BY <1>0, <1>3, <2>1, <2>2, AboveIsLeast
  <2>5. c \notin Above(p)
    <3> DEFINE low == {a \in Rows : r[a] <= r[p]}
    <3>1. \A a \in low : parent[a] # Top => parent[a] \in low
      BY <1>1, <2>1 DEF Ranks
    <3>2. p \in low /\ low \in SUBSET Rows
      BY <1>1, <2>1
    <3>3. Above(p) \subseteq low
      <4> HIDE DEF low
      <4> QED BY <1>0, <2>1, <3>1, <3>2, AboveIsLeast
    <3> QED BY <1>1, <2>1, <3>3
  <2>6. IsFiniteSet(Above(p))
    BY <1>1, <2>2, CategoriesAssumption, FS_Subset
  <2>7. Above(c) = Above(p) \cup {c}
    BY <2>2, <2>3, <2>4
  <2>8. Depth(c) = Depth(p) + 1
    BY <2>5, <2>6, <2>7, FS_AddElement DEF Depth
  <2>9. Top \in {parent[a] : a \in Above(c)}
    BY <1>3, <2>7
  <2> QED BY <1>3, <2>1, <2>8, <2>9
<1>4. 0 \in good
  <2> SUFFICES ASSUME NEW c \in Rows, r[c] = 0 PROVE Fine(c)
    BY Zenon
  <2>1. r[c] = 1 \/ (parent[c] \in Rows /\ r[c] = r[parent[c]] + 1)
    BY DEF Ranks
  <2> QED BY <1>1, <2>1
<1>5. ASSUME NEW n \in good PROVE n + 1 \in good
  <2> SUFFICES ASSUME NEW c \in Rows, r[c] = n + 1 PROVE Fine(c)
    OBVIOUS
  <2>1. CASE parent[c] = Top
    BY <1>2, <2>1
  <2>2. CASE parent[c] # Top
    <3>1. parent[c] \in Rows /\ r[c] = r[parent[c]] + 1
      BY <2>2 DEF Ranks
    <3>2. r[parent[c]] = n
      BY <1>1, <3>1
    <3>3. Fine(parent[c])
      BY <1>5, <3>1, <3>2
    <3> QED BY <1>3, <2>2, <3>3
  <2> QED BY <2>1, <2>2
<1>6. good = Nat
  <2>1. good \subseteq Nat
    OBVIOUS
  <2> HIDE DEF good
  <2> QED BY <1>4, <1>5, <2>1, CountingUp
<1>7. ASSUME NEW c \in Rows PROVE Fine(c)
  <2>1. r[c] \in good
    BY <1>1, <1>6
  <2> HIDE DEF Fine
  <2> QED BY <2>1
<1> QED BY <1>7

-----------------------------------------------------------------------------
(* THE MOVES.  A row is locked by one request, and is not deleted then; a  *)
(* move has its category and its new parent; and nobody else has the row   *)
(* that is being created.                                                  *)
LocksApart ==
  \A e, f \in Editors : e # f => edit[e].locked \cap edit[f].locked = {}

MovesHold ==
  \A e \in Editors :
    /\ edit[e].locked \subseteq Rows
    /\ edit[e].at \in {"widen", "move"} =>
         edit[e].node \in edit[e].locked /\ edit[e].to \in edit[e].locked \cup {Top}

CreatesAreNew ==
  \A e \in Editors : edit[e].at = "create" =>
    edit[e].node \notin Rows /\ \A f \in Editors \ {e} : edit[f].node # edit[e].node

(* A move has locked the children of all that it has locked but its new    *)
(* parent and the level it has just reached.                               *)
Widened ==
  \A e \in Editors : edit[e].at = "widen" =>
    /\ edit[e].level \subseteq edit[e].locked
    /\ \A x \in edit[e].locked \ (edit[e].level \cup {edit[e].to}) :
         Children({x}) \subseteq edit[e].locked

(* B is c and all below it, it does not hold p, and under p it would be no *)
(* deeper than it may be.                                                  *)
Movable(c, p, B, r) ==
  /\ B \subseteq Rows /\ c \in B /\ p \notin B /\ Children(B) \subseteq B
  /\ \A x \in B : /\ x # c => parent[x] \in B
                  /\ r[x] >= r[c]
                  /\ (IF p = Top THEN 0 ELSE r[p]) + r[x] - r[c] + 1 <= MaxDepth

Forest(r) ==
  /\ Ranks(r)
  /\ \A c \in Rows : r[c] <= MaxDepth
  /\ \A e \in Editors : edit[e].at = "move" =>
       \E B \in SUBSET edit[e].locked : Movable(edit[e].node, edit[e].to, B, r)

CategoriesInv ==
  /\ CatTyped /\ LocksApart /\ MovesHold /\ CreatesAreNew
  /\ overtaken \/ (Widened /\ \E r : Forest(r))

LEMMA ForestIsSound == CategoriesInv => TreeIsSound
<1> SUFFICES ASSUME CategoriesInv, ~overtaken
             PROVE  \A c \in Rows : Top \in {parent[a] : a \in Above(c)} /\ Depth(c) <= MaxDepth
  BY DEF TreeIsSound
<1>1. PICK r : Forest(r)
  BY DEF CategoriesInv
<1>2. Ranks(r) /\ \A c \in Rows : r[c] <= MaxDepth
  BY <1>1 DEF Forest
<1>3. \A c \in Rows : Depth(c) = r[c] /\ Top \in {parent[a] : a \in Above(c)}
  BY <1>2, RankIsDepth
<1> QED BY <1>2, <1>3

LEMMA ForestInitially == CatInit => CategoriesInv
<1> SUFFICES ASSUME CatInit PROVE CategoriesInv
  OBVIOUS
<1> DEFINE r == [c \in Nodes |-> 1]
<1>1. \A e \in Editors : edit[e] = Resting
  BY DEF CatInit
<1>2. Resting.at = "rest" /\ Resting.locked = {}
  BY DEF Resting
<1>3. LocksApart /\ MovesHold /\ CreatesAreNew /\ Widened
  BY <1>1, <1>2 DEF LocksApart, MovesHold, CreatesAreNew, Widened
<1>4. \A c \in Rows : parent[c] = Top
  BY DEF CatInit, Rows
<1>5. Ranks(r) /\ \A c \in Rows : r[c] <= MaxDepth
  BY <1>4, CategoriesAssumption DEF Ranks, Rows
<1>6. Forest(r)
  <2> HIDE DEF r
  <2> QED BY <1>1, <1>2, <1>5 DEF Forest
<1> QED BY <1>3, <1>6, CatTypedInitially DEF CategoriesInv

(* A parent that changes to none of S leaves no new child in it.           *)
LEMMA ChildrenStay ==
  ASSUME NEW S, S \subseteq Nodes, \A x \in Nodes : parent'[x] = parent[x] \/ parent'[x] \notin S
  PROVE  Children(S)' \subseteq Children(S)
BY CategoriesAssumption DEF Children, Rows

LEMMA MovableStays ==
  ASSUME NEW c, NEW p \in Nodes \cup {Top}, NEW B, NEW r, Movable(c, p, B, r), NEW s,
         \A x \in Nodes : parent'[x] = parent[x] \/ (x \notin B /\ parent'[x] \notin B),
         \A x \in B : s[x] = r[x], p # Top => s[p] = r[p]
  PROVE  Movable(c, p, B, s)'
<1>1. B \subseteq Nodes /\ B \subseteq Rows'
  BY DEF Movable, Rows
<1>2. Children(B)' \subseteq B
  BY <1>1, ChildrenStay DEF Movable
<1> QED BY <1>1, <1>2 DEF Movable

(* What a request that changes alone leaves to the others.                 *)
LEMMA OthersStay ==
  ASSUME CatTyped, NEW e \in Editors, NEW new, edit' = [edit EXCEPT ![e] = new]
  PROVE  edit'[e] = new /\ \A f \in Editors \ {e} : edit'[f] = edit[f]
BY DEF CatTyped

LEMMA LocksStayApart ==
  ASSUME CatTyped, LocksApart, NEW e \in Editors, NEW new, edit' = [edit EXCEPT ![e] = new],
         \A f \in Editors \ {e} : edit[f].locked \cap new.locked = {}
  PROVE  LocksApart'
BY OthersStay DEF LocksApart

LEMMA MovesStillHold ==
  ASSUME CatTyped, MovesHold, NEW e \in Editors, NEW new, edit' = [edit EXCEPT ![e] = new],
         new.locked \subseteq Rows',
         new.at \in {"widen", "move"} => new.node \in new.locked /\ new.to \in new.locked \cup {Top},
         \A f \in Editors \ {e} : edit[f].locked \cap Rows \subseteq Rows'
  PROVE  MovesHold'
<1>1. edit'[e] = new /\ \A f \in Editors \ {e} : edit'[f] = edit[f]
  BY OthersStay
<1>2. ASSUME NEW f \in Editors
      PROVE  /\ edit'[f].locked \subseteq Rows'
             /\ edit'[f].at \in {"widen", "move"} =>
                  edit'[f].node \in edit'[f].locked /\ edit'[f].to \in edit'[f].locked \cup {Top}
  <2>1. CASE f = e
    BY <1>1, <2>1
  <2>2. CASE f # e
    <3>1. edit'[f] = edit[f] /\ edit[f].locked \cap Rows \subseteq Rows'
      BY <1>1, <2>2
    <3>2. /\ edit[f].locked \subseteq Rows
          /\ edit[f].at \in {"widen", "move"} =>
               edit[f].node \in edit[f].locked /\ edit[f].to \in edit[f].locked \cup {Top}
      BY DEF MovesHold
    <3> QED BY <3>1, <3>2
  <2> QED BY <2>1, <2>2
<1> QED BY <1>2 DEF MovesHold

NewIsAlone(e, new) ==
  /\ new.at = "create" =>
       new.node \notin Rows' /\ \A f \in Editors \ {e} : edit[f].node # new.node
  /\ \A f \in Editors \ {e} : edit[f].at = "create" =>
       edit[f].node \notin Rows' /\ new.node # edit[f].node

LEMMA CreatesStayNew ==
  ASSUME CatTyped, CreatesAreNew, NEW e \in Editors, NEW new, edit' = [edit EXCEPT ![e] = new],
         NewIsAlone(e, new)
  PROVE  CreatesAreNew'
<1>1. edit'[e] = new /\ \A f \in Editors \ {e} : edit'[f] = edit[f]
  BY OthersStay
<1>2. ASSUME NEW f \in Editors, edit'[f].at = "create"
      PROVE  edit'[f].node \notin Rows' /\ \A g \in Editors \ {f} : edit'[g].node # edit'[f].node
  <2>1. CASE f = e
    BY <1>1, <1>2, <2>1 DEF NewIsAlone
  <2>2. CASE f # e
    <3>1. edit'[f] = edit[f] /\ edit[f].at = "create"
      BY <1>1, <1>2, <2>2
    <3>2. edit[f].node \notin Rows' /\ new.node # edit[f].node
      BY <2>2, <3>1 DEF NewIsAlone
    <3>3. \A g \in Editors \ {f} : edit[g].node # edit[f].node
      BY <3>1 DEF CreatesAreNew
    <3> QED BY <1>1, <3>1, <3>2, <3>3
  <2> QED BY <2>1, <2>2
<1> QED BY <1>2 DEF CreatesAreNew

LEMMA ForestAfter ==
  ASSUME NEW r, Ranks(r)', \A c \in Rows' : r[c] <= MaxDepth,
         \A f \in Editors : \A c, p, L :
           edit'[f].at = "move" /\ c = edit'[f].node /\ p = edit'[f].to /\ L = edit'[f].locked
             => \E B \in SUBSET L : Movable(c, p, B, r)'
  PROVE  Forest(r)'
BY DEF Forest, Movable

(* A request that writes nothing, and whose next place fits the others'.   *)
Fits(e, new) ==
  /\ new \in EditRecord /\ (new.at # "rest" => new.node \in Nodes)
  /\ \A f \in Editors \ {e} : edit[f].locked \cap new.locked = {}
  /\ new.locked \subseteq Rows
  /\ new.at \in {"widen", "move"} => new.node \in new.locked /\ new.to \in new.locked \cup {Top}
  /\ new.at = "create" =>
       new.node \notin Rows /\ \A f \in Editors \ {e} : edit[f].node # new.node
  /\ \A f \in Editors \ {e} : edit[f].at = "create" => new.node # edit[f].node
  /\ ~overtaken /\ new.at = "widen" =>
       /\ new.level \subseteq new.locked
       /\ \A x \in new.locked \ (new.level \cup {new.to}) : Children({x}) \subseteq new.locked
  /\ ~overtaken /\ new.at = "move" =>
       \A r : Forest(r) => \E B \in SUBSET new.locked : Movable(new.node, new.to, B, r)

LEMMA EditAlone ==
  ASSUME CategoriesInv, NEW e \in Editors, NEW new, Fits(e, new),
         edit' = [edit EXCEPT ![e] = new], UNCHANGED <<parent, overtaken>>
  PROVE  CategoriesInv'
<1>1. Rows' = Rows /\ (\A S : Children(S)' = Children(S)) /\ overtaken' = overtaken
  BY DEF Rows, Children
<1>2. CatTyped /\ LocksApart /\ MovesHold /\ CreatesAreNew
  BY DEF CategoriesInv
<1>3. CatTyped'
  BY <1>2, EditIsTyped DEF CatTyped, Fits
<1>4. LocksApart'
  BY <1>2, LocksStayApart DEF Fits
<1>5. MovesHold'
  BY <1>1, <1>2, MovesStillHold DEF Fits
<1>6. CreatesAreNew'
  <2>1. \A f \in Editors \ {e} : edit[f].at = "create" => edit[f].node \notin Rows'
    BY <1>1, <1>2 DEF CreatesAreNew
  <2>2. NewIsAlone(e, new)
    BY <1>1, <2>1 DEF NewIsAlone, Fits
  <2> QED BY <1>2, <2>2, CreatesStayNew
<1>7. edit'[e] = new /\ \A f \in Editors \ {e} : edit'[f] = edit[f]
  BY <1>2, OthersStay
<1>8. ASSUME ~overtaken PROVE Widened' /\ \E r : Forest(r)'
  <2>1. PICK r : Forest(r)
    BY <1>8 DEF CategoriesInv
  <2>2. Widened'
    <3>1. Widened
      BY <1>8 DEF CategoriesInv
    <3> QED BY <1>1, <1>7, <1>8, <3>1 DEF Widened, Fits
  <2>3. Ranks(r)' /\ \A c \in Rows' : r[c] <= MaxDepth
    BY <1>1, <2>1 DEF Forest, Ranks
  <2>4. \A c, p, B : Movable(c, p, B, r)' <=> Movable(c, p, B, r)
    BY <1>1 DEF Movable
  <2>5. ASSUME NEW f \in Editors, NEW c, NEW p, NEW L,
               edit'[f].at = "move", c = edit'[f].node, p = edit'[f].to, L = edit'[f].locked
        PROVE  \E B \in SUBSET L : Movable(c, p, B, r)'
    <3>1. CASE f = e
      <4>1. new.at = "move" /\ c = new.node /\ p = new.to /\ L = new.locked
        BY <1>7, <2>5, <3>1
      <4>2. PICK B \in SUBSET L : Movable(c, p, B, r)
        BY <1>8, <2>1, <4>1 DEF Fits
      <4> QED BY <2>4, <4>2
    <3>2. CASE f # e
      <4>1. edit[f].at = "move" /\ c = edit[f].node /\ p = edit[f].to /\ L = edit[f].locked
        BY <1>7, <2>5, <3>2
      <4>2. PICK B \in SUBSET L : Movable(c, p, B, r)
        BY <2>1, <4>1 DEF Forest
      <4> QED BY <2>4, <4>2
    <3> QED BY <3>1, <3>2
  <2>6. Forest(r)'
    BY <2>3, <2>5, ForestAfter
  <2> QED BY <2>2, <2>6
<1> QED BY <1>1, <1>3, <1>4, <1>5, <1>6, <1>8 DEF CategoriesInv

-----------------------------------------------------------------------------
(* Once all the levels are locked, the check finds the whole of what the   *)
(* move takes along, and its room under the new parent.                    *)
LEMMA CheckedIsMovable ==
  ASSUME NEW r, Ranks(r), NEW c \in Rows, NEW p \in Rows \cup {Top}, p \notin Within(c),
         (IF p = Top THEN 0 ELSE Depth(p)) + Height(c) <= MaxDepth,
         NEW L \in SUBSET Nodes, c \in L, \A x \in L \ {p} : Children({x}) \subseteq L
  PROVE  Within(c) \subseteq L /\ Movable(c, p, Within(c), r)
<1> DEFINE B == Within(c)
<1>1. /\ B \in SUBSET Nodes /\ c \in B /\ Children(B) \subseteq B
      /\ \A T \in SUBSET Nodes : c \in T /\ Children(T) \subseteq T => B \subseteq T
  BY WithinIsLeast DEF Rows
<1> HIDE DEF B
<1>2. Rows \subseteq Nodes /\ Top \notin Nodes /\ MaxDepth \in Nat /\ IsFiniteSet(Nodes)
  BY CategoriesAssumption DEF Rows
<1>3. \A S : Children(S) \subseteq Rows /\ \A x \in Children(S) : parent[x] \in S
  BY DEF Children
<1>4. B \subseteq Rows
  BY <1>1, <1>2, <1>3
<1>5. B \subseteq L
  <2> DEFINE T == L \cap B
  <2>1. \A y \in Children(T) : y \in Children({parent[y]}) /\ parent[y] \in T
    BY DEF Children
  <2>2. p \notin T
    BY DEF B
  <2>3. Children(T) \subseteq Children(B)
    BY DEF Children
  <2>4. Children(T) \subseteq T
    BY <1>1, <2>1, <2>2, <2>3
  <2> QED BY <1>1, <2>4
<1>6. ASSUME NEW x \in B, x # c PROVE parent[x] \in B
  <2> DEFINE T == {y \in B : y = c \/ parent[y] \in B}
  <2>1. Children(T) \subseteq Children(B)
    BY DEF Children
  <2>2. Children(T) \subseteq T
    BY <1>1, <1>3, <2>1
  <2>3. B \subseteq T
    BY <1>1, <2>2
  <2> QED BY <1>6, <2>3
<1>7. \A x \in Rows : r[x] \in Nat
  BY <1>2 DEF Ranks
<1>8. ASSUME NEW x \in B PROVE r[x] >= r[c]
  <2> DEFINE T == {y \in B : r[y] >= r[c]}
  <2>1. Children(T) \subseteq Children(B)
    BY DEF Children
  <2>2. \A y \in Children(T) : y \in Rows /\ y \in B /\ parent[y] \in Rows /\ r[parent[y]] >= r[c]
    BY <1>1, <1>3, <1>4, <2>1
  <2>3. \A y \in Children(T) : r[y] = r[parent[y]] + 1
    BY <1>2, <2>2 DEF Ranks
  <2>4. \A y \in Children(T) : r[y] >= r[c]
    BY <1>7, <2>2, <2>3
  <2>5. Children(T) \subseteq T
    BY <2>2, <2>4
  <2>6. c \in T
    BY <1>1, <1>7
  <2>7. B \subseteq T
    BY <1>1, <2>5, <2>6
  <2> QED BY <2>7
<1>9. \A x \in Rows : Depth(x) = r[x]
  BY RankIsDepth
<1>10. ASSUME NEW x \in B PROVE r[x] - r[c] + 1 <= Height(c) /\ Height(c) \in Int
  <2> DEFINE D == {Depth(d) - Depth(c) : d \in B}
  <2>1. IsFiniteSet(B)
    BY <1>1, <1>2, FS_Subset
  <2>2. D \subseteq Int /\ r[x] - r[c] \in D
    BY <1>4, <1>7, <1>9
  <2>3. Height(c) = Max(D) + 1
    BY DEF Height, B
  <2>4. \E m \in D : \A n \in D : m >= n
    <3> DEFINE below == [d \in B |-> Depth(d) - Depth(c)]
    <3>1. \A d \in B : below[d] \in Int
      BY <1>4, <1>7, <1>9
    <3>2. \E d \in B : \A b \in B : below[d] >= below[b]
      <4> HIDE DEF below
      <4> QED BY <2>1, <3>1, LargestNumber
    <3>3. \A d \in B : below[d] \in D
      OBVIOUS
    <3>4. \A n \in D : \E d \in B : n = below[d]
      OBVIOUS
    <3> HIDE DEF below, D
    <3> QED BY <3>2, <3>3, <3>4
  <2> HIDE DEF D
  <2>5. Max(D) \in D /\ \A n \in D : Max(D) >= n
    BY <2>4 DEF Max
  <2>6. Max(D) \in Int /\ r[x] - r[c] \in Int
    BY <2>2, <2>5
  <2> QED BY <2>2, <2>3, <2>5, <2>6
<1>11. ASSUME NEW x \in B
       PROVE  (IF p = Top THEN 0 ELSE r[p]) + r[x] - r[c] + 1 <= MaxDepth
  <2> DEFINE high == IF p = Top THEN 0 ELSE r[p]
  <2>1. high \in Nat /\ high = IF p = Top THEN 0 ELSE Depth(p)
    BY <1>7, <1>9
  <2>2. high + Height(c) <= MaxDepth
    BY <2>1
  <2> HIDE DEF high
  <2>3. r[x] \in Nat /\ r[c] \in Nat
    BY <1>4, <1>7
  <2>4. high + r[x] - r[c] + 1 <= MaxDepth
    BY <1>2, <1>10, <2>1, <2>2, <2>3
  <2> QED BY <2>4 DEF high
<1>12. p \notin B
  BY DEF B
<1> QED BY <1>1, <1>4, <1>5, <1>6, <1>8, <1>11, <1>12 DEF Movable, B

LEMMA MoveChecked ==
  ASSUME CategoriesInv, NEW e \in Editors, CheckMove(e)
  PROVE  CategoriesInv'
<1>1. CatTyped /\ LocksApart /\ MovesHold /\ CreatesAreNew
  BY DEF CategoriesInv
<1>2. edit[e] \in EditRecord
  BY <1>1 DEF CatTyped
<1>3. PICK at \in {"rest", "widen", "move", "create", "read", "save"} : at = "move"
  OBVIOUS
<1> DEFINE c == edit[e].node
           p == edit[e].to
           L == edit[e].locked
           new == [edit[e] EXCEPT !.at = at]
<1>4. /\ edit[e].at = "widen" /\ edit[e].level = {} /\ p \in Rows \cup {Top} /\ p \notin Within(c)
      /\ (IF p = Top THEN 0 ELSE Depth(p)) + Height(c) <= MaxDepth
      /\ edit' = [edit EXCEPT ![e] = new] /\ UNCHANGED <<parent, overtaken>>
  BY <1>3, Zenon DEF CheckMove
<1>5. new \in EditRecord /\ new.at = "move" /\ new.node = c /\ new.to = p /\ new.locked = L
  BY <1>2, <1>3 DEF EditRecord
<1>6. L \subseteq Rows /\ c \in Rows \cap L /\ p \in (Rows \cap L) \cup {Top} /\ L \subseteq Nodes /\ c \in Nodes
  BY <1>1, <1>2, <1>4 DEF MovesHold, EditRecord, Rows
<1>7. ASSUME ~overtaken, NEW r, Forest(r) PROVE \E B \in SUBSET L : Movable(c, p, B, r)
  <2>1. \A x \in L \ {p} : Children({x}) \subseteq L
    BY <1>4, <1>7 DEF CategoriesInv, Widened
  <2>2. Ranks(r)
    BY <1>7 DEF Forest
  <2> HIDE DEF c, p, L
  <2>3. Within(c) \subseteq L /\ Movable(c, p, Within(c), r)
    BY <1>4, <1>6, <2>1, <2>2, CheckedIsMovable
  <2> QED BY <2>3
<1>8. \A f \in Editors \ {e} : edit[f].locked \cap L = {} /\ (edit[f].at = "create" => edit[f].node # c)
  BY <1>1, <1>6 DEF LocksApart, CreatesAreNew
<1> HIDE DEF new, c, p, L
<1>9. \A f \in Editors \ {e} : edit[f].locked \cap new.locked = {} /\ (edit[f].at = "create" => new.node # edit[f].node)
  BY <1>5, <1>8
<1>10. Fits(e, new)
  BY <1>4, <1>5, <1>6, <1>7, <1>9 DEF Fits
<1> QED BY <1>4, <1>5, <1>10, EditAlone

-----------------------------------------------------------------------------
LEMMA MoveBegun ==
  ASSUME CategoriesInv, NEW e \in Editors, NEW c \in Nodes, NEW p \in Nodes \cup {Top},
         BeginMove(e, c, p)
  PROVE  CategoriesInv'
<1> DEFINE new == [at |-> "widen", node |-> c, to |-> p, locked |-> RowsOfMove(c, p), level |-> {c}]
<1>1. /\ c \in Rows /\ p \in Rows \cup {Top} /\ edit' = [edit EXCEPT ![e] = new]
      /\ UNCHANGED <<parent, overtaken>> /\ \A f \in Editors \ {e} : edit[f].locked \cap RowsOfMove(c, p) = {}
  BY DEF BeginMove, Unlocked
<1>2. Top \notin Nodes
  BY CategoriesAssumption
<1>3. /\ new \in EditRecord /\ new.at = "widen" /\ new.node = c /\ new.to = p
      /\ new.locked = {c, p} \ {Top} /\ new.level = {c}
  BY DEF EditRecord, RowsOfMove
<1>4. \A f \in Editors \ {e} : edit[f].at = "create" => edit[f].node # c
  BY <1>1 DEF CategoriesInv, CreatesAreNew
<1>5. \A f \in Editors \ {e} : edit[f].locked \cap new.locked = {}
  BY <1>1 DEF RowsOfMove
<1> HIDE DEF new
<1>6. Fits(e, new)
  BY <1>1, <1>2, <1>3, <1>4, <1>5 DEF Fits
<1> QED BY <1>1, <1>6, EditAlone

LEMMA LevelWidened ==
  ASSUME CategoriesInv, NEW e \in Editors, Widen(e)
  PROVE  CategoriesInv'
<1>1. CatTyped /\ LocksApart /\ MovesHold /\ CreatesAreNew
  BY DEF CategoriesInv
<1> DEFINE rows == Children(edit[e].level)
           L == edit[e].locked
           new == [edit[e] EXCEPT !.level = rows, !.locked = @ \cup rows]
<1>2. /\ edit[e].at = "widen" /\ edit' = [edit EXCEPT ![e] = new] /\ UNCHANGED <<parent, overtaken>>
      /\ \A f \in Editors \ {e} : edit[f].locked \cap rows = {}
  BY DEF Widen, Unlocked
<1>3. rows \subseteq Rows /\ Rows \subseteq Nodes /\ edit[e] \in EditRecord
  BY <1>1 DEF Children, Rows, CatTyped
<1>4. \A x \in edit[e].level : Children({x}) \subseteq rows
  BY DEF Children
<1> HIDE DEF rows
<1>5. /\ new \in EditRecord /\ new.at = "widen" /\ new.node = edit[e].node /\ new.to = edit[e].to
      /\ new.locked = L \cup rows /\ new.level = rows
  BY <1>2, <1>3 DEF EditRecord
<1> HIDE DEF new
<1>6. /\ L \subseteq Rows /\ edit[e].node \in L /\ edit[e].to \in L \cup {Top}
      /\ \A f \in Editors \ {e} : edit[f].locked \cap L = {} /\ (edit[f].at = "create" => edit[f].node # edit[e].node)
  BY <1>1, <1>2 DEF MovesHold, LocksApart, CreatesAreNew
<1>7. ASSUME ~overtaken, NEW x \in new.locked \ (new.level \cup {new.to})
      PROVE  Children({x}) \subseteq new.locked
  <2>1. x \in L /\ x # edit[e].to
    BY <1>5, <1>7
  <2>2. \A y \in L \ (edit[e].level \cup {edit[e].to}) : Children({y}) \subseteq L
    BY <1>2, <1>7 DEF CategoriesInv, Widened
  <2> QED BY <1>4, <1>5, <2>1, <2>2
<1>8. Fits(e, new)
  BY <1>2, <1>3, <1>5, <1>6, <1>7 DEF Fits
<1> QED BY <1>2, <1>8, EditAlone

(* A request that holds no lock.                                           *)
LEMMA FitsUnlocked ==
  ASSUME CategoriesInv, NEW e \in Editors, NEW new \in EditRecord,
         new.at \in {"rest", "read", "save"}, new.at # "rest" => new.node \in Nodes,
         new.locked \subseteq edit[e].locked,
         \/ new.node = edit[e].node /\ edit[e].at # "create"
         \/ new.node \in Rows
         \/ new.node \notin Nodes
  PROVE  Fits(e, new)
<1>1. CatTyped /\ LocksApart /\ CreatesAreNew /\ edit[e].locked \subseteq Rows
  BY DEF CategoriesInv, MovesHold
<1>2. \A f \in Editors \ {e} : edit[f].locked \cap new.locked = {}
  BY <1>1 DEF LocksApart
<1>3. \A f \in Editors \ {e} : edit[f].at = "create" => new.node # edit[f].node
  BY <1>1 DEF CreatesAreNew, CatTyped
<1> QED BY <1>1, <1>2, <1>3 DEF Fits

LEMMA EditsRead ==
  ASSUME CategoriesInv, NEW e \in Editors,
         (\E c \in Nodes : ReadForEdit(e, c)) \/ CheckEdit(e) \/ GiveUpEdit(e)
  PROVE  CategoriesInv'
<1>1. CatTyped /\ edit[e] \in EditRecord
  BY DEF CategoriesInv, CatTyped
<1>2. Resting \in EditRecord /\ Resting.at = "rest" /\ Resting.node \notin Nodes /\ Resting.locked = {}
  BY CategoriesAssumption DEF Resting, EditRecord
<1>3. Fits(e, Resting)
  BY <1>2, FitsUnlocked
<1>4. ASSUME NEW c \in Nodes, ReadForEdit(e, c) PROVE CategoriesInv'
  <2>1. PICK at \in {"rest", "widen", "move", "create", "read", "save"} : at = "read"
    OBVIOUS
  <2> DEFINE new == [Resting EXCEPT !.at = at, !.node = c, !.to = parent[c]]
  <2>2. c \in Rows /\ edit' = [edit EXCEPT ![e] = new] /\ UNCHANGED <<parent, overtaken>>
    BY <1>4, <2>1, Zenon DEF ReadForEdit
  <2>3. parent[c] \in Nodes \cup {Top, Absent}
    BY <1>1 DEF CatTyped
  <2>4. new \in EditRecord /\ new.at = "read" /\ new.node = c /\ new.locked = {}
    BY <2>1, <2>3 DEF EditRecord, Resting
  <2> HIDE DEF new
  <2>5. Fits(e, new)
    BY <2>2, <2>4, FitsUnlocked
  <2> QED BY <2>2, <2>5, EditAlone
<1>5. ASSUME CheckEdit(e) PROVE CategoriesInv'
  <2>1. PICK at \in {"rest", "widen", "move", "create", "read", "save"} : at = "save"
    OBVIOUS
  <2> DEFINE settled == [edit[e] EXCEPT !.at = at]
  <2>2. /\ edit' = [edit EXCEPT ![e] = settled] \/ edit' = [edit EXCEPT ![e] = Resting]
        /\ UNCHANGED <<parent, overtaken>> /\ edit[e].at = "read"
    BY <1>5, <2>1, Zenon DEF CheckEdit
  <2>3. settled \in EditRecord /\ settled.at = "save" /\ settled.node = edit[e].node
        /\ settled.locked = edit[e].locked /\ settled.node \in Nodes
    BY <1>1, <2>1, <2>2 DEF EditRecord, CatTyped
  <2> HIDE DEF settled
  <2>4. Fits(e, settled)
    BY <2>2, <2>3, FitsUnlocked
  <2> QED BY <1>3, <2>2, <2>4, EditAlone
<1>6. ASSUME GiveUpEdit(e) PROVE CategoriesInv'
  BY <1>3, <1>6, EditAlone DEF GiveUpEdit
<1> QED BY <1>4, <1>5, <1>6

LEMMA CreateChecked ==
  ASSUME CategoriesInv, NEW e \in Editors, NEW c \in Nodes, NEW p \in Nodes \cup {Top},
         CheckCreate(e, c, p)
  PROVE  CategoriesInv'
<1>1. PICK at \in {"rest", "widen", "move", "create", "read", "save"} : at = "create"
  OBVIOUS
<1> DEFINE new == [Resting EXCEPT !.at = at, !.node = c, !.to = p]
<1>2. /\ c \notin Rows /\ (\A f \in Editors : edit[f].node # c)
      /\ edit' = [edit EXCEPT ![e] = new] /\ UNCHANGED <<parent, overtaken>>
  BY <1>1, Zenon DEF CheckCreate
<1>3. new \in EditRecord /\ new.at = "create" /\ new.node = c /\ new.locked = {}
  BY <1>1 DEF EditRecord, Resting
<1> HIDE DEF new
<1>4. Fits(e, new)
  BY <1>2, <1>3 DEF Fits
<1> QED BY <1>2, <1>4, EditAlone

(* A parent is written, and the request rests.                             *)
Writes(e, c, p) ==
  /\ e \in Editors /\ c \in Nodes /\ p \in Rows \cup {Top}
  /\ parent' = [parent EXCEPT ![c] = p] /\ edit' = [edit EXCEPT ![e] = Resting]
  /\ overtaken' \in BOOLEAN
  /\ \A f \in Editors \ {e} : edit[f].at = "create" => edit[f].node # c

LEMMA WrittenAlone ==
  ASSUME CategoriesInv, NEW e, NEW c, NEW p, Writes(e, c, p)
  PROVE  /\ CatTyped' /\ LocksApart' /\ MovesHold' /\ CreatesAreNew'
         /\ Rows' = Rows \cup {c} /\ parent'[c] = p /\ (\A x \in Nodes \ {c} : parent'[x] = parent[x])
         /\ \A f \in Editors : edit'[f].at # "rest" => f # e /\ edit'[f] = edit[f]
<1>1. CatTyped /\ LocksApart /\ MovesHold /\ CreatesAreNew
  BY DEF CategoriesInv
<1> USE DEF Writes
<1>2. parent'[c] = p /\ (\A x \in Nodes \ {c} : parent'[x] = parent[x])
      /\ parent' \in [Nodes -> Nodes \cup {Top, Absent}]
  BY <1>1 DEF CatTyped, Rows
<1>3. Rows' = Rows \cup {c}
  BY <1>2, CategoriesAssumption DEF Rows
<1>4. Resting.at = "rest" /\ Resting.locked = {} /\ Resting.node \notin Nodes /\ Resting \in EditRecord
  BY CategoriesAssumption DEF Resting, EditRecord
<1>5. CatTyped'
  BY <1>1, <1>2, <1>4, EditIsTyped
<1>6. LocksApart'
  BY <1>1, <1>4, LocksStayApart
<1>7. MovesHold'
  BY <1>1, <1>3, <1>4, MovesStillHold
<1>8. CreatesAreNew'
  <2>1. \A f \in Editors \ {e} : edit[f].at = "create" => edit[f].node \notin Rows' /\ edit[f].node \in Nodes
    BY <1>1, <1>3 DEF CreatesAreNew, CatTyped
  <2>2. NewIsAlone(e, Resting)
    BY <1>4, <2>1 DEF NewIsAlone
  <2> QED BY <1>1, <2>2, CreatesStayNew
<1>9. \A f \in Editors : edit'[f].at # "rest" => f # e /\ edit'[f] = edit[f]
  BY <1>1, <1>4, OthersStay
<1> QED BY <1>2, <1>3, <1>5, <1>6, <1>7, <1>8, <1>9

(* The others' moves, when a parent is written outside what they hold.     *)
OutsideOf(f, changed, r, s) ==
  /\ \A x \in Nodes : parent'[x] = parent[x] \/ x \in changed
  /\ edit[f].at \in {"widen", "move"} =>
       /\ \A x \in changed : x \notin edit[f].locked /\ parent'[x] \notin edit[f].locked
       /\ \A x \in edit[f].locked : s[x] = r[x]

WidenedNext(f) ==
  edit'[f].at = "widen" =>
    /\ edit'[f].level \subseteq edit'[f].locked
    /\ \A x \in edit'[f].locked \ (edit'[f].level \cup {edit'[f].to}) :
         Children({x})' \subseteq edit'[f].locked

MovableNext(f, s) ==
  \A c, p, L :
    edit'[f].at = "move" /\ c = edit'[f].node /\ p = edit'[f].to /\ L = edit'[f].locked
      => \E B \in SUBSET L : Movable(c, p, B, s)'

LEMMA OthersMoves ==
  ASSUME CategoriesInv, ~overtaken, NEW r, Forest(r), NEW f \in Editors, edit'[f] = edit[f],
         NEW changed, NEW s, OutsideOf(f, changed, r, s)
  PROVE  WidenedNext(f) /\ MovableNext(f, s)
<1> USE DEF OutsideOf
<1>1. Widened /\ CatTyped /\ MovesHold
  BY DEF CategoriesInv
<1>2. edit[f] \in EditRecord /\ edit[f].locked \subseteq Nodes
  BY <1>1 DEF CatTyped, EditRecord
<1>3. ASSUME edit[f].at = "widen", NEW x \in edit[f].locked \ (edit[f].level \cup {edit[f].to})
      PROVE  Children({x})' \subseteq edit[f].locked
  <2>1. \A y \in Nodes : parent'[y] = parent[y] \/ parent'[y] \notin {x}
    BY <1>3
  <2>2. Children({x})' \subseteq Children({x})
    BY <1>2, <1>3, <2>1, ChildrenStay
  <2> QED BY <1>1, <1>3, <2>2 DEF Widened
<1>4. ASSUME NEW c, NEW p, NEW L, edit[f].at = "move", c = edit[f].node, p = edit[f].to, L = edit[f].locked
      PROVE  \E B \in SUBSET L : Movable(c, p, B, s)'
  <2>1. PICK B \in SUBSET L : Movable(c, p, B, r)
    BY <1>4 DEF Forest
  <2>2. p \in (Nodes \cap L) \cup {Top}
    BY <1>1, <1>4 DEF MovesHold, Rows
  <2>3. \A x \in Nodes : parent'[x] = parent[x] \/ (x \notin B /\ parent'[x] \notin B)
    BY <1>4
  <2>4. (\A x \in B : s[x] = r[x]) /\ (p # Top => s[p] = r[p])
    BY <1>4, <2>2
  <2>5. Movable(c, p, B, s)'
    BY <2>1, <2>2, <2>3, <2>4, MovableStays
  <2> QED BY <2>5
<1>5. edit[f].at = "widen" => edit[f].level \subseteq edit[f].locked
  BY <1>1 DEF Widened
<1>6. WidenedNext(f)
  BY <1>3, <1>5 DEF WidenedNext
<1>7. MovableNext(f, s)
  BY <1>4 DEF MovableNext
<1> QED BY <1>6, <1>7

-----------------------------------------------------------------------------
LEMMA WidenedAfter == ASSUME \A f \in Editors : WidenedNext(f) PROVE Widened'
BY DEF Widened, WidenedNext, Children, Rows

(* What a write must leave: the ranks of a forest that is not too deep,    *)
(* and those that another move holds.                                      *)
Regrown(e, r) ==
  \E s, changed :
    /\ Ranks(s)' /\ \A x \in Rows' : s[x] <= MaxDepth
    /\ \A f \in Editors \ {e} : OutsideOf(f, changed, r, s)

LEMMA WriteKeeps ==
  ASSUME CategoriesInv, NEW e, NEW c, NEW p, Writes(e, c, p),
         ~overtaken' => ~overtaken /\ \A r : Forest(r) => Regrown(e, r)
  PROVE  CategoriesInv'
<1>1. /\ CatTyped' /\ LocksApart' /\ MovesHold' /\ CreatesAreNew'
      /\ \A f \in Editors : edit'[f].at # "rest" => f # e /\ edit'[f] = edit[f]
  BY WrittenAlone
<1>2. ASSUME ~overtaken' PROVE Widened' /\ \E r : Forest(r)'
  <2>1. PICK r : Forest(r)
    BY <1>2 DEF CategoriesInv
  <2>2. Regrown(e, r)
    BY <1>2, <2>1
  <2>3. PICK s, changed :
          /\ Ranks(s)' /\ \A x \in Rows' : s[x] <= MaxDepth
          /\ \A f \in Editors \ {e} : OutsideOf(f, changed, r, s)
    BY <2>2 DEF Regrown
  <2>4. ASSUME NEW f \in Editors PROVE WidenedNext(f) /\ MovableNext(f, s)
    <3>1. CASE edit'[f].at = "rest"
      BY <3>1 DEF WidenedNext, MovableNext
    <3>2. CASE edit'[f].at # "rest"
      <4>1. f \in Editors \ {e} /\ edit'[f] = edit[f]
        BY <1>1, <3>2
      <4>2. OutsideOf(f, changed, r, s)
        BY <2>3, <4>1
      <4> QED BY <1>2, <2>1, <4>1, <4>2, OthersMoves
    <3> QED BY <3>1, <3>2
  <2>5. Widened'
    BY <2>4, WidenedAfter
  <2>6. Forest(s)'
    BY <2>3, <2>4, ForestAfter DEF MovableNext
  <2> QED BY <2>5, <2>6
<1> QED BY <1>1, <1>2 DEF CategoriesInv

LEMMA MoveCommitted ==
  ASSUME CategoriesInv, NEW e \in Editors, CommitMove(e)
  PROVE  CategoriesInv'
<1>1. CatTyped /\ LocksApart /\ MovesHold /\ CreatesAreNew
  BY DEF CategoriesInv
<1>2. PICK c, p, L : c = edit[e].node /\ p = edit[e].to /\ L = edit[e].locked
  OBVIOUS
<1>3. /\ edit[e].at = "move" /\ p \in Rows \cup {Top} /\ parent' = [parent EXCEPT ![c] = p]
      /\ edit' = [edit EXCEPT ![e] = Resting] /\ overtaken' = overtaken
  BY <1>2 DEF CommitMove
<1>4. c \in Rows \cap L /\ p \in (Rows \cap L) \cup {Top} /\ c \in Nodes
  BY <1>1, <1>2, <1>3 DEF MovesHold, Rows
<1>5. \A f \in Editors \ {e} : edit[f].locked \cap L = {} /\ (edit[f].at = "create" => edit[f].node # c)
  BY <1>1, <1>2, <1>4 DEF LocksApart, CreatesAreNew
<1>6. Top \notin Nodes /\ Absent \notin Nodes /\ Top # Absent /\ MaxDepth \in Nat /\ Rows \subseteq Nodes
  BY CategoriesAssumption DEF Rows
<1>7. /\ parent'[c] = p /\ \A x \in Nodes \ {c} : parent'[x] = parent[x]
      /\ Rows' = Rows
  <2>1. parent'[c] = p /\ \A x \in Nodes \ {c} : parent'[x] = parent[x]
    BY <1>1, <1>3, <1>4 DEF CatTyped
  <2>2. Rows' = Rows
    BY <1>4, <1>6, <2>1 DEF Rows
  <2> QED BY <2>1, <2>2
<1>8. ASSUME ~overtaken, NEW r, Forest(r)
      PROVE  Regrown(e, r)
  <2>1. PICK B \in SUBSET L : Movable(c, p, B, r)
    BY <1>2, <1>3, <1>8 DEF Forest
  <2> DEFINE high == IF p = Top THEN 0 ELSE r[p]
             s == [x \in Nodes |-> IF x \in B THEN high + r[x] - r[c] + 1 ELSE r[x]]
  <2>2. r \in [Nodes -> Nat] /\ high \in Nat /\ \A x \in Rows : r[x] <= MaxDepth
    BY <1>4, <1>6, <1>8 DEF Forest, Ranks
  <2>3. /\ B \subseteq Rows /\ c \in B /\ p \notin B
        /\ \A x \in B : (x # c => parent[x] \in B) /\ r[x] >= r[c] /\ high + r[x] - r[c] + 1 <= MaxDepth
    BY <2>1 DEF Movable
  <2>4. \A x \in Rows \ B : parent[x] \notin B
    BY <2>1 DEF Movable, Children
  <2> HIDE DEF high
  <2>5. s \in [Nodes -> Nat]
    BY <1>6, <2>2, <2>3
  <2>6. (\A x \in B : s[x] = high + r[x] - r[c] + 1) /\ (\A x \in Nodes \ B : s[x] = r[x])
    BY <1>6, <2>3
  <2> HIDE DEF s
  <2>7. ASSUME NEW x \in Rows
        PROVE  \/ parent'[x] = Top /\ s[x] = 1
               \/ parent'[x] \in Rows /\ s[x] = s[parent'[x]] + 1
    <3>1. \/ parent[x] = Top /\ r[x] = 1
          \/ parent[x] \in Rows /\ r[x] = r[parent[x]] + 1
      BY <1>8 DEF Forest, Ranks
    <3>2. CASE x = c
      <4>1. parent'[x] = p /\ s[x] = high + 1
        BY <1>6, <1>7, <2>2, <2>3, <2>6, <3>2
      <4>2. CASE p = Top
        BY <4>1, <4>2 DEF high
      <4>3. CASE p # Top
        BY <1>4, <1>6, <2>3, <2>6, <4>1, <4>3 DEF high
      <4> QED BY <4>2, <4>3
    <3>3. CASE x \in B /\ x # c
      <4>1. parent'[x] = parent[x] /\ parent[x] \in B /\ parent[x] \in Rows /\ parent[x] # Top
        BY <1>6, <1>7, <2>3, <3>3
      <4>2. r[x] = r[parent[x]] + 1
        BY <3>1, <4>1
      <4>3. r[x] \in Nat /\ r[parent[x]] \in Nat /\ r[c] \in Nat
        BY <1>4, <1>6, <2>2, <4>1
      <4> QED BY <2>2, <2>6, <3>3, <4>1, <4>2, <4>3
    <3>4. CASE x \notin B
      <4>1. parent'[x] = parent[x] /\ parent[x] \notin B /\ s[x] = r[x]
        BY <1>6, <1>7, <2>3, <2>4, <2>6, <3>4
      <4> QED BY <1>6, <2>6, <3>1, <4>1
    <3> QED BY <3>2, <3>3, <3>4
  <2>8. Ranks(s)'
    BY <1>7, <2>5, <2>7 DEF Ranks
  <2>9. \A x \in Rows' : s[x] <= MaxDepth
    BY <1>6, <1>7, <2>2, <2>3, <2>6
  <2>10. ASSUME NEW f \in Editors \ {e} PROVE OutsideOf(f, {c}, r, s)
    <3>1. edit[f].locked \cap L = {} /\ edit[f].locked \subseteq Nodes
      BY <1>1, <1>5 DEF CatTyped, EditRecord
    <3> QED BY <1>4, <1>6, <1>7, <2>6, <3>1 DEF OutsideOf
  <2> QED BY <2>8, <2>9, <2>10 DEF Regrown
<1>9. Writes(e, c, p)
  BY <1>1, <1>3, <1>4, <1>5 DEF CatTyped, Writes
<1> QED BY <1>3, <1>8, <1>9, WriteKeeps

-----------------------------------------------------------------------------
LEMMA RowCreated ==
  ASSUME CategoriesInv, NEW e \in Editors, Create(e)
  PROVE  CategoriesInv'
<1>1. CatTyped /\ MovesHold /\ CreatesAreNew
  BY DEF CategoriesInv
<1>2. PICK c, p : c = edit[e].node /\ p = edit[e].to
  OBVIOUS
<1>3. /\ edit[e].at = "create" /\ p \in Rows \cup {Top} /\ parent' = [parent EXCEPT ![c] = p]
      /\ edit' = [edit EXCEPT ![e] = Resting]
      /\ \A f \in Editors \ {e} : edit[f].locked \cap ({p} \ {Top}) = {}
      /\ overtaken' = (overtaken \/ (p # Top /\ Depth(p) + 1 > MaxDepth))
  BY <1>2 DEF Create, Unlocked
<1>4. c \in Nodes /\ c \notin Rows /\ \A f \in Editors \ {e} : edit[f].node # c
  BY <1>1, <1>2, <1>3 DEF CatTyped, CreatesAreNew
<1>5. Top \notin Nodes /\ Absent \notin Nodes /\ Top # Absent /\ MaxDepth \in Nat \ {0} /\ Rows \subseteq Nodes
  BY CategoriesAssumption DEF Rows
<1>6. /\ parent'[c] = p /\ (\A x \in Nodes \ {c} : parent'[x] = parent[x])
      /\ Rows' = Rows \cup {c}
  <2>1. parent'[c] = p /\ \A x \in Nodes \ {c} : parent'[x] = parent[x]
    BY <1>1, <1>3, <1>4 DEF CatTyped
  <2>2. Rows' = Rows \cup {c}
    BY <1>3, <1>4, <1>5, <2>1 DEF Rows
  <2> QED BY <2>1, <2>2
<1>7. ASSUME ~overtaken', NEW r, Forest(r) PROVE Regrown(e, r)
  <2> DEFINE high == IF p = Top THEN 0 ELSE r[p]
             s == [r EXCEPT ![c] = high + 1]
  <2>1. r \in [Nodes -> Nat] /\ (\A x \in Rows : r[x] <= MaxDepth) /\ Ranks(r)
    BY <1>7 DEF Forest, Ranks
  <2>2. high \in Nat /\ high + 1 <= MaxDepth
    <3>1. CASE p = Top
      BY <1>5, <3>1
    <3>2. CASE p # Top
      <4>1. p \in Rows /\ ~(Depth(p) + 1 > MaxDepth)
        BY <1>3, <1>7, <3>2
      <4>2. Depth(p) = r[p] /\ r[p] \in Nat
        BY <1>5, <2>1, <4>1, RankIsDepth
      <4> QED BY <1>5, <3>2, <4>1, <4>2
    <3> QED BY <3>1, <3>2
  <2>3. s \in [Nodes -> Nat] /\ s[c] = high + 1 /\ \A x \in Nodes \ {c} : s[x] = r[x]
    BY <1>4, <2>1, <2>2
  <2> HIDE DEF s
  <2>4. ASSUME NEW x \in Rows'
        PROVE  \/ parent'[x] = Top /\ s[x] = 1
               \/ parent'[x] \in Rows' /\ s[x] = s[parent'[x]] + 1
    <3>1. CASE x = c
      <4>1. parent'[x] = p /\ s[x] = high + 1
        BY <1>6, <2>3, <3>1
      <4>2. CASE p = Top
        BY <4>1, <4>2
      <4>3. CASE p # Top
        <5>1. p \in Rows /\ p # c /\ p \in Nodes /\ high = r[p]
          BY <1>3, <1>4, <1>5, <4>3
        <5>2. s[p] = r[p]
          BY <2>3, <5>1
        <5> QED BY <1>6, <4>1, <5>1, <5>2
      <4> QED BY <4>2, <4>3
    <3>2. CASE x # c
      <4>1. x \in Rows /\ x \in Nodes \ {c} /\ parent'[x] = parent[x] /\ s[x] = r[x]
        BY <1>5, <1>6, <2>3, <3>2
      <4>2. \/ parent[x] = Top /\ r[x] = 1
            \/ parent[x] \in Rows /\ r[x] = r[parent[x]] + 1
        BY <2>1, <4>1 DEF Ranks
      <4>3. parent[x] \in Rows => s[parent[x]] = r[parent[x]]
        BY <1>4, <1>5, <2>3
      <4> QED BY <1>6, <4>1, <4>2, <4>3
    <3> QED BY <3>1, <3>2
  <2>5. Ranks(s)'
    BY <2>3, <2>4 DEF Ranks
  <2>6. \A x \in Rows' : s[x] <= MaxDepth
    BY <1>5, <1>6, <2>1, <2>2, <2>3
  <2>7. ASSUME NEW f \in Editors \ {e} PROVE OutsideOf(f, {c}, r, s)
    <3>1. edit[f].locked \subseteq Rows /\ c \notin edit[f].locked
      BY <1>1, <1>4 DEF MovesHold
    <3> QED BY <1>3, <1>5, <1>6, <2>3, <3>1 DEF OutsideOf
  <2> QED BY <2>5, <2>6, <2>7 DEF Regrown
<1>8. overtaken' \in BOOLEAN
  BY <1>3, Zenon
<1>9. Writes(e, c, p)
  BY <1>3, <1>4, <1>8 DEF Writes
<1>10. ~overtaken' => ~overtaken
  BY <1>3
<1> QED BY <1>7, <1>9, <1>10, WriteKeeps

LEMMA EditSaved ==
  ASSUME CategoriesInv, NEW e \in Editors, SaveEdit(e)
  PROVE  CategoriesInv'
<1>1. CatTyped /\ CreatesAreNew
  BY DEF CategoriesInv
<1>2. PICK c, p : c = edit[e].node /\ p = edit[e].to
  OBVIOUS
<1>3. /\ edit[e].at = "save" /\ p \in Rows \cup {Top} /\ parent' = [parent EXCEPT ![c] = p]
      /\ edit' = [edit EXCEPT ![e] = Resting]
      /\ overtaken' = (overtaken \/ parent[c] # p)
  BY <1>2 DEF SaveEdit
<1>4. c \in Nodes /\ \A f \in Editors \ {e} : edit[f].at = "create" => edit[f].node # c
  BY <1>1, <1>2, <1>3 DEF CatTyped, CreatesAreNew
<1>5. ASSUME ~overtaken', NEW r, Forest(r) PROVE Regrown(e, r)
  <2>1. parent' = parent
    BY <1>1, <1>3, <1>4, <1>5 DEF CatTyped
  <2>2. Ranks(r)' /\ \A x \in Rows' : r[x] <= MaxDepth
    BY <1>5, <2>1 DEF Forest, Ranks, Rows
  <2>3. \A f \in Editors \ {e} : OutsideOf(f, {}, r, r)
    BY <2>1 DEF OutsideOf
  <2> QED BY <2>2, <2>3 DEF Regrown
<1>6. overtaken' \in BOOLEAN
  BY <1>3, Zenon
<1>7. Writes(e, c, p)
  BY <1>3, <1>4, <1>6 DEF Writes
<1>8. ~overtaken' => ~overtaken
  BY <1>3
<1> QED BY <1>5, <1>7, <1>8, WriteKeeps

LEMMA RowDeleted ==
  ASSUME CategoriesInv, NEW c \in Nodes, DeleteCategory(c)
  PROVE  CategoriesInv'
<1>1. CatTyped /\ LocksApart /\ MovesHold /\ CreatesAreNew
  BY DEF CategoriesInv
<1>2. /\ c \in Rows /\ Children({c}) = {} /\ (\A f \in Editors : c \notin edit[f].locked)
      /\ parent' = [parent EXCEPT ![c] = Absent] /\ edit' = edit /\ overtaken' = overtaken
  BY DEF DeleteCategory
<1>3. /\ parent'[c] = Absent /\ (\A x \in Nodes \ {c} : parent'[x] = parent[x])
      /\ Rows' = Rows \ {c}
  <2>1. parent'[c] = Absent /\ \A x \in Nodes \ {c} : parent'[x] = parent[x]
    BY <1>1, <1>2 DEF CatTyped
  <2> QED BY <2>1 DEF Rows
<1>4. Absent \notin Nodes /\ Rows \subseteq Nodes
  BY CategoriesAssumption DEF Rows
<1>5. CatTyped'
  <2>1. parent' \in [Nodes -> Nodes \cup {Top, Absent}]
    BY <1>1, <1>2 DEF CatTyped
  <2> QED BY <1>1, <1>2, <2>1 DEF CatTyped
<1>6. LocksApart' /\ CreatesAreNew'
  BY <1>1, <1>2, <1>3 DEF LocksApart, CreatesAreNew
<1>7. MovesHold'
  BY <1>1, <1>2, <1>3 DEF MovesHold
<1>8. ASSUME ~overtaken PROVE Widened' /\ \E r : Forest(r)'
  <2>1. PICK r : Forest(r)
    BY <1>8 DEF CategoriesInv
  <2>2. \A f \in Editors : edit'[f] = edit[f] /\ OutsideOf(f, {c}, r, r)
    <3>1. \A f \in Editors : edit[f].locked \subseteq Nodes
      BY <1>1 DEF CatTyped, EditRecord
    <3> QED BY <1>2, <1>3, <1>4, <3>1 DEF OutsideOf
  <2>3. \A f \in Editors : WidenedNext(f) /\ MovableNext(f, r)
    BY <1>8, <2>1, <2>2, OthersMoves
  <2>4. Widened'
    BY <2>3, WidenedAfter
  <2>5. \A x \in Rows' : parent'[x] = parent[x] /\ x \in Rows /\ parent[x] # c
    BY <1>2, <1>3, <1>4 DEF Children
  <2>6. Ranks(r)' /\ \A x \in Rows' : r[x] <= MaxDepth
    <3>1. Ranks(r) /\ \A x \in Rows : r[x] <= MaxDepth
      BY <2>1 DEF Forest
    <3> QED BY <1>3, <2>5, <3>1 DEF Ranks
  <2>7. Forest(r)'
    BY <2>3, <2>6, ForestAfter DEF MovableNext
  <2> QED BY <2>4, <2>7
<1> QED BY <1>2, <1>5, <1>6, <1>7, <1>8 DEF CategoriesInv

LEMMA ForestSteps == CategoriesInv /\ [CatNext]_catVars => CategoriesInv'
<1> SUFFICES ASSUME CategoriesInv, [CatNext]_catVars PROVE CategoriesInv'
  OBVIOUS
<1>1. CASE UNCHANGED catVars
  <2>1. Rows' = Rows /\ (\A S : Children(S)' = Children(S)) /\ edit' = edit /\ parent' = parent
        /\ overtaken' = overtaken
    BY <1>1 DEF Rows, Children, catVars
  <2>2. CatTyped' /\ LocksApart' /\ MovesHold' /\ CreatesAreNew'
    BY <2>1 DEF CategoriesInv, CatTyped, LocksApart, MovesHold, CreatesAreNew
  <2>3. Widened' <=> Widened
    BY <2>1 DEF Widened
  <2>4. ASSUME NEW r, Forest(r) PROVE Forest(r)'
    <3>1. Ranks(r)' /\ \A x \in Rows' : r[x] <= MaxDepth
      BY <2>1, <2>4 DEF Forest, Ranks
    <3>2. \A x, p, B : Movable(x, p, B, r) => Movable(x, p, B, r)'
      BY <2>1 DEF Movable
    <3>3. \A f \in Editors : MovableNext(f, r)
      BY <2>1, <2>4, <3>2 DEF Forest, MovableNext
    <3> QED BY <3>1, <3>3, ForestAfter DEF MovableNext
  <2> QED BY <2>1, <2>2, <2>3, <2>4 DEF CategoriesInv
<1>2. CASE \E c \in Nodes : DeleteCategory(c)
  BY <1>2, RowDeleted
<1>3. ASSUME NEW e \in Editors, NEW c \in Nodes, NEW p \in Nodes \cup {Top},
             BeginMove(e, c, p) \/ CheckCreate(e, c, p)
      PROVE  CategoriesInv'
  BY <1>3, MoveBegun, CreateChecked
<1>4. ASSUME NEW e \in Editors,
             (\E c \in Nodes : ReadForEdit(e, c)) \/ CheckEdit(e) \/ GiveUpEdit(e)
      PROVE  CategoriesInv'
  BY <1>4, EditsRead
<1>5. ASSUME NEW e \in Editors, Widen(e) \/ CheckMove(e) \/ CommitMove(e) \/ Create(e) \/ SaveEdit(e)
      PROVE  CategoriesInv'
  BY <1>5, LevelWidened, MoveChecked, MoveCommitted, RowCreated, EditSaved
<1> QED BY <1>1, <1>2, <1>3, <1>4, <1>5, Zenon DEF CatNext

(* Of any number of categories and levels, and however many requests move, *)
(* create, rename and delete at once, the tree stays a forest of at most   *)
(* MaxDepth levels, until an unlocked write overtakes its own check.       *)
THEOREM CategoriesCorrect == CatSpec => []TreeIsSound
<1> QED BY ForestInitially, ForestSteps, ForestIsSound, PTL DEF CatSpec

-----------------------------------------------------------------------------
(* PUBLICATION.  What a form brings is a row of the product and states of  *)
(* its variants.                                                           *)
LEMMA FormIsTyped ==
  ASSUME NEW row \in Product, NEW vs \in [Numbers -> States], NEW new \in WithNew(row, vs)
  PROVE  new[1] \in Product /\ new[2] \in [Numbers -> States] /\ new[3] \subseteq Numbers
<1> USE PublicationAssumption
<1>1. CASE new = <<row, vs, {}>>
  BY <1>1
<1>2. CASE new # <<row, vs, {}>>
  <2>1. PICK s \in {"active", "inactive"} :
          /\ HasNumber(row, vs)
          /\ new = <<[row EXCEPT !.next = @ + 1], [vs EXCEPT ![row.next] = s], {row.next}>>
    BY <1>2, Zenon DEF WithNew
  <2>2. row.next \in Numbers
    BY <2>1 DEF HasNumber, Product, Numbers
  <2>3. [row EXCEPT !.next = @ + 1] \in Product
    BY <2>2 DEF Product, Numbers
  <2>4. [vs EXCEPT ![row.next] = s] \in [Numbers -> States]
    BY <2>1, <2>2 DEF States
  <2> QED BY <2>1, <2>2, <2>3, <2>4
<1> QED BY <1>1, <1>2

LEMMA StateIsTyped ==
  ASSUME NEW row \in Product, NEW vs \in [Numbers -> States], NEW after \in WithState(row, vs)
  PROVE  after \in [Numbers -> States]
BY DEF WithState, States, Active

(* What is published has an active variant, if what was published had one. *)
LEMMA PublicationIsSound ==
  ASSUME NEW row \in Product, NEW vs, NEW new \in WithPublication(row, vs)
  PROVE  new \in Product /\ (new.sellable => row.sellable \/ Active(vs) # {})
BY DEF WithPublication, Product

(* A change of state leaves a product on sale its last active variant, and *)
(* a new variant takes none away.                                          *)
LEMMA LastStays ==
  ASSUME NEW row \in Product, NEW vs \in [Numbers -> States], NEW after \in WithState(row, vs),
         row.sellable, Active(vs) # {}
  PROVE  Active(after) # {}
<1>1. CASE after = vs
  BY <1>1
<1>2. CASE \E n \in Numbers : after = [vs EXCEPT ![n] = "active"]
  BY <1>2 DEF Active
<1>3. CASE \E n \in Active(vs) : MayLeave(row.sellable, vs, n) /\ after = [vs EXCEPT ![n] = "inactive"]
  <2>1. PICK n \in Active(vs) : Active(vs) # {n} /\ after = [vs EXCEPT ![n] = "inactive"]
    BY <1>3 DEF MayLeave, LastActive
  <2>2. PICK m \in Active(vs) : m # n
    BY <2>1
  <2>3. m \in Active(after)
    BY <2>1, <2>2 DEF Active
  <2> QED BY <2>3
<1> QED BY <1>1, <1>2, <1>3 DEF WithState

LEMMA NewTakesNone ==
  ASSUME NEW row \in Product, NEW vs \in [Numbers -> States], NEW new \in WithNew(row, vs),
         Active(vs) # {}
  PROVE  Active(new[2]) # {} /\ new[1].sellable = row.sellable
<1>1. CASE new = <<row, vs, {}>>
  BY <1>1
<1>2. CASE new # <<row, vs, {}>>
  <2>1. PICK s \in {"active", "inactive"} :
          /\ HasNumber(row, vs)
          /\ new = <<[row EXCEPT !.next = @ + 1], [vs EXCEPT ![row.next] = s], {row.next}>>
    BY <1>2, Zenon DEF WithNew
  <2>2. PICK m \in Active(vs) : vs[m] = "active" /\ m # row.next
    BY <2>1 DEF Active, HasNumber
  <2>3. m \in Active(new[2])
    BY <2>1, <2>2 DEF Active
  <2> QED BY <2>1, <2>3 DEF Product
<1> QED BY <1>1, <1>2

PubInv == PubTypeOK /\ SellableHasVariant

LEMMA PubInitially == PubInit => PubInv
<1> SUFFICES ASSUME PubInit PROVE PubInv
  OBVIOUS
<1>1. [sellable |-> FALSE, next |-> 1] \in Product
  BY PublicationAssumption DEF Product
<1>2. NoDraft \in [at : {"idle", "loaded", "checked"}, copy : Product]
  BY <1>1 DEF NoDraft
<1>3. PubTypeOK
  BY <1>1, <1>2 DEF PubInit, PubTypeOK, States
<1>4. ~product.sellable
  BY DEF PubInit
<1> QED BY <1>3, <1>4 DEF PubInv, SellableHasVariant

LEMMA PubSteps == PubInv /\ [PubNext]_pubVars => PubInv'
<1> SUFFICES ASSUME PubInv, [PubNext]_pubVars PROVE PubInv'
  OBVIOUS
<1> USE PublicationAssumption
<1>1. /\ product \in Product /\ variant \in [Numbers -> States] /\ given \subseteq Numbers
      /\ draft \in [Writers -> [at : {"idle", "loaded", "checked"}, copy : Product]]
      /\ raced \in BOOLEAN /\ SellableHasVariant
  BY DEF PubInv, PubTypeOK
<1>2. NoDraft \in [at : {"idle", "loaded", "checked"}, copy : Product]
  BY DEF NoDraft, Product
<1>3. ASSUME NEW e \in Writers, LoadProduct(e) PROVE PubInv'
  <2>1. draft' = [draft EXCEPT ![e] = [at |-> "loaded", copy |-> product]]
        /\ UNCHANGED <<product, variant, given, raced>>
    BY <1>3 DEF LoadProduct
  <2>2. draft' \in [Writers -> [at : {"idle", "loaded", "checked"}, copy : Product]]
    BY <1>1, <2>1
  <2> QED BY <1>1, <2>1, <2>2 DEF PubInv, PubTypeOK, SellableHasVariant, Active
<1>4. ASSUME NEW e \in Writers, CheckProduct(e) PROVE PubInv'
  <2>1. draft' = [draft EXCEPT ![e].at = "checked"] /\ UNCHANGED <<product, variant, given, raced>>
    BY <1>4 DEF CheckProduct
  <2>2. draft' \in [Writers -> [at : {"idle", "loaded", "checked"}, copy : Product]]
    BY <1>1, <2>1
  <2> QED BY <1>1, <2>1, <2>2 DEF PubInv, PubTypeOK, SellableHasVariant, Active
<1>5. ASSUME NEW e \in Writers, SaveProduct(e) PROVE PubInv'
  <2> DEFINE copy == draft[e].copy
  <2>1. copy \in Product
    BY <1>1
  <2>0. PICK new \in WithNew(copy, variant) :
           /\ given' = given \cup new[3]
           /\ \E vs \in WithState(new[1], new[2]) :
                variant' = vs /\ product' \in WithPublication(new[1], vs)
    BY <1>5 DEF SaveProduct
  <2>2. PICK vs \in WithState(new[1], new[2]) :
          /\ new \in WithNew(copy, variant)
          /\ given' = given \cup new[3] /\ variant' = vs
          /\ product' \in WithPublication(new[1], vs)
    BY <2>0
  <2>3. /\ new[1] \in Product /\ new[2] \in [Numbers -> States] /\ new[3] \subseteq Numbers
    BY <1>1, <2>1, <2>2, FormIsTyped
  <2>4. vs \in [Numbers -> States]
    BY <2>2, <2>3, StateIsTyped
  <2>5. product' \in Product /\ (product'.sellable => new[1].sellable \/ Active(vs) # {})
    BY <2>2, <2>3, PublicationIsSound
  <2>6. draft' \in [Writers -> [at : {"idle", "loaded", "checked"}, copy : Product]]
        /\ raced' = (raced \/ ~SaveMayGo(copy))
    BY <1>1, <1>2, <1>5 DEF SaveProduct
  <2>7. raced' \in BOOLEAN
    BY <1>1, <2>6, Zenon DEF SaveMayGo
  <2>8. ASSUME product'.sellable, ~raced' PROVE Active(vs) # {}
    <3>1. SaveMayGo(copy)
      BY <2>6, <2>8
    <3>2. CASE copy.sellable
      <4>1. Active(variant) # {}
        BY <3>1, <3>2 DEF SaveMayGo
      <4>2. Active(new[2]) # {} /\ new[1].sellable
        BY <1>1, <2>1, <2>2, <3>2, <4>1, NewTakesNone
      <4> QED BY <2>2, <2>3, <4>2, LastStays
    <3>3. CASE ~copy.sellable
      <4>1. new[1].sellable => copy.sellable
        BY <2>1, <2>2 DEF WithNew, Product
      <4> QED BY <2>5, <2>8, <3>3, <4>1
    <3> QED BY <3>2, <3>3
  <2>9. Active(variant)' = Active(vs)
    BY <2>2 DEF Active
  <2> QED BY <1>1, <2>2, <2>3, <2>4, <2>5, <2>6, <2>7, <2>8, <2>9
       DEF PubInv, PubTypeOK, SellableHasVariant
<1>6. ASSUME NEW e \in Writers, DropDraft(e) PROVE PubInv'
  <2>1. draft' = [draft EXCEPT ![e] = NoDraft] /\ UNCHANGED <<product, variant, given, raced>>
    BY <1>6 DEF DropDraft
  <2> QED BY <1>1, <1>2, <2>1 DEF PubInv, PubTypeOK, SellableHasVariant, Active
<1>7. ASSUME NEW n \in Numbers, DeleteVariant(n) PROVE PubInv'
  <2>1. /\ variant' = [variant EXCEPT ![n] = "none"] /\ UNCHANGED <<product, given, draft, raced>>
        /\ ~(product.sellable /\ Active(variant) = {n})
    BY <1>7 DEF DeleteVariant, MayLeave, LastActive
  <2>2. variant' \in [Numbers -> States]
    BY <1>1, <2>1 DEF States
  <2>3. ASSUME product.sellable, ~raced PROVE \E m \in Numbers : variant'[m] = "active"
    <3>1. PICK m \in Numbers : variant[m] = "active" /\ m # n
      BY <1>1, <2>1, <2>3 DEF SellableHasVariant, Active
    <3> QED BY <1>1, <2>1, <3>1
  <2> QED BY <1>1, <2>1, <2>2, <2>3 DEF PubInv, PubTypeOK, SellableHasVariant, Active
<1>8. CASE UNCHANGED pubVars
  BY <1>1, <1>8 DEF pubVars, PubInv, PubTypeOK, SellableHasVariant, Active
<1> QED
  <2>1. CASE PubNext
    BY <1>3, <1>4, <1>5, <1>6, <1>7, <2>1 DEF PubNext
  <2> QED BY <1>8, <2>1

(* A product on sale has an active variant, for any number of editors and  *)
(* of variants (catalog/models.py, services.py).                           *)
THEOREM PublicationCorrect == PubSpec => [](PubTypeOK /\ SellableHasVariant)
<1>1. PubInv => PubTypeOK /\ SellableHasVariant
  BY DEF PubInv
<1> QED BY <1>1, PubInitially, PubSteps, PTL DEF PubSpec

-----------------------------------------------------------------------------
(* THE PRODUCT LIST.  No promotion adds to a price: a variant that costs   *)
(* enough at the price charged costs enough at the list price.             *)
LEMMA PromotionsLower ==
  ASSUME NEW v \in Variant
  PROVE  Effective(v) \in Int /\ Effective(v) <= v.price
<1>1. v.price \in Nat /\ v.percentage \in 0..100
  BY CatalogueAssumption DEF Variant
<1>2. \A a \in Nat, b \in 0..100 : a * b \in Nat
  OBVIOUS
<1>3. \A n \in Nat : n \div 100 \in Int /\ n \div 100 >= 0
  OBVIOUS
<1>4. (v.price * v.percentage) \div 100 \in Int /\ (v.price * v.percentage) \div 100 >= 0
  BY <1>1, <1>2, <1>3
<1>5. \A a \in Nat, b \in Int : b >= 0 => a - b \in Int /\ a - b <= a
  OBVIOUS
<1> QED BY <1>1, <1>4, <1>5 DEF Effective

(* What _variant_matches finds the candidates' query has not sieved out.   *)
LEMMA SieveLosesNothing ==
  ASSUME shelf \subseteq Variant, NEW q \in Query,
         Stocked(q), \E v \in OnShelf : Matches(v, q)
  PROVE  Candidate(q)
<1>1. PICK v \in OnShelf : Matches(v, q)
  OBVIOUS
<1>2. v \in Variant /\ v.price \in Nat
  BY CatalogueAssumption, <1>1 DEF OnShelf, Variant
<1>3. q.attribute # Unset => v.value = q.attribute
  BY <1>1 DEF Matches
<1>4. q.minimum # Unset => q.minimum \in Nat /\ Effective(v) >= q.minimum
  BY CatalogueAssumption, <1>1 DEF Matches, Query
<1>5. q.minimum # Unset => v.price >= q.minimum
  <2>1. \A a, b, c \in Int : a >= b /\ a <= c => c >= b
    OBVIOUS
  <2> QED BY <1>2, <1>4, <2>1, PromotionsLower
<1> QED BY <1>1, <1>3, <1>5 DEF Candidate, SieveByPrice

ShopInv == ShopTypeOK /\ FilterIsExact

LEMMA AskIsExact ==
  ASSUME ShopTypeOK, NEW q \in Query, Ask(q)
  PROVE  ShopInv'
<1>1. /\ shelf \subseteq Variant /\ shelf' = shelf /\ query' = q
      /\ answer' = IF QueryCatalog(q) THEN "listed" ELSE "left out"
  BY DEF ShopTypeOK, Ask
<1>2. answer' \in {"none", "listed", "left out"} /\ (answer' = "listed" <=> QueryCatalog(q))
  BY <1>1
<1>3. IsCommercial(q) => (QueryCatalog(q) <=> (Stocked(q) /\ \E v \in OnShelf : Matches(v, q)))
  BY <1>1, SieveLosesNothing DEF QueryCatalog, Candidate
<1>4. OnShelf' = OnShelf
  BY <1>1 DEF OnShelf
<1>5. /\ IsCommercial(query)' <=> IsCommercial(q)
      /\ Stocked(query)' <=> Stocked(q)
      /\ (\E v \in OnShelf : Matches(v, query))' <=> \E v \in OnShelf : Matches(v, q)
  BY <1>1, <1>4, Zenon DEF IsCommercial, Stocked, Matches
<1>6. FilterIsExact'
  BY <1>2, <1>3, <1>5, Zenon DEF FilterIsExact
<1> QED BY <1>1, <1>2, <1>6 DEF ShopInv, ShopTypeOK

LEMMA ShopSteps == ShopInv /\ [ShopNext]_shopVars => ShopInv'
<1> SUFFICES ASSUME ShopInv, [ShopNext]_shopVars PROVE ShopInv'
  OBVIOUS
<1>1. CASE ShopNext
  BY <1>1, AskIsExact DEF ShopNext, ShopInv
<1>2. CASE UNCHANGED shopVars
  <2>1. shelf' = shelf /\ query' = query /\ answer' = answer
    BY <1>2 DEF shopVars
  <2>2. OnShelf' = OnShelf
    BY <2>1 DEF OnShelf
  <2>3. ShopTypeOK'
    BY <2>1 DEF ShopInv, ShopTypeOK
  <2>4. /\ IsCommercial(query)' <=> IsCommercial(query)
        /\ Stocked(query)' <=> Stocked(query)
        /\ (\E v \in OnShelf : Matches(v, query))' <=> \E v \in OnShelf : Matches(v, query)
    BY <2>1, <2>2, Zenon DEF IsCommercial, Stocked, Matches
  <2> QED BY <2>1, <2>3, <2>4, Zenon DEF ShopInv, FilterIsExact
<1> QED BY <1>1, <1>2

LEMMA ShopInitially == ShopInit => ShopInv
<1> SUFFICES ASSUME ShopInit PROVE ShopInv
  OBVIOUS
<1>1. AnyQuery \in Query
  BY DEF AnyQuery, Query
<1>2. shelf \subseteq Variant
  BY DEF ShopInit, Shelves
<1> QED BY <1>1, <1>2 DEF ShopInit, ShopInv, ShopTypeOK, FilterIsExact

(* A query about prices lists a product exactly when one of its variants   *)
(* meets every filter, for any prices, limits and promotions.              *)
THEOREM CatalogueCorrect == ShopSpec => [](ShopTypeOK /\ FilterIsExact)
<1>1. ShopInv => ShopTypeOK /\ FilterIsExact
  BY DEF ShopInv
<1> QED BY <1>1, ShopInitially, ShopSteps, PTL DEF ShopSpec
=============================================================================
