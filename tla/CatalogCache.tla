---------------------------- MODULE CatalogCache ----------------------------
(***************************************************************************)
(* The versioned cache of the public catalogue (catalog/cache.py): a       *)
(* writer moves the version after its transaction has committed, and       *)
(* readers keep what they read under a key with the version they saw.      *)
(* Categories and branding are read after the key is made, the facets of   *)
(* the product list are counted over products read before it.  Cache and   *)
(* database are apart: every call to one of them is a step.                *)
(***************************************************************************)
EXTENDS Integers

CONSTANTS
  Clients,    \* requests of public pages
  MaxWrites   \* bound: committed changes of the catalogue

ASSUME CacheAssumption == MaxWrites \in Nat

(* The catalogue is known by the number of its last change, and the        *)
(* version moves once for each change at most; 0 is a key that is missing. *)
Changes == 0..MaxWrites
Versions == 1..(MaxWrites + 1)
Nothing == -1
Kinds == {"page", "facets"}

VARIABLES
  catalogue,   \* last committed change
  version,     \* the version key
  entry,       \* what is kept of each kind under each version
  unannounced, \* committed changes whose invalidation has still to run
  announced,   \* last change whose invalidation has run
  fetch,       \* each request; "floor" is announced when it began
  emptied      \* the cache was emptied at some time

cacheVars == <<catalogue, version, entry, unannounced, announced, fetch, emptied>>

NoFetch == [at |-> "idle", kind |-> "page", key |-> 1, value |-> Nothing, floor |-> 0]

CacheInit ==
  /\ catalogue = 0 /\ version = 0
  /\ entry = [k \in Kinds |-> [v \in Versions |-> Nothing]]
  /\ unannounced = {} /\ announced = 0
  /\ fetch = [r \in Clients |-> NoFetch]
  /\ emptied = FALSE

-----------------------------------------------------------------------------
Newer(a, b) == IF a > b THEN a ELSE b

(* A transaction with a change of the catalogue commits: one callback for  *)
(* all its signals; one that is rolled back has none.                      *)
CommitChange ==
  /\ catalogue < MaxWrites
  /\ catalogue' = catalogue + 1
  /\ unannounced' = unannounced \cup {catalogue + 1}
  /\ UNCHANGED <<version, entry, announced, fetch, emptied>>

(* bump_catalog_cache_version: a missing key is added, else incremented.   *)
Bump(c) ==
  /\ c \in unannounced
  /\ unannounced' = unannounced \ {c}
  /\ version' = version + 1
  /\ announced' = Newer(announced, c)
  /\ UNCHANGED <<catalogue, entry, fetch, emptied>>

(* The worker is killed after its commit, or the cache does not answer.    *)
LoseBump(c) ==
  /\ c \in unannounced
  /\ unannounced' = unannounced \ {c}
  /\ UNCHANGED <<catalogue, version, entry, announced, fetch, emptied>>

-----------------------------------------------------------------------------
(* query_catalog: the products of the answer, before the key of its facets *)
(* is made.                                                                *)
ReadProducts(r) ==
  /\ fetch[r].at = "idle"
  /\ fetch' = [fetch EXCEPT ![r] = [NoFetch EXCEPT !.at = "key", !.kind = "facets",
                                                   !.value = catalogue, !.floor = announced]]
  /\ UNCHANGED <<catalogue, version, entry, unannounced, announced, emptied>>

(* catalog_cache_version adds the version if there is none.                *)
TakeKey(r) ==
  /\ fetch[r].at \in {"idle", "key"}
  /\ version' = Newer(version, 1)
  /\ fetch' = [fetch EXCEPT ![r].at = "look", ![r].key = Newer(version, 1),
                            ![r].floor = IF fetch[r].at = "idle" THEN announced ELSE @]
  /\ UNCHANGED <<catalogue, entry, unannounced, announced, emptied>>

Found(r) == entry[fetch[r].kind][fetch[r].key]

LookUp(r) ==
  /\ fetch[r].at = "look"
  /\ fetch' = [fetch EXCEPT ![r] =
       IF Found(r) # Nothing THEN [@ EXCEPT !.at = "served", !.value = Found(r)]
       ELSE [@ EXCEPT !.at = IF fetch[r].kind = "page" THEN "read" ELSE "store"]]
  /\ UNCHANGED <<catalogue, version, entry, unannounced, announced, emptied>>

ReadDatabase(r) ==
  /\ fetch[r].at = "read"
  /\ fetch' = [fetch EXCEPT ![r].at = "store", ![r].value = catalogue]
  /\ UNCHANGED <<catalogue, version, entry, unannounced, announced, emptied>>

(* The key is the one of the lookup; the other form asks for it again.     *)
KeyNow(r) == Newer(version, 1)
KeyUsed(r) == fetch[r].key

StoreEntry(r) ==
  /\ fetch[r].at = "store"
  /\ entry' = [entry EXCEPT ![fetch[r].kind][KeyUsed(r)] = fetch[r].value]
  /\ fetch' = [fetch EXCEPT ![r].at = "served"]
  /\ UNCHANGED <<catalogue, version, unannounced, announced, emptied>>

Return(r) ==
  /\ fetch[r].at = "served"
  /\ fetch' = [fetch EXCEPT ![r] = NoFetch]
  /\ UNCHANGED <<catalogue, version, entry, unannounced, announced, emptied>>

(* An entry's time is over; or the cache is emptied, its version with it.  *)
ExpireEntry(k, v) ==
  /\ entry[k][v] # Nothing
  /\ entry' = [entry EXCEPT ![k][v] = Nothing]
  /\ UNCHANGED <<catalogue, version, unannounced, announced, fetch, emptied>>

EmptyCache ==
  /\ ~emptied /\ emptied' = TRUE
  /\ version' = 0
  /\ entry' = [k \in Kinds |-> [v \in Versions |-> Nothing]]
  /\ UNCHANGED <<catalogue, unannounced, announced, fetch>>

CacheNext ==
  \/ CommitChange \/ EmptyCache
  \/ \E c \in Changes : Bump(c) \/ LoseBump(c)
  \/ \E r \in Clients :
       \/ ReadProducts(r) \/ TakeKey(r) \/ LookUp(r) \/ ReadDatabase(r)
       \/ StoreEntry(r) \/ Return(r)
  \/ \E k \in Kinds, v \in Versions : ExpireEntry(k, v)

CacheSpec == CacheInit /\ [][CacheNext]_cacheVars

-----------------------------------------------------------------------------
CacheTypeOK ==
  /\ catalogue \in Changes /\ version \in 0..(MaxWrites + 1) /\ announced \in Changes
  /\ entry \in [Kinds -> [Versions -> Changes \cup {Nothing}]]
  /\ unannounced \subseteq Changes /\ emptied \in BOOLEAN
  /\ fetch \in [Clients -> [at : {"idle", "key", "look", "read", "store", "served"}, kind : Kinds,
                            key : Versions, value : Changes \cup {Nothing}, floor : Changes]]

(* A request of categories or branding is served them as they are after    *)
(* every change whose invalidation had run when the request began,         *)
(* whichever requests were half way through storing an older one, as long  *)
(* as the cache has not been emptied, which brings old versions back       *)
(* (catalog/cache.py:11-25, api_views.py:187-191).  Facets have no such    *)
(* promise: a slow request keeps old ones under a new version.             *)
FreshIsServed ==
  ~emptied => \A r \in Clients :
    fetch[r].at = "served" /\ fetch[r].kind = "page" => fetch[r].value >= fetch[r].floor
=============================================================================
