---------------------------- MODULE MCStorefront ----------------------------
(***************************************************************************)
(* The components of the shop, its catalogue and its upkeep, for TLC.      *)
(* They share no state: each behaviour takes the steps of one of them, and *)
(* the others stay as they begin.                                          *)
(***************************************************************************)
EXTENDS Support, Carts, Rates, Purchase, Categories, Images, CatalogCache, Publication,
        Catalogue, Accounts, Addresses, Rollups, Backups

VARIABLE part

TwoPolicies == {[type |-> "exact", value |-> 5, free |-> NoThreshold],
                [type |-> "percentage", value |-> 50, free |-> 30]}

Parts == {"support", "carts", "rates", "purchase", "categories", "images", "cache", "publication",
          "catalogue", "accounts", "addresses", "rollups", "backups"}

(* A component that may begin in many states does so in its own behaviours.*)
SfInit ==
  /\ part \in Parts
  /\ SuppInit /\ ImgInit /\ CacheInit /\ PubInit /\ AccInit /\ BackupsInit
  /\ RollInit
  /\ AddrInit /\ (part = "addresses" \/ address = NewAddress)
  /\ CartInit /\ (part = "carts" \/ limit = [v \in Variants |-> 0])
  /\ CatInit /\ (part = "categories" \/ parent = [c \in Nodes |-> Absent])
  /\ RatesInit /\ (part = "rates" \/ setup = [c \in Carriers |-> NotUsable])
  /\ PurchaseInit /\ (part = "purchase" \/ place = CHOOSE p \in Places : TRUE)
  /\ IF part = "catalogue" THEN ShopInit ELSE shelf = {} /\ query = AnyQuery /\ answer = "none"

AtRest ==
  /\ UNCHANGED part
  /\ part # "support" => UNCHANGED suppVars
  /\ part # "carts" => UNCHANGED cartVars
  /\ part # "rates" => UNCHANGED rateVars
  /\ part # "purchase" => UNCHANGED purchaseVars
  /\ part # "categories" => UNCHANGED catVars
  /\ part # "images" => UNCHANGED imgVars
  /\ part # "cache" => UNCHANGED cacheVars
  /\ part # "publication" => UNCHANGED pubVars
  /\ part # "catalogue" => UNCHANGED shopVars
  /\ part # "accounts" => UNCHANGED accVars
  /\ part # "backups" => UNCHANGED bakVars
  /\ part # "addresses" => UNCHANGED addrVars
  /\ part # "rollups" => UNCHANGED rollVars

SfNext ==
  \/ part = "support" /\ SuppNext /\ AtRest
  \/ part = "carts" /\ CartNext /\ AtRest
  \/ part = "rates" /\ RatesNext /\ AtRest
  \/ part = "purchase" /\ PurchaseNext /\ AtRest
  \/ part = "categories" /\ CatNext /\ AtRest
  \/ part = "images" /\ ImgNext /\ AtRest
  \/ part = "cache" /\ CacheNext /\ AtRest
  \/ part = "publication" /\ PubNext /\ AtRest
  \/ part = "catalogue" /\ ShopNext /\ AtRest
  \/ part = "accounts" /\ AccNext /\ AtRest
  \/ part = "backups" /\ BackupsNext /\ AtRest
  \/ part = "addresses" /\ AddrNext /\ AtRest
  \/ part = "rollups" /\ RollNext /\ AtRest

SfSpec ==
  SfInit /\ [][SfNext]_<<part, suppVars, cartVars, rateVars, purchaseVars, catVars, imgVars,
                         cacheVars, pubVars, shopVars, accVars, addrVars, rollVars, bakVars>>

(* The types of the components' states (see each).                         *)
SfTypeOK ==
  /\ SuppTypeOK /\ CartTypeOK /\ RatesTypeOK /\ PurchaseTypeOK /\ CatTypeOK /\ ImgTypeOK
  /\ CacheTypeOK /\ PubTypeOK /\ ShopTypeOK /\ AccTypeOK /\ AddrTypeOK /\ RollTypeOK
  /\ BackupsTypeOK

(* A case takes messages while it is open, and a request opens one.        *)
CasesAreSound == ClosedIsClosed /\ OneCasePerRequest

(* The category tree is one, and what is sold can be bought.               *)
CatalogueIsSound == TreeIsSound /\ SellableHasVariant

(* What a backup, and what a restore, promise of their copies.             *)
BackupsAreWhole == CompletedIsKept /\ RestoredIsWhole

(* No row names a file that is not there: a message's, a picture's.        *)
FilesExist == AttachmentHasFile /\ ImageExists
=============================================================================
