------------------------------- MODULE Images -------------------------------
(***************************************************************************)
(* An image of the landing page or of a product: its row, its original and *)
(* its responsive derivatives (landing/models.py, catalog/models.py,       *)
(* config/media.py).  Files are outside of the database: a save stores the *)
(* new ones inside its transaction and deletes the superseded ones after   *)
(* it, which in the panel is still inside the transaction of the request.  *)
(***************************************************************************)

CONSTANTS
  Pictures,    \* uploaded files, under names that are never used twice
  Painters,    \* requests that change the image
  NoPicture

ASSUME ImagesAssumption == NoPicture \notin Pictures /\ Pictures # {}

VARIABLES
  shown,      \* the committed row: its file and the file of its derivatives
  originals,  \* files that are stored
  derived,    \* files whose derivatives are stored
  uploaded,   \* names that have been used
  paint,      \* each request
  held,       \* requests that hold the row's lock (one at most)
  harmed      \* see TakesRisk

imgVars == <<shown, originals, derived, uploaded, paint, held, harmed>>

Row == [file : Pictures \cup {NoPicture}, made : Pictures \cup {NoPicture}]
NoRow == [file |-> NoPicture, made |-> NoPicture]
NoPaint == [at |-> "idle", loaded |-> NoRow, copy |-> NoRow, previous |-> NoRow, outer |-> FALSE]

ImgInit ==
  /\ LET f == CHOOSE g \in Pictures : TRUE IN
       /\ shown = [file |-> f, made |-> f]
       /\ originals = {f} /\ derived = {f} /\ uploaded = {f}
  /\ paint = [p \in Painters |-> NoPaint]
  /\ held = {}
  /\ harmed = FALSE

-----------------------------------------------------------------------------
Changed(p) == paint[p].previous.file # paint[p].copy.file
Without(names) == originals' = originals \ names /\ derived' = derived \ names

(* The instance is loaded, and its file kept, replaced or cleared; the     *)
(* panel's views run the whole save in a transaction of their own.         *)
LoadImage(p) ==
  /\ paint[p].at = "idle"
  /\ \E f \in {shown.file, NoPicture} \cup (Pictures \ uploaded), outer \in BOOLEAN :
       /\ paint' = [paint EXCEPT ![p] = [at |-> "loaded", loaded |-> shown,
                      copy |-> [shown EXCEPT !.file = f], previous |-> NoRow, outer |-> outer]]
       /\ uploaded' = uploaded \cup ({f} \ {NoPicture})
  /\ UNCHANGED <<shown, originals, derived, held, harmed>>

ReadPrevious(p) ==
  /\ paint[p].at = "loaded"
  /\ paint' = [paint EXCEPT ![p].at = "read", ![p].previous = shown]
  /\ UNCHANGED <<shown, originals, derived, uploaded, held, harmed>>

(* The file that was uploaded is stored and the row is written and locked. *)
WriteImage(p) ==
  /\ paint[p].at = "read" /\ held = {}
  /\ held' = {p}
  /\ originals' = originals \cup
       (IF paint[p].copy.file # paint[p].loaded.file THEN {paint[p].copy.file} \ {NoPicture} ELSE {})
  /\ paint' = [paint EXCEPT ![p].at = "derive"]
  /\ UNCHANGED <<shown, derived, uploaded, harmed>>

(* Derivatives are made of a file that changed or that has none, if it can *)
(* be read.                                                                *)
Derive(p) ==
  LET f == paint[p].copy.file IN
  /\ paint[p].at = "derive"
  /\ LET needed == f # NoPicture /\ (Changed(p) \/ paint[p].copy.made = NoPicture)
         readable == f \in originals IN
     /\ derived' = IF needed /\ readable THEN derived \cup {f} ELSE derived
     /\ paint' = [paint EXCEPT
          ![p].at = "saved",
          ![p].copy.made = IF f = NoPicture \/ (needed /\ ~readable) THEN NoPicture
                           ELSE IF needed THEN f ELSE @]
  /\ UNCHANGED <<shown, originals, uploaded, held, harmed>>

(* The encoder or the database fails: the row is rolled back and the files *)
(* of this save are removed; the other form removes the row's file even    *)
(* when it did not change.                                                 *)
AnyAssets(p) == {paint[p].copy.file}
FailedAssets(p) == IF Changed(p) THEN {paint[p].copy.file} ELSE {}

DeriveFails(p) ==
  /\ paint[p].at = "derive" /\ paint[p].copy.file # NoPicture
  /\ Without(FailedAssets(p))
  /\ held' = held \ {p}
  /\ paint' = [paint EXCEPT ![p] = NoPaint]
  /\ UNCHANGED <<shown, uploaded, harmed>>

(* The row says what the request read before it, or names a file that      *)
(* another request has removed.                                            *)
TakesRisk(p) == shown # paint[p].loaded \/ shown # paint[p].previous

Publish(p) ==
  /\ shown' = paint[p].copy
  /\ held' = held \ {p}
  /\ harmed' = (harmed \/ TakesRisk(p))

(* Without a transaction around it the save commits and then deletes ...   *)
CommitImage(p) ==
  /\ paint[p].at = "saved" /\ ~paint[p].outer
  /\ Publish(p)
  /\ paint' = [paint EXCEPT ![p].at = "supersede"]
  /\ UNCHANGED <<originals, derived, uploaded>>

(* ... and inside of one it deletes first.                                 *)
Supersede(p) ==
  /\ \/ paint[p].at = "supersede"
     \/ paint[p].at = "saved" /\ paint[p].outer
  /\ Without(IF Changed(p) THEN {paint[p].previous.file} ELSE {})
  /\ paint' = [paint EXCEPT ![p] = IF @.outer THEN [@ EXCEPT !.at = "audit"] ELSE NoPaint]
  /\ UNCHANGED <<shown, uploaded, held, harmed>>

CommitRequest(p) ==
  /\ paint[p].at = "audit"
  /\ Publish(p)
  /\ paint' = [paint EXCEPT ![p] = NoPaint]
  /\ UNCHANGED <<originals, derived, uploaded>>

(* The request fails or its worker is killed: only the row comes back.     *)
RequestIsLost(p) ==
  /\ paint[p].at # "idle"
  /\ held' = held \ {p}
  /\ harmed' = (harmed \/ (paint[p].at = "audit" /\ Changed(p)))
  /\ paint' = [paint EXCEPT ![p] = NoPaint]
  /\ UNCHANGED <<shown, originals, derived, uploaded>>

ImgNext ==
  \E p \in Painters :
    \/ LoadImage(p) \/ ReadPrevious(p) \/ WriteImage(p) \/ Derive(p) \/ DeriveFails(p)
    \/ CommitImage(p) \/ Supersede(p) \/ CommitRequest(p) \/ RequestIsLost(p)

ImgSpec == ImgInit /\ [][ImgNext]_imgVars

-----------------------------------------------------------------------------
ImgTypeOK ==
  /\ shown \in Row /\ held \subseteq Painters /\ harmed \in BOOLEAN
  /\ originals \subseteq Pictures /\ derived \subseteq Pictures /\ uploaded \subseteq Pictures
  /\ paint \in [Painters -> [at : {"idle", "loaded", "read", "derive", "saved", "supersede", "audit"},
                             loaded : Row, copy : Row, previous : Row, outer : BOOLEAN]]

(* The file and the derivatives that the row names are stored, through     *)
(* failures of the encoder, lost requests and requests at once, as long as *)
(* no row was written over another's, no request was rolled back after its *)
(* deletions and none is between its deletions and its commit              *)
(* (landing/models.py:275-344, catalog/models.py:222-262).                 *)
ImageExists ==
  ~harmed /\ (\A p \in Painters : paint[p].at # "audit") =>
    /\ shown.file # NoPicture => shown.file \in originals
    /\ shown.made # NoPicture => shown.made \in derived
=============================================================================
