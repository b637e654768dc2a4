----------------------------- MODULE Categories -----------------------------
(***************************************************************************)
(* The category tree (catalog/services.py, catalog/models.py and the       *)
(* management serializer): categories are created, edited and moved by     *)
(* several people at once.                                                 *)
(*                                                                         *)
(* A move locks the category, its new parent and then, level by level, the *)
(* category's descendants before it looks for a cycle and for the depth.   *)
(* Creating and editing look first and write afterwards, with no lock.     *)
(***************************************************************************)
EXTENDS Integers, FiniteSets, FiniteSetsExt

CONSTANTS
  Nodes,      \* categories
  Editors,    \* requests of the panel
  MaxDepth,   \* levels of a tree: five in the code
  Top, Absent \* no parent, no row

ASSUME CategoriesAssumption ==
  /\ {Top, Absent} \cap Nodes = {} /\ Top # Absent /\ MaxDepth \in Nat \ {0}
  /\ IsFiniteSet(Nodes)

VARIABLES
  parent,   \* Category.parent_id
  edit,     \* where each request is, and what it has read
  overtaken \* an unlocked write landed on a row that had moved meanwhile

catVars == <<parent, edit, overtaken>>

Resting == [at |-> "rest", node |-> Absent, to |-> Absent, locked |-> {}, level |-> {}]
Rows == {c \in Nodes : parent[c] # Absent}
Children(S) == {c \in Rows : parent[c] \in S}
Unlocked(e, S) == \A f \in Editors \ {e} : edit[f].locked \cap S = {}

(* A category and its descendants, a category and its ancestors.           *)
Within(c) ==
  LET reach[n \in Nat] == IF n = 0 THEN {c} ELSE reach[n - 1] \cup Children(reach[n - 1])
  IN reach[Cardinality(Nodes)]
Above(c) ==
  LET reach[n \in Nat] == IF n = 0 THEN {c} \ {Top}
                          ELSE reach[n - 1] \cup ({parent[a] : a \in reach[n - 1]} \ {Top})
  IN reach[Cardinality(Nodes)]

(* _category_depth and _subtree_height.                                    *)
Depth(c) == Cardinality(Above(c))
Height(c) == Max({Depth(d) - Depth(c) : d \in Within(c)}) + 1

-----------------------------------------------------------------------------
CatInit ==
  /\ parent \in [Nodes -> {Top, Absent}]
  /\ edit = [e \in Editors |-> Resting]
  /\ overtaken = FALSE

(* move_category takes the row and the new parent's; the other form takes  *)
(* its own row alone.                                                      *)
OwnRowOnly(c, p) == {c}
RowsOfMove(c, p) == {c, p} \ {Top}

BeginMove(e, c, p) ==
  /\ edit[e].at = "rest" /\ c \in Rows /\ p \in Rows \cup {Top} /\ p # parent[c]
  /\ Unlocked(e, RowsOfMove(c, p))
  /\ edit' = [edit EXCEPT ![e] = [at |-> "widen", node |-> c, to |-> p,
                                  locked |-> RowsOfMove(c, p), level |-> {c}]]
  /\ UNCHANGED <<parent, overtaken>>

(* Then the descendants, a level at a time.                                *)
Widen(e) ==
  LET rows == Children(edit[e].level) IN
  /\ edit[e].at = "widen" /\ edit[e].level # {}
  /\ Unlocked(e, rows)
  /\ edit' = [edit EXCEPT ![e].level = rows, ![e].locked = @ \cup rows]
  /\ UNCHANGED <<parent, overtaken>>

CheckMove(e) ==
  LET c == edit[e].node
      p == edit[e].to IN
  /\ edit[e].at = "widen" /\ edit[e].level = {}
  /\ p \in Rows \cup {Top} /\ p \notin Within(c)
  /\ (IF p = Top THEN 0 ELSE Depth(p)) + Height(c) <= MaxDepth
  /\ edit' = [edit EXCEPT ![e].at = "move"]
  /\ UNCHANGED <<parent, overtaken>>

CommitMove(e) ==
  /\ edit[e].at = "move" /\ edit[e].to \in Rows \cup {Top}
  /\ parent' = [parent EXCEPT ![edit[e].node] = edit[e].to]
  /\ edit' = [edit EXCEPT ![e] = Resting]
  /\ UNCHANGED overtaken

(* Category.clean of a new row, and its insertion, which waits only for    *)
(* the parent's row.                                                       *)
CheckCreate(e, c, p) ==
  /\ edit[e].at = "rest" /\ c \notin Rows /\ p \in Rows \cup {Top}
  /\ \A f \in Editors : edit[f].node # c
  /\ p # Top => Depth(p) + 1 <= MaxDepth
  /\ edit' = [edit EXCEPT ![e] = [Resting EXCEPT !.at = "create", !.node = c, !.to = p]]
  /\ UNCHANGED <<parent, overtaken>>

Create(e) ==
  LET p == edit[e].to IN
  /\ edit[e].at = "create" /\ p \in Rows \cup {Top}
  /\ Unlocked(e, {p} \ {Top})
  /\ parent' = [parent EXCEPT ![edit[e].node] = p]
  /\ overtaken' = (overtaken \/ (p # Top /\ Depth(p) + 1 > MaxDepth))
  /\ edit' = [edit EXCEPT ![e] = Resting]

(* Category.save of a name writes every field: it refuses a parent that is *)
(* not the row's, and writes the one it has read.  A row that is gone has  *)
(* no parent either, and is inserted again.                                *)
StoredParent(c) == IF parent[c] = Absent THEN Top ELSE parent[c]

ReadForEdit(e, c) ==
  /\ edit[e].at = "rest" /\ c \in Rows
  /\ edit' = [edit EXCEPT ![e] = [Resting EXCEPT !.at = "read", !.node = c, !.to = parent[c]]]
  /\ UNCHANGED <<parent, overtaken>>

CheckEdit(e) ==
  /\ edit[e].at = "read"
  /\ edit' = [edit EXCEPT ![e] = IF StoredParent(edit[e].node) = edit[e].to
                                   THEN [edit[e] EXCEPT !.at = "save"] ELSE Resting]
  /\ UNCHANGED <<parent, overtaken>>

SaveEdit(e) ==
  LET c == edit[e].node IN
  /\ edit[e].at = "save" /\ Unlocked(e, {c})
  /\ edit[e].to \in Rows \cup {Top}
  /\ parent' = [parent EXCEPT ![c] = edit[e].to]
  /\ overtaken' = (overtaken \/ parent[c] # edit[e].to)
  /\ edit' = [edit EXCEPT ![e] = Resting]

(* perform_destroy: a category with children is protected.                 *)
DeleteCategory(c) ==
  /\ c \in Rows /\ Children({c}) = {}
  /\ \A f \in Editors : c \notin edit[f].locked
  /\ parent' = [parent EXCEPT ![c] = Absent]
  /\ UNCHANGED <<edit, overtaken>>

(* A refusal, a deadlock that the database ends, a crash.                  *)
GiveUpEdit(e) ==
  /\ edit[e].at # "rest"
  /\ edit' = [edit EXCEPT ![e] = Resting]
  /\ UNCHANGED <<parent, overtaken>>

CatNext ==
  \/ \E c \in Nodes : DeleteCategory(c)
  \/ \E e \in Editors :
    \/ \E c \in Nodes, p \in Nodes \cup {Top} : BeginMove(e, c, p) \/ CheckCreate(e, c, p)
    \/ \E c \in Nodes : ReadForEdit(e, c)
    \/ Widen(e) \/ CheckMove(e) \/ CommitMove(e) \/ Create(e)
    \/ CheckEdit(e) \/ SaveEdit(e) \/ GiveUpEdit(e)

CatSpec == CatInit /\ [][CatNext]_catVars

-----------------------------------------------------------------------------
CatTypeOK ==
  /\ parent \in [Nodes -> Nodes \cup {Top, Absent}]
  /\ \A e \in Editors :
       /\ edit[e].at \in {"rest", "widen", "move", "create", "read", "save"}
       /\ edit[e].locked \subseteq Nodes /\ edit[e].level \subseteq Nodes
  /\ overtaken \in BOOLEAN

(* However many moves are under way at once, and whatever is created       *)
(* meanwhile, the categories are a forest of at most MaxDepth levels,      *)
(* unless an unlocked write has overtaken its own check                    *)
(* (catalog/services.py:28, catalog/models.py:43).                         *)
TreeIsSound ==
  \/ overtaken
  \/ \A c \in Rows : Top \in {parent[a] : a \in Above(c)} /\ Depth(c) <= MaxDepth
=============================================================================
