------------------------------- MODULE GraphLabels -------------------------------
(***************************************************************************)
(* labels/main.js of mx-component: the cells it inserts into the graph in  *)
(* one update of the model, and the labels it lets mxGraph show for them   *)
(* while the user moves, resizes, folds and edits.  A label is its number  *)
(* of characters; a size is its width.                                     *)
(***************************************************************************)
EXTENDS Naturals, Sequences

CONSTANTS
  Touched,  \* the cells the user touches
  Widths,   \* the widths a cell is given by resizing or by its first folding
  Lengths   \* the lengths of the labels the user types

Vertices == {"v1", "v2"}
Labels   == {"label11", "label12", "label21", "label22"}
Cells    == Vertices \cup Labels \cup {"e1"}

ASSUME TouchedAssumption == Touched \subseteq Cells
ASSUME SizesAssumption == Widths \subseteq Nat /\ Lengths \subseteq Nat

VARIABLES
  pc,         \* main.js: "begin", "insert", "end", then "user"
  level,      \* the model's update level
  inserted,   \* the cells in the model, in order
  view,       \* the cells the display shows
  width,      \* per cell: the width of its geometry
  alternate,  \* per cell: the width of its alternate bounds (0: none)
  offset,     \* per cell: its label was moved: "no", "back" at (0, 0), "away"
  collapsed,  \* per cell: the model holds it folded
  length      \* per cell: the length of its value

model == <<pc, level, inserted, view>>
cell  == <<width, alternate, offset, collapsed, length>>
graphVars  == <<model, cell>>

InModel == {inserted[i] : i \in DOMAIN inserted}

--------------------------------------------------------------------------------
(* The cells. *)

EdgeTooEarly == <<"v1", "label11", "label12", "e1", "v2", "label21", "label22">>
Order == <<"v1", "label11", "label12", "v2", "e1", "label21", "label22">>

\* The parent of a sublabel, the ends of an edge.
Needs(c) == CASE c \in {"label11", "label12"} -> {"v1"}
              [] c \in {"label21", "label22"} -> {"v2"}
              [] c = "e1" -> {"v1", "v2"}
              [] OTHER -> {}

Relative(c) == c \notin Vertices
IsVertex(c) == c # "e1"

\* 'vertexLabelsMovable', the long text of v2, 'edgeLabelsMovable', 'Label1'.
Value(c) == CASE c = "v1" -> 19 [] c = "v2" -> 126 [] c = "e1" -> 17 [] OTHER -> 6

--------------------------------------------------------------------------------
(* The functions main.js gives the graph. *)

NoOffset(c) == offset[c] # "away"

\* A character is fontSize * 0.625 wide, of a font of 11.
Fits(n, w) == n * 55 <= w * 8
Chars(w)   == (w * 8) \div 55

Truncates(c) ==
  /\ ~collapsed[c]
  /\ NoOffset(c)
  /\ IsVertex(c)
  /\ width[c] >= 2
  /\ ~Fits(length[c], width[c])

\* substring(0, max) + '...'
GetLabel(c) == IF Truncates(c) THEN Chars(width[c]) + 3 ELSE length[c]

IsWrapping(c) == collapsed[c]

IsLabelClipped(c) == ~Relative(c) /\ NoOffset(c)

AnyResizable(c) == TRUE
IsCellResizable(c) == ~Relative(c)

--------------------------------------------------------------------------------
(* main.js inserts its cells. *)

BeginUpdate ==
  /\ pc = "begin"
  /\ pc' = "insert"
  /\ level' = level + 1
  /\ UNCHANGED <<inserted, view, cell>>

\* A change of the model is displayed at once outside of an update.
InsertVertex ==
  /\ pc = "insert"
  /\ Len(inserted) < Len(Order)
  /\ LET c == Order[Len(inserted) + 1]
     IN  /\ inserted' = Append(inserted, c)
         /\ width' = [width EXCEPT ![c] = IF Relative(c) THEN 0 ELSE 80]
         /\ alternate' = [alternate EXCEPT ![c] = IF c = "v2" THEN 80 ELSE 0]
         /\ length' = [length EXCEPT ![c] = Value(c)]
  /\ view' = IF level = 0 THEN InModel \cup {Order[Len(inserted) + 1]} ELSE view
  /\ UNCHANGED <<pc, level, offset, collapsed>>

\* The block is left, at its end or by an exception of mxGraph.
LeaveTry ==
  /\ pc = "insert"
  /\ pc' = "end"
  /\ UNCHANGED <<level, inserted, view, cell>>

EndUpdateIfDone ==
  /\ pc = "end"
  /\ pc' = "user"
  /\ IF Len(inserted) = Len(Order)
     THEN level' = level - 1 /\ view' = InModel
     ELSE UNCHANGED <<level, view>>
  /\ UNCHANGED <<inserted, cell>>

EndUpdate ==
  /\ pc = "end"
  /\ pc' = "user"
  /\ level' = level - 1
  /\ view' = InModel
  /\ UNCHANGED <<inserted, cell>>

--------------------------------------------------------------------------------
(* The user, by way of mxGraph.  A sublabel of a folded vertex is hidden. *)

Touchable(c) ==
  /\ pc = "user"
  /\ c \in Touched
  /\ c \in view
  /\ \A p \in Needs(c) : c # "e1" => ~collapsed[p]

\* The label of a cell is dragged; for a sublabel the cell itself, too.
MoveLabel(c) ==
  /\ Touchable(c)
  /\ \E o \in {"back", "away"} : offset' = [offset EXCEPT ![c] = o]
  /\ UNCHANGED <<model, width, alternate, collapsed, length>>

Resize(c) ==
  /\ Touchable(c)
  /\ IsVertex(c)
  /\ IsCellResizable(c)
  /\ \E w \in Widths : width' = [width EXCEPT ![c] = w]
  /\ UNCHANGED <<model, alternate, offset, collapsed, length>>

\* A vertex with children changes its bounds for the alternate ones, which are
\* made of its preferred size when it has none.
Fold(c) ==
  /\ Touchable(c)
  /\ c \in Vertices
  /\ collapsed' = [collapsed EXCEPT ![c] = ~@]
  /\ \E w \in IF alternate[c] = 0 THEN Widths ELSE {alternate[c]} :
       width' = [width EXCEPT ![c] = w]
  /\ alternate' = [alternate EXCEPT ![c] = width[c]]
  /\ UNCHANGED <<model, offset, length>>

EditLabel(c) ==
  /\ Touchable(c)
  /\ \E n \in Lengths : length' = [length EXCEPT ![c] = n]
  /\ UNCHANGED <<model, width, alternate, offset, collapsed>>

--------------------------------------------------------------------------------

GraphInit ==
  /\ pc = "begin"
  /\ level = 0
  /\ inserted = <<>>
  /\ view = {}
  /\ width = [c \in Cells |-> 0]
  /\ alternate = [c \in Cells |-> 0]
  /\ offset = [c \in Cells |-> "no"]
  /\ collapsed = [c \in Cells |-> FALSE]
  /\ length = [c \in Cells |-> 0]

Program == BeginUpdate \/ InsertVertex \/ LeaveTry \/ EndUpdate
User    == \E c \in Cells : MoveLabel(c) \/ Resize(c) \/ Fold(c) \/ EditLabel(c)
GraphNext    == Program \/ User

GraphSpec == GraphInit /\ [][GraphNext]_graphVars

--------------------------------------------------------------------------------
(* Properties *)

\* The model and the cells keep their types.
GraphTypeOK ==
  /\ pc \in {"begin", "insert", "end", "user"}
  /\ level \in 0 .. 1
  /\ inserted \in Seq(Cells)
  /\ view \subseteq Cells
  /\ width \in [Cells -> Nat]
  /\ alternate \in [Cells -> Nat]
  /\ offset \in [Cells -> {"no", "back", "away"}]
  /\ collapsed \in [Cells -> BOOLEAN]
  /\ length \in [Cells -> Nat]

\* Whatever the user does to the cells, the label of a sublabel or of the edge is
\* shown whole: getLabel does not ask whether a geometry is relative, and cuts none
\* as long as no such cell is given a width (main.js:21-36).
RelativeLabelsWhole == \A c \in view : Relative(c) => ~Truncates(c)

\* The cells are added in a single step: nothing is displayed before the update
\* has ended, and then no sublabel without its vertex and no edge without its
\* ends, also when the insertion stopped in the middle (main.js:59-83).
ViewIsClosed ==
  /\ pc # "user" => view = {}
  /\ \A c \in view : Needs(c) \subseteq view

\* main.js has ended outside of any update, with what it inserted displayed.
Displayed == level = 0 /\ view = InModel /\ pc = "user"

\* main.js:27: the label is truncated to the size of the vertex.
TruncatedFits == \A c \in view : Truncates(c) => Fits(GetLabel(c), width[c])

\* main.js:71, the text of v2: "Wrapping and clipping is enabled only if the cell
\* is collapsed, otherwise the label is truncated".
ClippedOnlyCollapsed ==
  \A c \in view : IsWrapping(c) \/ IsLabelClipped(c) => collapsed[c]

================================================================================
