---------------------------- MODULE GraphLabelsProofs ----------------------------
(***************************************************************************)
(* The labels of mx-component, for any cells the user touches, any widths  *)
(* and any lengths of labels.                                              *)
(***************************************************************************)
EXTENDS GraphLabels, SequenceTheorems, TLAPS

\* The cells come in the order of the program, inside one update, and the display
\* is made of them when the update ends.
Insertion ==
  /\ Len(inserted) <= Len(Order)
  /\ \A i \in DOMAIN inserted : inserted[i] = Order[i]
  /\ level = IF pc \in {"insert", "end"} THEN 1 ELSE 0
  /\ view = IF pc = "user" THEN InModel ELSE {}

\* Nothing gives a width to a cell that has its place relative to another.
RelativeFlat == \A c \in Cells : Relative(c) => width[c] = 0

IInv == GraphTypeOK /\ Insertion /\ RelativeFlat

LEMMA OrderFacts ==
  /\ Order \in Seq(Cells)
  /\ Len(Order) = 7
BY DEF Order, Cells, Vertices, Labels

LEMMA InitIInv == GraphInit => IInv
BY OrderFacts DEF GraphInit, IInv, GraphTypeOK, Insertion, RelativeFlat, InModel

\* One cell is inserted.
LEMMA InsertIInv ==
  ASSUME IInv, InsertVertex
  PROVE  IInv'
<1> DEFINE c == Order[Len(inserted) + 1]
<1>1. /\ c \in Cells
      /\ level = 1 /\ pc = "insert"
      /\ inserted \in Seq(Cells) /\ Len(inserted) < Len(Order)
  <2>1. /\ level = 1 /\ pc = "insert"
        /\ inserted \in Seq(Cells) /\ Len(inserted) < Len(Order)
    BY DEF InsertVertex, IInv, GraphTypeOK, Insertion
  <2>2. Len(inserted) + 1 \in 1 .. Len(Order)
    BY <2>1, OrderFacts, LenProperties
  <2>3. QED
    BY <2>1, <2>2, OrderFacts, ElementOfSeq
<1>2. /\ inserted' = Append(inserted, c)
      /\ width' = [width EXCEPT ![c] = IF Relative(c) THEN 0 ELSE 80]
      /\ alternate' = [alternate EXCEPT ![c] = IF c = "v2" THEN 80 ELSE 0]
      /\ length' = [length EXCEPT ![c] = Value(c)]
      /\ UNCHANGED <<pc, level, view, offset, collapsed>>
  BY <1>1 DEF InsertVertex
<1> HIDE DEF c
<1>3. Value(c) \in Nat
  BY DEF Value
<1>4. GraphTypeOK'
  BY <1>1, <1>2, <1>3, AppendProperties DEF IInv, GraphTypeOK
<1>5. Insertion'
  <2>1. /\ Len(inserted') = Len(inserted) + 1
        /\ DOMAIN inserted' = 1 .. Len(inserted')
        /\ \A i \in 1 .. Len(inserted) : inserted'[i] = inserted[i]
        /\ inserted'[Len(inserted) + 1] = c
    BY <1>1, <1>2, AppendProperties, LenProperties
  <2>2. \A i \in DOMAIN inserted' : inserted'[i] = Order[i]
    BY <1>1, <2>1 DEF IInv, Insertion, c
  <2>3. QED
    BY <1>1, <1>2, <2>1, <2>2, OrderFacts DEF IInv, Insertion
<1>6. RelativeFlat'
  BY <1>1, <1>2 DEF IInv, GraphTypeOK, RelativeFlat, Relative
<1>7. QED
  BY <1>4, <1>5, <1>6 DEF IInv

LEMMA NextIInv == IInv /\ [GraphNext]_graphVars => IInv'
<1> SUFFICES ASSUME IInv, [GraphNext]_graphVars
             PROVE  IInv'
  OBVIOUS
<1> USE DEF IInv, GraphTypeOK, Insertion, RelativeFlat, Relative, InModel
<1>1. CASE BeginUpdate
  BY <1>1 DEF BeginUpdate, cell
<1>2. CASE InsertVertex
  BY <1>2, InsertIInv
<1>3. CASE LeaveTry
  BY <1>3 DEF LeaveTry, cell
<1>4. CASE EndUpdate
  BY <1>4 DEF EndUpdate, cell
<1>5. ASSUME NEW c \in Cells, MoveLabel(c)
      PROVE  IInv'
  BY <1>5 DEF MoveLabel, model
<1>6. ASSUME NEW c \in Cells, Resize(c)
      PROVE  IInv'
  BY <1>6, SizesAssumption DEF Resize, IsCellResizable, model
<1>7. ASSUME NEW c \in Cells, Fold(c)
      PROVE  IInv'
  BY <1>7, SizesAssumption DEF Fold, model
<1>8. ASSUME NEW c \in Cells, EditLabel(c)
      PROVE  IInv'
  BY <1>8, SizesAssumption DEF EditLabel, model
<1>9. CASE UNCHANGED graphVars
  BY <1>9 DEF graphVars, model, cell
<1>10. QED
  BY <1>1, <1>2, <1>3, <1>4, <1>5, <1>6, <1>7, <1>8, <1>9 DEF GraphNext, Program, User

LEMMA Invariant == GraphSpec => []IInv
BY InitIInv, NextIInv, PTL DEF GraphSpec

\* No sublabel and no label of an edge is ever cut, although getLabel does not ask
\* whether a geometry is relative (main.js:21-36).
THEOREM RelativeLabelsAreWhole == GraphSpec => []RelativeLabelsWhole
<1>1. IInv => RelativeLabelsWhole
  BY DEF IInv, GraphTypeOK, RelativeFlat, RelativeLabelsWhole, Truncates
<1>2. QED
  BY Invariant, <1>1, PTL

\* What needs another cell is inserted after it.
LEMMA NeedsBefore ==
  ASSUME NEW i \in 1 .. 7
  PROVE  \A c \in Needs(Order[i]) : \E j \in 1 .. i : c = Order[j]
<1>1. CASE i \in {1, 4}
  BY <1>1 DEF Needs, Order
<1>2. CASE i \in {2, 3}
  <2>1. Needs(Order[i]) = {Order[1]}
    BY <1>2 DEF Needs, Order
  <2>2. QED
    BY <1>2, <2>1
<1>3. CASE i \in {6, 7}
  <2>1. Needs(Order[i]) = {Order[4]}
    BY <1>3 DEF Needs, Order
  <2>2. QED
    BY <1>3, <2>1
<1>4. CASE i = 5
  <2>1. Needs(Order[i]) = {Order[1], Order[4]}
    BY <1>4 DEF Needs, Order
  <2>2. QED
    BY <1>4, <2>1
<1>5. QED
  BY <1>1, <1>2, <1>3, <1>4

\* No sublabel is displayed without its vertex and no edge without its ends, at
\* whatever cell the insertion stopped (main.js:59-83).
THEOREM DisplayIsClosed == GraphSpec => []ViewIsClosed
<1>1. IInv => ViewIsClosed
  <2> SUFFICES ASSUME IInv, pc = "user", NEW c \in view, NEW n \in Needs(c)
               PROVE  n \in view
    BY DEF IInv, Insertion, ViewIsClosed
  <2>1. PICK i \in DOMAIN inserted : c = inserted[i]
    BY DEF IInv, Insertion, InModel
  <2>2. /\ DOMAIN inserted = 1 .. Len(inserted)
        /\ Len(inserted) \in Nat /\ Len(inserted) <= 7
        /\ c = Order[i]
    <3>1. inserted \in Seq(Cells) /\ Len(inserted) <= 7 /\ c = Order[i]
      BY <2>1, OrderFacts DEF IInv, GraphTypeOK, Insertion
    <3>2. Len(inserted) \in Nat /\ DOMAIN inserted = 1 .. Len(inserted)
      BY <3>1
    <3>3. QED
      BY <3>1, <3>2
  <2>3. i \in 1 .. 7 /\ n \in Needs(Order[i])
    <3>1. i \in 1 .. 7
      BY <2>1, <2>2
    <3>2. n \in Needs(Order[i])
      BY <2>2
    <3>3. QED
      BY <3>1, <3>2
  <2>4. PICK j \in 1 .. i : n = Order[j]
    <3>1. \A k \in 1 .. 7 : \A d \in Needs(Order[k]) : \E j \in 1 .. k : d = Order[j]
      BY NeedsBefore
    <3>2. QED
      BY <2>3, <3>1
  <2>5. j \in 1 .. Len(inserted)
    BY <2>1, <2>2, <2>3, <2>4
  <2>6. n = inserted[j]
    BY <2>2, <2>4, <2>5 DEF IInv, Insertion
  <2>7. QED
    BY <2>2, <2>5, <2>6 DEF IInv, Insertion, InModel
<1>2. QED
  BY Invariant, <1>1, PTL
--------------------------------------------------------------------------------
\* The steps main.js still has before it.
StepsLeft ==
  CASE pc = "begin"  -> Len(Order) + 3
    [] pc = "insert" -> Len(Order) - Len(inserted) + 2
    [] pc = "end"    -> 1
    [] pc = "user"   -> 0

\* What EndsDisplayed of WebApps ends in.
DisplayedAtEnd == StepsLeft = 0 => Displayed

\* Each step of main.js brings its end nearer, and the user does not start it
\* again.
ProgramCountsDown ==
  [][/\ Program => StepsLeft' < StepsLeft
     /\ User => StepsLeft' = StepsLeft]_graphVars

LEMMA StepsLeftFacts ==
  ASSUME IInv
  PROVE  /\ StepsLeft \in Nat
         /\ StepsLeft = 0 <=> pc = "user"
         /\ Len(inserted) \in Nat /\ Len(inserted) <= 7
<1>1. Len(inserted) \in Nat /\ Len(inserted) <= 7
  <2>1. inserted \in Seq(Cells) /\ Len(inserted) <= 7
    BY OrderFacts DEF IInv, GraphTypeOK, Insertion
  <2>2. QED
    BY <2>1
<1>2. /\ pc = "begin" => StepsLeft = 10
      /\ pc = "insert" => StepsLeft = 9 - Len(inserted)
      /\ pc = "end" => StepsLeft = 1
      /\ pc = "user" => StepsLeft = 0
  BY <1>1, OrderFacts DEF StepsLeft
<1>3. pc \in {"begin", "insert", "end", "user"}
  BY DEF IInv, GraphTypeOK
<1> HIDE DEF StepsLeft
<1>4. StepsLeft \in Nat /\ (StepsLeft = 0 <=> pc = "user")
  BY <1>1, <1>2, <1>3
<1>5. QED
  BY <1>1, <1>4

\* main.js ends after so many steps outside of any update, with all it inserted
\* displayed, at whatever cell an exception of mxGraph stops it, and that stays so
\* whatever the user does (main.js:59-83): what EndsDisplayed adds is that it runs.
THEOREM EndIsDisplayed ==
  GraphSpec => [](StepsLeft \in Nat /\ DisplayedAtEnd) /\ ProgramCountsDown
<1>1. IInv => StepsLeft \in Nat /\ DisplayedAtEnd
  BY StepsLeftFacts DEF IInv, Insertion, DisplayedAtEnd, Displayed
<1>2. IInv /\ [GraphNext]_graphVars
        => [/\ Program => StepsLeft' < StepsLeft
            /\ User => StepsLeft' = StepsLeft]_graphVars
  <2> SUFFICES ASSUME IInv
               PROVE  /\ Program => StepsLeft' < StepsLeft
                      /\ User => StepsLeft' = StepsLeft
    OBVIOUS
  <2>1. ASSUME BeginUpdate
        PROVE  StepsLeft' < StepsLeft
    <3>1. pc = "begin" /\ pc' = "insert" /\ inserted' = inserted
      BY <2>1 DEF BeginUpdate
    <3>2. StepsLeft = 10 /\ StepsLeft' = 9 - Len(inserted)
      BY <3>1, OrderFacts, StepsLeftFacts DEF StepsLeft
    <3>3. QED
      BY <3>2, StepsLeftFacts
  <2>2. ASSUME InsertVertex
        PROVE  StepsLeft' < StepsLeft
    <3>1. pc = "insert" /\ pc' = "insert" /\ Len(inserted') = Len(inserted) + 1
      BY <2>2 DEF InsertVertex, IInv, GraphTypeOK
    <3>2. StepsLeft = 9 - Len(inserted) /\ StepsLeft' = 9 - (Len(inserted) + 1)
      BY <3>1, OrderFacts, StepsLeftFacts DEF StepsLeft
    <3>3. QED
      BY <3>2, StepsLeftFacts
  <2>3. ASSUME LeaveTry
        PROVE  StepsLeft' < StepsLeft
    <3>1. pc = "insert" /\ pc' = "end"
      BY <2>3 DEF LeaveTry
    <3>2. StepsLeft = 9 - Len(inserted) /\ StepsLeft' = 1
      BY <3>1, OrderFacts, StepsLeftFacts DEF StepsLeft
    <3>3. QED
      BY <3>2, StepsLeftFacts
  <2>4. ASSUME EndUpdate
        PROVE  StepsLeft' < StepsLeft
    BY <2>4 DEF EndUpdate, StepsLeft
  <2>5. ASSUME User
        PROVE  StepsLeft' = StepsLeft
    <3>1. pc' = pc /\ inserted' = inserted
      BY <2>5 DEF User, MoveLabel, Resize, Fold, EditLabel, model
    <3>2. QED
      BY <3>1 DEF StepsLeft
  <2>6. QED
    BY <2>1, <2>2, <2>3, <2>4, <2>5 DEF Program
<1>3. QED
  BY Invariant, NextIInv, <1>1, <1>2, PTL DEF GraphSpec, ProgramCountsDown
================================================================================
