------------------------------ MODULE EnumActions ------------------------------
(***************************************************************************)
(* typescript/experiments/enum: an enum as it is compiled, an object that  *)
(* maps names to numbers and numbers to names, and four tables of actions  *)
(* that name their directions in four ways.  A value is tagged with what   *)
(* it is at run time, for the types are gone then.                         *)
(***************************************************************************)
EXTENDS Naturals, Sequences

CONSTANTS
  Names,  \* the members of the enum, in order, no two the same
  First   \* the number of the first member

VARIABLES
  Direction,  \* the enum: entries from a key to a value, both tagged
  members,    \* how many members it has
  actions,    \* the four tables: the directions of their entries
  shown       \* how many tables were printed

vars == <<Direction, members, actions, shown>>

Number(n) == [type |-> "number", of |-> n]
Name(s)   == [type |-> "string", of |-> s]
Missing   == [type |-> "undefined", of |-> 0]
Lookup(key) ==
  IF \E e \in Direction : e.key = key
  THEN (CHOOSE e \in Direction : e.key = key).value
  ELSE Missing

\* An enum whose first member has lost its initializer.
Uninitialized ==
  /\ members < Len(Names)
  /\ LET name == Name(Names[members + 1])
         n    == Number(members)
     IN  Direction' = {e \in Direction : e.key \notin {name, n}}
                        \cup {[key |-> name, value |-> n], [key |-> n, value |-> name]}
  /\ members' = members + 1
  /\ UNCHANGED <<actions, shown>>

\* A member without an initializer is one more than the member before; the
\* compiled enum gets two entries of it.
Member ==
  /\ members < Len(Names)
  /\ LET name == Name(Names[members + 1])
         n    == Number(First + members)
     IN  Direction' = {e \in Direction : e.key \notin {name, n}}
                        \cup {[key |-> name, value |-> n], [key |-> n, value |-> name]}
  /\ members' = members + 1
  /\ UNCHANGED <<actions, shown>>

\* Direction.Up, 1, Direction["Up"], Direction[1]; the amounts are all 1.
Tables ==
  /\ members = Len(Names)
  /\ actions = <<>>
  /\ LET each == [i \in DOMAIN Names |-> Lookup(Name(Names[i]))]
     IN  actions' = <<each,
                      [i \in DOMAIN Names |-> Number(i)],
                      each,
                      [i \in DOMAIN Names |-> Lookup(Number(i))]>>
  /\ UNCHANGED <<Direction, members, shown>>

Show ==
  /\ shown < Len(actions)
  /\ shown' = shown + 1
  /\ UNCHANGED <<Direction, members, actions>>

Init == Direction = {} /\ members = 0 /\ actions = <<>> /\ shown = 0
Next == Member \/ Tables \/ Show
Spec == Init /\ [][Next]_vars

--------------------------------------------------------------------------------
(* Properties *)

Resolve(d) == IF d.type = "string" THEN Lookup(d) ELSE d

\* The four tables name the same directions, Up to Right, though two go by the
\* names of the enum, one by the numbers the members are hoped to have, and one
\* by what the enum gives for those numbers, which is a name and not a number
\* (enum-tests.ts:13-39).
TablesAgree ==
  \A t \in 1 .. shown : \A i \in DOMAIN actions[t] :
    /\ Resolve(actions[t][i]) = Lookup(Name(Names[i]))
    /\ Lookup(Resolve(actions[t][i])) = Name(Names[i])

================================================================================
