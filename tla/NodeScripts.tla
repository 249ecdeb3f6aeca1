------------------------------- MODULE NodeScripts -------------------------------
(***************************************************************************)
(* The scripts of the repository that node runs, one at a time: the set,   *)
(* sorting and enum experiments and the asynchronous query, which is run   *)
(* by several processes.  Each is a module of its own; what they share is  *)
(* that one of them runs, from its first line to its last.                 *)
(***************************************************************************)
EXTENDS Naturals, FiniteSets, Sequences

CONSTANTS
  Numbers, MaxLen,   \* see SetSort
  Names, First,      \* see EnumActions
  Runs, MaxSessions  \* see AsyncQuery

VARIABLES
  script,                                     \* the script that is run
  engine, input, work, placed,                \* see SetSort
  Direction, members, actions, shown,         \* see EnumActions
  at, code, printed, sessions, answer         \* see AsyncQuery

Sort  == INSTANCE SetSort
Enum  == INSTANCE EnumActions
Query == INSTANCE AsyncQuery

ASSUME NumbersAssumption == Sort!NumbersOfOneLength
ASSUME MaxLenAssumption  == MaxLen \in Nat
ASSUME NamesAssumption   ==
  /\ Names \in Seq(STRING) /\ First \in Nat
  /\ \A i, j \in DOMAIN Names : Names[i] = Names[j] => i = j
ASSUME RunsAssumption    == IsFiniteSet(Runs) /\ MaxSessions \in Nat

sortVars  == <<engine, input, work, placed>>
enumVars  == <<Direction, members, actions, shown>>
queryVars == <<at, code, printed, sessions, answer>>
vars == <<script, sortVars, enumVars, queryVars>>

NoSort ==
  engine = "none" /\ input = <<>> /\ work = <<>> /\ placed = 0

Init ==
  /\ \/ Sort!Init
     \/ script \in {"enum", "query"} /\ NoSort
  /\ Enum!Init
  /\ Query!Init

Next ==
  \/ /\ script \in {"nua", "tsa", "data"}
     /\ Sort!Next
     /\ UNCHANGED <<enumVars, queryVars>>
  \/ /\ script = "enum"
     /\ Enum!Next
     /\ UNCHANGED <<script, sortVars, queryVars>>
  \/ /\ script = "query"
     /\ Query!Next
     /\ UNCHANGED <<script, sortVars, enumVars>>

Fairness == \A r \in Runs : script = "query" => Query!Fairness(r)

Spec == Init /\ [][Next]_vars /\ Fairness

--------------------------------------------------------------------------------
(* Properties, each about the script it names; see the modules. *)

\* The sorts of set-test.ts:19-26 and basic-function.ts:14-16.
SortInvariant == script \in {"nua", "tsa", "data"} => Sort!SortInvariant

\* The sort of basic-function.ts:14-16 by compare.
Stable == script = "data" => Sort!Stable

\* The set of times of set-test.ts:19-49.
TimesAscend == script = "tsa" => Sort!TimesAscend

\* The tables of enum-tests.ts:13-39.
TablesAgree == script = "enum" => Enum!TablesAgree

\* The exit code of async-test/index.js:11-24.
CodeTellsResult == script = "query" => Query!CodeTellsResult

\* The end of async-test/index.js:11-24, on either path.
EveryRunExits == script = "query" => Query!EveryRunExits

================================================================================
