---------------------------- MODULE NodeScriptsProofs ----------------------------
(***************************************************************************)
(* The query of async-test for any number of runs and of sessions, the     *)
(* tables of enum-tests.ts for an enum with any members, the sorts and the *)
(* set of set-test.ts and basic-function.ts for arrays of any length that  *)
(* the engine sorts by insertion.                                          *)
(***************************************************************************)
EXTENDS NodeScripts, FiniteSetTheorems, SequenceTheorems, TLAPS

--------------------------------------------------------------------------------
(* async-test/index.js *)

\* What a run has printed by the place it is at.
Told ==
  \A r \in Runs :
    /\ at[r] \in {"new", "connecting", "querying"} => printed[r] \subseteq {"query"}
    /\ at[r] = "ending" => "results" \in printed[r] /\ "error" \notin printed[r]
    /\ code[r] = 2 <=> at[r] # "exited"

QueryInv == Query!TypeOK /\ Told /\ Query!CodeTellsResult

LEMMA InitQueryInv == Query!Init => QueryInv
BY DEF Query!Init, QueryInv, Query!TypeOK, Told, Query!CodeTellsResult

Lines == {"query", "results", "error", "endError"}

\* A run goes on to a, returns c and prints what.
Goes(r, a, c, what) ==
  /\ at' = [at EXCEPT ![r] = a]
  /\ code' = [code EXCEPT ![r] = c]
  /\ Query!Prints(r, what)
  /\ UNCHANGED <<sessions, answer>>

\* That is in keeping with what it has printed.
Fits(r, a, c, what) ==
  /\ a \in {"connecting", "ending", "exited"} /\ c \in {0, 1, 2} /\ what \subseteq Lines
  /\ a = "connecting" => what \subseteq {"query"} /\ printed[r] \subseteq {"query"}
  /\ c = 2 <=> a # "exited"
  /\ a = "ending" \/ c = 0 => "error" \notin what /\ "error" \notin printed[r]
  /\ a = "ending" \/ c = 0 => "results" \in what \/ "results" \in printed[r]
  /\ c = 1 => "error" \in what /\ "results" \notin what /\ "results" \notin printed[r]

\* A step of one run, seen from all of them.
LEMMA OneRun ==
  ASSUME QueryInv, NEW r \in Runs, NEW a, NEW c, NEW what,
         Goes(r, a, c, what), Fits(r, a, c, what)
  PROVE  QueryInv'
<1> USE DEF Fits
<1> DEFINE p == printed[r] \cup what
<1>1. /\ at' = [at EXCEPT ![r] = a]
      /\ code' = [code EXCEPT ![r] = c]
      /\ printed' = [printed EXCEPT ![r] = p]
      /\ UNCHANGED <<sessions, answer>>
  BY DEF Goes, Query!Prints
<1>2. p \in SUBSET Lines
  BY DEF QueryInv, Query!TypeOK, Lines
<1>3. a = "connecting" => p \subseteq {"query"}
  OBVIOUS
<1>4. /\ a = "ending" \/ c = 0 => "error" \notin p /\ "results" \in p
      /\ c = 1 => "error" \in p /\ "results" \notin p
  OBVIOUS
<1> HIDE DEF p
<1>5. Query!TypeOK'
  BY <1>1, <1>2 DEF QueryInv, Query!TypeOK, Lines
<1>6. Told' /\ Query!CodeTellsResult'
  BY <1>1, <1>3, <1>4 DEF QueryInv, Query!TypeOK, Told, Query!CodeTellsResult
<1>7. QED
  BY <1>5, <1>6 DEF QueryInv

\* The connection of a run: its place changes to querying, or nothing that it
\* prints and returns.
LEMMA OneAnswer ==
  ASSUME QueryInv, UNCHANGED <<code, printed>>, sessions' \subseteq Runs,
         answer' \in [Runs -> {"none", "rows", "error", "lost"}],
         \/ at' = at
         \/ \E r \in Runs : at[r] = "connecting" /\ at' = [at EXCEPT ![r] = "querying"]
  PROVE  QueryInv'
BY DEF QueryInv, Query!TypeOK, Told, Query!CodeTellsResult

LEMMA ThrowQueryInv ==
  ASSUME QueryInv, NEW r \in Runs, at[r] \in {"connecting", "querying"}, Query!Throw(r),
         UNCHANGED <<sessions, answer>>
  PROVE  QueryInv'
<1>1. Goes(r, "exited", 1, {"error"})
  BY DEF Goes, Query!Throw, Query!Exit
<1>2. "results" \notin printed[r]
  BY DEF QueryInv, Told
<1>3. QED
  <2>1. Fits(r, "exited", 1, {"error"})
    BY <1>2 DEF Fits, Lines
  <2>2. QED
    BY <1>1, <2>1, OneRun

LEMMA ScriptQueryInv ==
  ASSUME QueryInv, NEW r \in Runs, Query!Script(r)
  PROVE  QueryInv'
<1>1. ASSUME at[r] # "exited"
      PROVE  code = [code EXCEPT ![r] = 2]
  BY <1>1 DEF QueryInv, Query!TypeOK, Told
<1>2. CASE Query!Query(r)
  <2>1. at[r] = "new" /\ Goes(r, "connecting", 2, {"query"})
    BY <1>1, <1>2 DEF Goes, Query!Query
  <2>2. Fits(r, "connecting", 2, {"query"})
    <3>1. printed[r] \subseteq {"query"}
      BY <2>1 DEF QueryInv, Told
    <3>2. {"query"} \subseteq Lines
      BY DEF Lines
    <3>3. QED
      BY <3>1, <3>2 DEF Fits
  <2>3. QED
    BY <2>1, <2>2, OneRun
<1>3. CASE Query!QueryCallback(r)
  <2>1. CASE answer[r] = "rows"
    <3>1. Goes(r, "ending", 2, {"results"})
      BY <1>1, <1>3, <2>1 DEF Goes, Query!QueryCallback, Query!QuerySucceeds
    <3>2. "error" \notin printed[r]
      BY <1>3 DEF Query!QueryCallback, QueryInv, Told
    <3>3. Fits(r, "ending", 2, {"results"})
      BY <3>2 DEF Fits, Lines
    <3>4. QED
      BY <3>1, <3>3, OneRun
  <2>2. CASE answer[r] # "rows"
    BY <1>3, <2>2, ThrowQueryInv DEF Query!QueryCallback, Query!QueryFails
  <2>3. QED
    BY <2>1, <2>2
<1>4. ASSUME NEW failed \in BOOLEAN, Query!EndCallback(r, failed)
      PROVE  QueryInv'
  <2> DEFINE what == IF failed THEN {"endError"} ELSE {}
  <2>1. Goes(r, "exited", 0, what)
    BY <1>4 DEF Goes, Query!EndCallback, Query!Exit
  <2>2. "results" \in printed[r] /\ "error" \notin printed[r]
    BY <1>4 DEF Query!EndCallback, QueryInv, Told
  <2>3. what \subseteq Lines /\ "error" \notin what
    BY DEF Lines
  <2> HIDE DEF what
  <2>4. Fits(r, "exited", 0, what)
    BY <2>2, <2>3 DEF Fits
  <2>5. QED
    BY <2>1, <2>4, OneRun
<1>5. QED
  BY <1>2, <1>3, <1>4 DEF Query!Script

LEMMA ServerQueryInv ==
  ASSUME QueryInv, NEW r \in Runs, Query!Server(r)
  PROVE  QueryInv'
<1>1. sessions \subseteq Runs /\ answer \in [Runs -> {"none", "rows", "error", "lost"}]
  BY DEF QueryInv, Query!TypeOK
<1>2. CASE Query!Connected(r)
  BY <1>1, <1>2, OneAnswer DEF Query!Connected
<1>3. CASE Query!Refused(r)
  BY <1>3, ThrowQueryInv DEF Query!Refused, Query!QueryFails
<1>4. CASE Query!Answers(r)
  BY <1>1, <1>4, OneAnswer DEF Query!Answers
<1>5. CASE Query!Lost(r)
  BY <1>1, <1>5, OneAnswer DEF Query!Lost
<1>6. CASE Query!Closes(r)
  BY <1>1, <1>6, OneAnswer DEF Query!Closes
<1>7. QED
  BY <1>2, <1>3, <1>4, <1>5, <1>6 DEF Query!Server

LEMMA NextQueryInv == QueryInv /\ [Next]_vars => QueryInv'
<1> SUFFICES ASSUME QueryInv, [Next]_vars
             PROVE  QueryInv'
  OBVIOUS
<1>1. CASE Query!Next
  BY <1>1, ScriptQueryInv, ServerQueryInv DEF Query!Next
<1>2. CASE UNCHANGED queryVars
  BY <1>2 DEF queryVars, QueryInv, Query!TypeOK, Told, Query!CodeTellsResult
<1>3. QED
  BY <1>1, <1>2 DEF Next, vars

\* Exit code 0 means that the results were printed and 1 that they were not,
\* whatever the server and the connections do (async-test/index.js:11-24).
THEOREM ExitCodeIsTrue == Spec => []CodeTellsResult
<1>1. Init => QueryInv
  BY InitQueryInv DEF Init
<1>2. QueryInv => CodeTellsResult
  BY DEF QueryInv, CodeTellsResult
<1>3. QED
  BY <1>1, <1>2, NextQueryInv, PTL DEF Spec

\* The steps of a run and of the server for it that are still to come.
StepsLeft(r) ==
  CASE at[r] = "new"        -> 5
    [] at[r] = "connecting" -> 4
    [] at[r] = "querying"   -> IF answer[r] = "none" THEN 3 ELSE 2
    [] at[r] = "ending"     -> 1
    [] at[r] = "exited"     -> 0

\* A run that waits for an answer has the session it can come by.
HasSession ==
  \A r \in Runs : at[r] = "querying" /\ answer[r] = "none" => r \in sessions

\* A run that has not exited has a callback that is due, or one that the server
\* or the pool can make due.
NoRunIsStuck ==
  script = "query" =>
    \A r \in Runs :
      StepsLeft(r) # 0 =>
        \/ at[r] \in {"new", "connecting", "ending"}
        \/ at[r] = "querying" /\ (answer[r] # "none" \/ r \in sessions)

Owed(r) ==
  Query!Script(r) \/ Query!Connected(r) \/ Query!Refused(r) \/ Query!Answers(r)

\* The steps that are owed to a run bring its exit nearer; none puts it off.
RunsCountDown ==
  [][\A r \in Runs : /\ StepsLeft(r)' <= StepsLeft(r)
                     /\ Owed(r) => StepsLeft(r)' < StepsLeft(r)]_vars

LEMMA OwedCountDown ==
  ASSUME QueryInv, NEW r \in Runs, Owed(r)
  PROVE  /\ StepsLeft(r)' < StepsLeft(r)
         /\ \A q \in Runs \ {r} : StepsLeft(q)' = StepsLeft(q)
<1>1. /\ at \in [Runs -> {"new", "connecting", "querying", "ending", "exited"}]
      /\ answer \in [Runs -> {"none", "rows", "error", "lost"}]
  BY DEF QueryInv, Query!TypeOK
<1>2. CASE Query!Query(r)
  BY <1>1, <1>2 DEF Query!Query, StepsLeft
<1>3. CASE Query!QueryCallback(r)
  BY <1>1, <1>3
  DEF Query!QueryCallback, Query!QuerySucceeds, Query!QueryFails, Query!Throw, Query!Exit,
      StepsLeft
<1>4. ASSUME NEW failed \in BOOLEAN, Query!EndCallback(r, failed)
      PROVE  /\ StepsLeft(r)' < StepsLeft(r)
             /\ \A q \in Runs \ {r} : StepsLeft(q)' = StepsLeft(q)
  BY <1>1, <1>4 DEF Query!EndCallback, Query!Exit, StepsLeft
<1>5. CASE Query!Connected(r)
  BY <1>1, <1>5 DEF Query!Connected, StepsLeft
<1>6. CASE Query!Refused(r)
  BY <1>1, <1>6 DEF Query!Refused, Query!QueryFails, Query!Throw, Query!Exit, StepsLeft
<1>7. CASE Query!Answers(r)
  BY <1>1, <1>7 DEF Query!Answers, StepsLeft
<1>8. QED
  BY <1>2, <1>3, <1>4, <1>5, <1>6, <1>7 DEF Owed, Query!Script

LEMMA NextHasSession ==
  ASSUME QueryInv, HasSession, [Next]_vars
  PROVE  HasSession'
<1>1. /\ at \in [Runs -> {"new", "connecting", "querying", "ending", "exited"}]
      /\ answer \in [Runs -> {"none", "rows", "error", "lost"}]
  BY DEF QueryInv, Query!TypeOK
<1>2. CASE Query!Next
  <2> PICK r \in Runs : Query!Script(r) \/ Query!Server(r)
    BY <1>2 DEF Query!Next
  <2>1. CASE Query!Script(r) \/ Query!Refused(r)
    <3>1. UNCHANGED <<sessions, answer>>
      BY <2>1 DEF Query!Script, Query!Query, Query!QueryCallback, Query!EndCallback,
                  Query!Refused
    <3>2. /\ at' = [at EXCEPT ![r] = at'[r]]
          /\ at'[r] # "querying"
      BY <1>1, <2>1
      DEF Query!Script, Query!Query, Query!QueryCallback, Query!QuerySucceeds,
          Query!QueryFails, Query!Throw, Query!Exit, Query!EndCallback, Query!Refused
    <3>3. QED
      BY <1>1, <3>1, <3>2 DEF HasSession
  <2>2. CASE Query!Connected(r)
    BY <1>1, <2>2 DEF Query!Connected, HasSession
  <2>3. CASE Query!Answers(r)
    BY <1>1, <2>3 DEF Query!Answers, HasSession
  <2>4. CASE Query!Lost(r)
    BY <1>1, <2>4 DEF Query!Lost, HasSession
  <2>5. CASE Query!Closes(r)
    BY <1>1, <2>5 DEF Query!Closes, HasSession
  <2>6. QED
    BY <2>1, <2>2, <2>3, <2>4, <2>5 DEF Query!Server
<1>3. CASE UNCHANGED queryVars
  BY <1>3 DEF queryVars, HasSession
<1>4. QED
  BY <1>2, <1>3 DEF Next, vars

\* No run is left waiting for a callback that cannot come, and it exits after at
\* most five steps that are owed to it, whether the connection is refused, lost
\* or answers (async-test/index.js:11-24): what EveryRunExits adds is that they
\* are taken.
THEOREM RunsProceed == Spec => []NoRunIsStuck /\ RunsCountDown
<1>1. Init => QueryInv /\ HasSession
  BY InitQueryInv DEF Init, Query!Init, HasSession
<1>2. Spec => [](QueryInv /\ HasSession)
  BY <1>1, NextQueryInv, NextHasSession, PTL DEF Spec
<1>3. QueryInv /\ HasSession => NoRunIsStuck
  BY DEF QueryInv, Query!TypeOK, HasSession, NoRunIsStuck, StepsLeft
<1>4. QueryInv /\ [Next]_vars
        => [\A r \in Runs : /\ StepsLeft(r)' <= StepsLeft(r)
                            /\ Owed(r) => StepsLeft(r)' < StepsLeft(r)]_vars
  <2> SUFFICES ASSUME QueryInv, Next, NEW r \in Runs
               PROVE  /\ StepsLeft(r)' <= StepsLeft(r)
                      /\ Owed(r) => StepsLeft(r)' < StepsLeft(r)
    OBVIOUS
  <2>1. StepsLeft(r) \in Nat
    BY DEF QueryInv, Query!TypeOK, StepsLeft
  <2>2. StepsLeft(r)' \in Nat
    BY NextQueryInv DEF QueryInv, Query!TypeOK, StepsLeft
  <2>3. CASE \E q \in Runs : Owed(q)
    <3> PICK q \in Runs : Owed(q)
      BY <2>3
    <3>1. CASE q = r
      <4>1. StepsLeft(r)' < StepsLeft(r)
        BY <3>1, OwedCountDown
      <4>2. StepsLeft(r)' \in Int
        BY <2>2
      <4>3. QED
        BY <2>1, <4>1, <4>2
    <3>2. CASE q # r
      <4>1. StepsLeft(r)' = StepsLeft(r)
        BY <3>2, OwedCountDown
      <4>2. QED
        BY <2>1, <4>1, OwedCountDown
    <3>3. QED
      BY <3>1, <3>2
  <2>4. CASE \E q \in Runs : Query!Lost(q) \/ Query!Closes(q)
    <3>1. StepsLeft(r)' <= StepsLeft(r)
      BY <2>1, <2>4 DEF QueryInv, Query!TypeOK, Query!Lost, Query!Closes, StepsLeft
    <3>2. QED
      BY <3>1, OwedCountDown
  <2>5. CASE UNCHANGED queryVars
    <3>1. StepsLeft(r)' = StepsLeft(r)
      BY <2>5 DEF queryVars, StepsLeft
    <3>2. QED
      BY <2>1, <3>1, OwedCountDown
  <2>6. QED
    BY <2>3, <2>4, <2>5 DEF Next, Query!Next, Query!Server, Owed
<1>5. QED
  BY <1>2, <1>3, <1>4, PTL DEF Spec, RunsCountDown

--------------------------------------------------------------------------------
(* enum-tests.ts *)

ByName(k)   == [key |-> Enum!Name(Names[k]), value |-> Enum!Number(First + k - 1)]
ByNumber(k) == [key |-> Enum!Number(First + k - 1), value |-> Enum!Name(Names[k])]

\* The two entries of each member so far, and no other.
Entries ==
  /\ members \in 0 .. Len(Names)
  /\ \A k \in 1 .. members : ByName(k) \in Direction /\ ByNumber(k) \in Direction
  /\ \A e \in Direction : \E k \in 1 .. members : e = ByName(k) \/ e = ByNumber(k)

\* The tables are made when the enum is complete.
TableOf(t, i) ==
  IF t = 4 THEN Enum!Lookup(Enum!Number(i))
  ELSE IF t = 2 THEN Enum!Number(i)
  ELSE Enum!Lookup(Enum!Name(Names[i]))

Made ==
  \/ actions = <<>> /\ shown = 0
  \/ /\ members = Len(Names)
     /\ shown \in 0 .. 4 /\ Len(actions) = 4
     /\ \A t \in 1 .. 4 : actions[t] = [i \in DOMAIN Names |-> TableOf(t, i)]

EnumInv == Entries /\ Made

LEMMA NamesFacts ==
  /\ Len(Names) \in Nat /\ DOMAIN Names = 1 .. Len(Names)
  /\ First \in Nat
  /\ \A i, j \in 1 .. Len(Names) : Names[i] = Names[j] => i = j
BY NamesAssumption

\* Keys of different members are different.
LEMMA KeysDiffer ==
  ASSUME NEW j \in 1 .. Len(Names), NEW k \in 1 .. Len(Names)
  PROVE  /\ ByName(j).key # ByNumber(k).key
         /\ ByName(j).key = ByName(k).key => j = k
         /\ ByNumber(j).key = ByNumber(k).key => j = k
<1>1. Enum!Name(Names[j]) # Enum!Number(First + k - 1)
  BY DEF Enum!Name, Enum!Number
<1>2. Enum!Name(Names[j]) = Enum!Name(Names[k]) => j = k
  BY NamesFacts DEF Enum!Name
<1>3. Enum!Number(First + j - 1) = Enum!Number(First + k - 1) => j = k
  BY NamesFacts DEF Enum!Number
<1>4. QED
  BY <1>1, <1>2, <1>3 DEF ByName, ByNumber

LEMMA InitEnumInv == Enum!Init => EnumInv
BY NamesFacts DEF Enum!Init, EnumInv, Entries, Made

\* The enum gives for a name its number and for a number its name.
LEMMA LookupFacts ==
  ASSUME Entries, NEW k \in 1 .. members
  PROVE  /\ Enum!Lookup(Enum!Name(Names[k])) = Enum!Number(First + k - 1)
         /\ Enum!Lookup(Enum!Number(First + k - 1)) = Enum!Name(Names[k])
<1>1. k \in 1 .. Len(Names) /\ \A j \in 1 .. members : j \in 1 .. Len(Names)
  BY NamesFacts DEF Entries
<1>2. ByName(k) \in Direction /\ ByNumber(k) \in Direction
  BY DEF Entries
<1>3. ASSUME NEW e \in Direction, e.key = ByName(k).key
      PROVE  e = ByName(k)
  BY <1>1, <1>3, KeysDiffer DEF Entries
<1>4. ASSUME NEW e \in Direction, e.key = ByNumber(k).key
      PROVE  e = ByNumber(k)
  BY <1>1, <1>4, KeysDiffer DEF Entries
<1>5. Enum!Lookup(ByName(k).key) = ByName(k).value
  BY <1>2, <1>3 DEF Enum!Lookup
<1>6. Enum!Lookup(ByNumber(k).key) = ByNumber(k).value
  BY <1>2, <1>4 DEF Enum!Lookup
<1>7. QED
  BY <1>5, <1>6 DEF ByName, ByNumber

LEMMA MemberEnumInv ==
  ASSUME EnumInv, Enum!Member
  PROVE  EnumInv'
<1> DEFINE n == members + 1
<1>1. /\ members' = n /\ n \in 1 .. Len(Names) /\ members \in Nat
      /\ \A k \in 1 .. members : k \in 1 .. Len(Names)
      /\ UNCHANGED <<actions, shown>>
  BY NamesFacts DEF Enum!Member, EnumInv, Entries
<1>2. First + n - 1 = First + members
  BY <1>1, NamesFacts
<1>3. Direction' = {e \in Direction : e.key \notin {ByName(n).key, ByNumber(n).key}}
                     \cup {ByName(n), ByNumber(n)}
  BY <1>2 DEF Enum!Member, ByName, ByNumber
<1> HIDE DEF n
<1>4. ASSUME NEW k \in 1 .. members
      PROVE  ByName(k) \in Direction' /\ ByNumber(k) \in Direction'
  <2>1. k # n
    BY <1>1 DEF n
  <2>2. /\ ByName(k).key \notin {ByName(n).key, ByNumber(n).key}
        /\ ByNumber(k).key \notin {ByName(n).key, ByNumber(n).key}
    BY <1>1, <2>1, KeysDiffer
  <2>3. ByName(k) \in Direction /\ ByNumber(k) \in Direction
    BY DEF EnumInv, Entries
  <2>4. QED
    BY <1>3, <2>2, <2>3
<1>5. \A k \in 1 .. members' : k \in 1 .. members \/ k = n
  BY <1>1 DEF n
<1>6. \A k \in 1 .. members' : ByName(k) \in Direction' /\ ByNumber(k) \in Direction'
  BY <1>3, <1>4, <1>5
<1>7. \A e \in Direction' : \E k \in 1 .. members' : e = ByName(k) \/ e = ByNumber(k)
  <2>1. 1 .. members \subseteq 1 .. members' /\ n \in 1 .. members'
    BY <1>1 DEF n
  <2>2. QED
    BY <1>3, <2>1 DEF EnumInv, Entries
<1>8. members' \in 0 .. Len(Names)
  BY <1>1
<1>9. actions = <<>> /\ shown = 0
  <2>1. members < Len(Names) /\ members \in Nat /\ Len(Names) \in Nat
    BY <1>1, NamesFacts DEF Enum!Member
  <2>2. QED
    BY <2>1 DEF EnumInv, Made
<1>10. QED
  BY <1>1, <1>6, <1>7, <1>8, <1>9 DEF EnumInv, Entries, Made, ByName, ByNumber

\* Once the enum is complete, what the tables are made of is settled.
LEMMA EnumSettled ==
  ASSUME UNCHANGED <<Direction, members>>
  PROVE  /\ Entries => Entries'
         /\ \A t, i : TableOf(t, i)' = TableOf(t, i)
<1>1. Direction' = Direction /\ members' = members
  OBVIOUS
<1>2. Entries => Entries'
  BY <1>1 DEF Entries, ByName, ByNumber
<1>3. \A t, i : TableOf(t, i)' = TableOf(t, i)
  BY <1>1 DEF TableOf, Enum!Lookup
<1>4. QED
  BY <1>2, <1>3

LEMMA NextEnumInv ==
  ASSUME EnumInv, [Enum!Next]_<<Direction, members, actions, shown>>
  PROVE  EnumInv'
<1>1. CASE Enum!Member
  BY <1>1, MemberEnumInv
<1>2. CASE Enum!Tables
  <2>1. /\ members = Len(Names) /\ shown = 0
        /\ UNCHANGED <<Direction, members, shown>>
        /\ actions' = <<[i \in DOMAIN Names |-> TableOf(1, i)],
                        [i \in DOMAIN Names |-> TableOf(2, i)],
                        [i \in DOMAIN Names |-> TableOf(3, i)],
                        [i \in DOMAIN Names |-> TableOf(4, i)]>>
    BY <1>2 DEF Enum!Tables, EnumInv, Made, TableOf
  <2>2. Len(actions') = 4 /\ \A t \in 1 .. 4 : actions'[t] = [i \in DOMAIN Names |-> TableOf(t, i)]
    BY <2>1
  <2>3. Entries' /\ \A t, i : TableOf(t, i)' = TableOf(t, i)
    BY <2>1, EnumSettled DEF EnumInv
  <2>4. \A t \in 1 .. 4 : actions'[t] = [i \in DOMAIN Names |-> TableOf(t, i)']
    BY <2>2, <2>3
  <2>5. Made'
    BY <2>1, <2>2, <2>4 DEF Made
  <2>6. QED
    BY <2>3, <2>5 DEF EnumInv
<1>3. CASE Enum!Show
  <2>1. shown < Len(actions) /\ shown' = shown + 1 /\ UNCHANGED <<Direction, members, actions>>
    BY <1>3 DEF Enum!Show
  <2>2. Entries' /\ \A t, i : TableOf(t, i)' = TableOf(t, i)
    BY <2>1, EnumSettled DEF EnumInv
  <2>3. ~(actions = <<>> /\ shown = 0)
    <3>1. Len(<<>>) = 0
      OBVIOUS
    <3>2. QED
      BY <2>1, <3>1
  <2>4. /\ members = Len(Names) /\ Len(actions) = 4 /\ shown \in 0 .. 4
        /\ \A t \in 1 .. 4 : actions[t] = [i \in DOMAIN Names |-> TableOf(t, i)]
    BY <2>3 DEF EnumInv, Made
  <2>5. \A t \in 1 .. 4 : actions'[t] = [i \in DOMAIN Names |-> TableOf(t, i)']
    BY <2>1, <2>2, <2>4
  <2>6. members' = Len(Names) /\ Len(actions') = 4 /\ shown' \in 0 .. 4
    BY <2>1, <2>4
  <2>7. Made'
    BY <2>5, <2>6 DEF Made
  <2>8. QED
    BY <2>2, <2>7 DEF EnumInv
<1>4. CASE UNCHANGED <<Direction, members, actions, shown>>
  <2>1. Entries' /\ \A t, i : TableOf(t, i)' = TableOf(t, i)
    BY <1>4, EnumSettled DEF EnumInv
  <2>2. Made'
    BY <1>4, <2>1 DEF EnumInv, Made
  <2>3. QED
    BY <2>1, <2>2 DEF EnumInv
<1>5. QED
  BY <1>1, <1>2, <1>3, <1>4 DEF Enum!Next

\* An enum of any members that starts at 1 gives the four tables of enum-tests.ts
\* the same directions, whichever way they name them (enum-tests.ts:13-39).
THEOREM TablesNameOneDirection ==
  ASSUME First = 1
  PROVE  Spec => []TablesAgree
<1>1. Init => EnumInv
  BY InitEnumInv DEF Init
<1>2. EnumInv /\ [Next]_vars => EnumInv'
  BY NextEnumInv DEF Next, vars, enumVars
<1>3. EnumInv => TablesAgree
  <2> SUFFICES ASSUME EnumInv, NEW t \in 1 .. shown, NEW i \in DOMAIN actions[t]
               PROVE  /\ Enum!Resolve(actions[t][i]) = Enum!Lookup(Enum!Name(Names[i]))
                      /\ Enum!Lookup(Enum!Resolve(actions[t][i])) = Enum!Name(Names[i])
    BY DEF TablesAgree, Enum!TablesAgree
  <2>1. /\ members = Len(Names) /\ t \in 1 .. 4
        /\ actions[t] = [j \in DOMAIN Names |-> TableOf(t, j)]
    BY DEF EnumInv, Made
  <2>2. i \in 1 .. members /\ actions[t][i] = TableOf(t, i) /\ First + i - 1 = i
    BY <2>1, NamesFacts
  <2>3. /\ Enum!Lookup(Enum!Name(Names[i])) = Enum!Number(i)
        /\ Enum!Lookup(Enum!Number(i)) = Enum!Name(Names[i])
    BY <2>2, LookupFacts DEF EnumInv
  <2>4. actions[t][i] = Enum!Number(i) \/ actions[t][i] = Enum!Name(Names[i])
    BY <2>2, <2>3 DEF TableOf
  <2>5. Enum!Resolve(actions[t][i]) = Enum!Number(i)
    <3>1. Enum!Resolve(Enum!Number(i)) = Enum!Number(i)
      BY DEF Enum!Resolve, Enum!Number
    <3>2. Enum!Resolve(Enum!Name(Names[i])) = Enum!Number(i)
      BY <2>3 DEF Enum!Resolve, Enum!Name
    <3>3. QED
      BY <2>4, <3>1, <3>2
  <2>6. QED
    BY <2>3, <2>5
<1>4. QED
  BY <1>1, <1>2, <1>3, PTL DEF Spec

--------------------------------------------------------------------------------
(* The sorts of set-test.ts and basic-function.ts. *)

LEMMA LeastOf ==
  ASSUME NEW T \in SUBSET Nat, T # {}
  PROVE  \E x \in T : \A y \in T : x <= y
<1>1. IsWellFoundedOn(OpToRel(<, Nat), Nat)
  BY NatLessThanWellFounded
<1>2. PICK x \in T : \A y \in T : ~(<<y, x>> \in OpToRel(<, Nat))
  BY <1>1, WFMin
<1>3. \A y \in T : ~(y < x)
  BY <1>2 DEF OpToRel
<1>4. QED
  BY <1>3

LEMMA GreatestOf ==
  ASSUME NEW n \in Nat, NEW T \in SUBSET (1 .. n), T # {}
  PROVE  \E x \in T : \A y \in T : y <= x
<1> DEFINE U == {n - y : y \in T}
<1>1. \A y \in T : n - y \in Nat
  OBVIOUS
<1>2. U \in SUBSET Nat /\ U # {}
  BY <1>1
<1>3. PICK u \in U : \A v \in U : u <= v
  BY <1>2, LeastOf
<1>4. PICK x \in T : u = n - x
  OBVIOUS
<1>5. \A y \in T : n - x <= n - y
  BY <1>3, <1>4
<1>6. QED
  BY <1>4, <1>5

Sign(a, b) == IF a < b THEN "<" ELSE IF a > b THEN ">" ELSE "="

LEMMA DigitsFacts ==
  ASSUME NEW n \in 0 .. 99
  PROVE  n = 10 * (n \div 10) + (n % 10) /\ n % 10 \in 0 .. 9 /\ n \div 10 \in 0 .. 9
OBVIOUS

\* Strings differ where they first differ.
LEMMA FirstDifference ==
  ASSUME NEW l, NEW r, NEW k \in Nat,
         k \in DOMAIN Sort!Numeral(l) \cap DOMAIN Sort!Numeral(r),
         Sort!Numeral(l)[k] # Sort!Numeral(r)[k],
         \A j \in DOMAIN Sort!Numeral(l) \cap DOMAIN Sort!Numeral(r) :
           j \in Nat /\ (Sort!Numeral(l)[j] # Sort!Numeral(r)[j] => k <= j)
  PROVE  Sort!ByString(l, r) = IF Sort!Numeral(l)[k] < Sort!Numeral(r)[k] THEN "<" ELSE ">"
<1> DEFINE a == Sort!Numeral(l)
           b == Sort!Numeral(r)
           d == {j \in DOMAIN a \cap DOMAIN b : a[j] # b[j]}
           c == CHOOSE j \in d : \A i \in d : j <= i
<1>1. k \in d /\ \A j \in d : j \in Nat /\ k <= j
  OBVIOUS
<1>2. Sort!ByString(l, r) =
        IF d # {} THEN (IF a[c] < b[c] THEN "<" ELSE ">")
        ELSE IF Len(a) = Len(b) THEN "=" ELSE IF Len(a) < Len(b) THEN "<" ELSE ">"
  BY DEF Sort!ByString
<1> HIDE DEF a, b, d
<1>3. c \in d /\ \A i \in d : c <= i
  BY <1>1
<1>4. c <= k /\ k <= c /\ c \in Nat
  BY <1>1, <1>3
<1>5. c = k
  BY <1>4
<1>6. QED
  BY <1>1, <1>2, <1>5 DEF a, b

\* Among numbers with numerals of one length the order of the numerals, as
\* strings, is that of the numbers.
LEMMA StringOrder ==
  ASSUME NEW l \in Numbers, NEW r \in Numbers
  PROVE  Sort!ByString(l, r) = Sign(l, r) /\ l \in Nat /\ r \in Nat
<1>1. /\ l \in 0 .. 99 /\ r \in 0 .. 99
      /\ Len(Sort!Numeral(l)) = Len(Sort!Numeral(r))
  BY NumbersAssumption DEF Sort!NumbersOfOneLength
<1>2. CASE l = r
  BY <1>1, <1>2 DEF Sort!ByString, Sign
<1>3. CASE l # r /\ l < 10 /\ r < 10
  <2>1. Sort!Numeral(l) = <<l>> /\ Sort!Numeral(r) = <<r>>
    BY <1>3 DEF Sort!Numeral
  <2>2. Sort!ByString(l, r) = IF Sort!Numeral(l)[1] < Sort!Numeral(r)[1] THEN "<" ELSE ">"
    BY <1>3, <2>1, FirstDifference
  <2>3. QED
    BY <1>1, <1>3, <2>1, <2>2 DEF Sign
<1>4. CASE l # r /\ ~(l < 10) /\ ~(r < 10)
  <2>1. /\ Sort!Numeral(l) = <<l \div 10, l % 10>> /\ Sort!Numeral(r) = <<r \div 10, r % 10>>
    BY <1>4 DEF Sort!Numeral
  <2>2. /\ DOMAIN Sort!Numeral(l) = {1, 2} /\ DOMAIN Sort!Numeral(r) = {1, 2}
        /\ Sort!Numeral(l)[1] = l \div 10 /\ Sort!Numeral(l)[2] = l % 10
        /\ Sort!Numeral(r)[1] = r \div 10 /\ Sort!Numeral(r)[2] = r % 10
    BY <2>1
  <2>3. CASE l \div 10 # r \div 10
    <3>1. Sort!ByString(l, r) = IF l \div 10 < r \div 10 THEN "<" ELSE ">"
      BY <2>2, <2>3, FirstDifference
    <3>2. l < r <=> l \div 10 < r \div 10
      BY <1>1, <2>3, DigitsFacts
    <3>3. QED
      BY <1>1, <1>4, <3>1, <3>2 DEF Sign
  <2>4. CASE l \div 10 = r \div 10
    <3>1. l % 10 # r % 10 /\ (l < r <=> l % 10 < r % 10)
      BY <1>1, <1>4, <2>4, DigitsFacts
    <3>2. Sort!ByString(l, r) = IF l % 10 < r % 10 THEN "<" ELSE ">"
      BY <2>2, <2>4, <3>1, FirstDifference
    <3>3. QED
      BY <1>1, <1>4, <3>1, <3>2 DEF Sign
  <2>5. QED
    BY <2>3, <2>4
<1>5. l < 10 <=> r < 10
  <2>1. \A n : Len(Sort!Numeral(n)) = IF n < 10 THEN 1 ELSE 2
    BY DEF Sort!Numeral
  <2>2. (IF l < 10 THEN 1 ELSE 2) = (IF r < 10 THEN 1 ELSE 2)
    BY <1>1, <2>1
  <2>3. QED
    BY <2>2
<1>6. QED
  BY <1>1, <1>2, <1>3, <1>4, <1>5

\* What the scripts sort, and what they sort it by.
SortScripts == {"nua", "tsa", "data"}
Elements == IF script = "data" THEN [id : Numbers, text : Nat] ELSE Numbers
Key(x)   == IF script = "data" THEN x.id ELSE x

LEMMA OrderIsByKey ==
  ASSUME NEW x \in Elements, NEW y \in Elements
  PROVE  Sort!Order(x, y) = Sign(Key(x), Key(y)) /\ Key(x) \in Nat /\ Key(y) \in Nat
<1>1. CASE script = "data"
  <2>1. x.id \in Numbers /\ y.id \in Numbers
    BY <1>1 DEF Elements
  <2>2. x.id \in Nat /\ y.id \in Nat
    BY <2>1, StringOrder
  <2>3. QED
    BY <1>1, <2>2 DEF Sort!Order, Sort!Compare, Sign, Key
<1>2. CASE script # "data"
  BY <1>2, StringOrder DEF Sort!Order, Elements, Key
<1>3. QED
  BY <1>1, <1>2

\* Both engines put x behind the elements that are not greater than x.
LEMMA PlaceFacts ==
  ASSUME NEW s \in Seq(Elements), NEW n \in Nat, n <= Len(s), NEW x \in Elements,
         \A i, j \in 1 .. n : i < j => Key(s[i]) <= Key(s[j])
  PROVE  /\ Sort!Place(s, n, x) \in 1 .. n + 1
         /\ \A k \in 1 .. n : IF k < Sort!Place(s, n, x) THEN Key(s[k]) <= Key(x)
                                                         ELSE Key(x) < Key(s[k])
<1>1. \A k \in 1 .. n : k \in Nat /\ s[k] \in Elements
  <2>1. Len(s) \in Nat
    BY LenProperties
  <2>2. \A k \in 1 .. n : k \in 1 .. Len(s)
    BY <2>1
  <2>3. QED
    BY <2>2, ElementOfSeq
<1>2. ASSUME NEW k \in 1 .. n
      PROVE  /\ Key(x) \in Nat /\ Key(s[k]) \in Nat
             /\ Sort!Order(x, s[k]) = "<" <=> Key(x) < Key(s[k])
             /\ Sort!Order(s[k], x) # ">" <=> Key(s[k]) <= Key(x)
  <2>1. /\ Sort!Order(x, s[k]) = Sign(Key(x), Key(s[k]))
        /\ Sort!Order(s[k], x) = Sign(Key(s[k]), Key(x))
        /\ Key(x) \in Nat /\ Key(s[k]) \in Nat
    BY <1>1, OrderIsByKey
  <2>2. QED
    BY <2>1 DEF Sign
<1>3. CASE engine = "binary"
  <2> DEFINE after == {k \in 1 .. n : Sort!Order(x, s[k]) = "<"}
             c     == CHOOSE k \in after : \A j \in after : k <= j
  <2>1. Sort!Place(s, n, x) = IF after = {} THEN n + 1 ELSE c
    BY <1>3 DEF Sort!Place
  <2>2. \A k \in 1 .. n : k \in after <=> Key(x) < Key(s[k])
    BY <1>2
  <2>3. after \in SUBSET Nat /\ after \subseteq 1 .. n
    OBVIOUS
  <2> HIDE DEF after
  <2>4. CASE after = {}
    BY <1>2, <2>1, <2>2, <2>4
  <2>5. CASE after # {}
    <3>1. c \in after /\ \A j \in after : c <= j
      BY <2>3, <2>5, LeastOf
    <3> HIDE DEF c
    <3>2. Sort!Place(s, n, x) = c /\ c \in 1 .. n /\ Key(x) < Key(s[c])
      BY <2>1, <2>2, <2>3, <2>5, <3>1
    <3>3. ASSUME NEW k \in 1 .. n, k < c
          PROVE  Key(s[k]) <= Key(x)
      <4>1. k \notin after
        BY <3>1, <3>2, <3>3
      <4>2. QED
        BY <1>2, <2>2, <4>1
    <3>4. ASSUME NEW k \in 1 .. n, ~(k < c)
          PROVE  Key(x) < Key(s[k])
      <4>1. Key(s[c]) <= Key(s[k])
        <5>1. k = c \/ c < k
          BY <3>2, <3>4
        <5>2. Key(s[c]) \in Nat
          BY <1>2, <3>2
        <5>3. QED
          BY <3>2, <5>1, <5>2
      <4>2. Key(x) \in Nat /\ Key(s[c]) \in Nat /\ Key(s[k]) \in Nat
        BY <1>2, <3>2
      <4>3. QED
        BY <3>2, <4>1, <4>2
    <3>5. QED
      BY <3>2, <3>3, <3>4
  <2>6. QED
    BY <2>4, <2>5
<1>4. CASE engine # "binary"
  <2> DEFINE before == {k \in 1 .. n : Sort!Order(s[k], x) # ">"}
             c      == CHOOSE k \in before : \A j \in before : j <= k
  <2>1. Sort!Place(s, n, x) = IF before = {} THEN 1 ELSE 1 + c
    BY <1>4 DEF Sort!Place
  <2>2. \A k \in 1 .. n : k \in before <=> Key(s[k]) <= Key(x)
    BY <1>2
  <2>3. before \in SUBSET (1 .. n)
    OBVIOUS
  <2> HIDE DEF before
  <2>4. CASE before = {}
    <3>1. \A k \in 1 .. n : ~(k < 1) /\ Key(x) < Key(s[k])
      BY <1>2, <2>2, <2>4
    <3>2. QED
      BY <2>1, <2>4, <3>1
  <2>5. CASE before # {}
    <3>1. c \in before /\ \A j \in before : j <= c
      BY <2>3, <2>5, GreatestOf
    <3> HIDE DEF c
    <3>2. Sort!Place(s, n, x) = 1 + c /\ c \in 1 .. n /\ Key(s[c]) <= Key(x)
      BY <2>1, <2>2, <2>3, <2>5, <3>1
    <3>3. ASSUME NEW k \in 1 .. n, k < 1 + c
          PROVE  Key(s[k]) <= Key(x)
      <4>1. Key(s[k]) <= Key(s[c])
        <5>1. k = c \/ k < c
          BY <3>2, <3>3
        <5>2. Key(s[c]) \in Nat
          BY <1>2, <3>2
        <5>3. QED
          BY <3>2, <5>1, <5>2
      <4>2. Key(x) \in Nat /\ Key(s[c]) \in Nat /\ Key(s[k]) \in Nat
        BY <1>2, <3>2
      <4>3. QED
        BY <3>2, <4>1, <4>2
    <3>4. ASSUME NEW k \in 1 .. n, ~(k < 1 + c)
          PROVE  Key(x) < Key(s[k])
      <4>1. k \notin before
        BY <3>1, <3>2, <3>4
      <4>2. QED
        BY <1>2, <2>2, <4>1
    <3>5. QED
      BY <3>2, <3>3, <3>4
  <2>6. QED
    BY <2>4, <2>5
<1>5. QED
  BY <1>3, <1>4

\* Where an element was before the one behind the first n was put into place c.
From(c, n, i) == IF i < c \/ i > n + 1 THEN i ELSE IF i = c THEN n + 1 ELSE i - 1

LEMMA InsertFacts ==
  ASSUME NEW S, NEW s \in Seq(S), NEW n \in Nat, n < Len(s), NEW c \in 1 .. n + 1
  PROVE  LET t == Sort!InsertAt(Sort!RemoveAt(s, n + 1), c, s[n + 1])
         IN  /\ t \in Seq(S) /\ Len(t) = Len(s)
             /\ \A i \in 1 .. Len(s) : t[i] = s[From(c, n, i)]
<1> DEFINE a == SubSeq(s, 1, n)
           b == SubSeq(s, n + 2, Len(s))
           r == a \o b
           e == SubSeq(r, 1, c - 1)
           f == SubSeq(r, c, Len(r))
           x == <<s[n + 1]>>
           ex == e \o x
           t == ex \o f
<1>1. Len(s) \in Nat /\ n + 1 \in 1 .. Len(s) /\ \A i \in 1 .. Len(s) : s[i] \in S
  <2>1. Len(s) \in Nat
    BY LenProperties
  <2>2. QED
    BY <2>1, ElementOfSeq
<1>2. Sort!InsertAt(Sort!RemoveAt(s, n + 1), c, s[n + 1]) = t
  <2>1. (n + 1) - 1 = n /\ (n + 1) + 1 = n + 2
    OBVIOUS
  <2>2. QED
    BY <2>1 DEF Sort!InsertAt, Sort!RemoveAt
<1>3. a \in Seq(S) /\ Len(a) = n /\ \A i \in 1 .. n : a[i] = s[i]
  <2>1. \A i \in 1 .. n : s[i] \in S
    BY <1>1
  <2>2. /\ a \in Seq(S)
        /\ Len(a) = IF 1 <= n THEN n - 1 + 1 ELSE 0
        /\ \A i \in 1 .. n - 1 + 1 : a[i] = s[1 + i - 1]
    BY <2>1, SubSeqProperties
  <2> HIDE DEF a
  <2>3. QED
    BY <2>2
<1>4. /\ b \in Seq(S) /\ Len(b) = Len(s) - n - 1
      /\ \A i \in 1 .. Len(s) - n - 1 : b[i] = s[n + 1 + i]
  <2>1. \A i \in n + 2 .. Len(s) : s[i] \in S
    BY <1>1
  <2>2. /\ b \in Seq(S)
        /\ Len(b) = IF n + 2 <= Len(s) THEN Len(s) - (n + 2) + 1 ELSE 0
        /\ \A i \in 1 .. Len(s) - (n + 2) + 1 : b[i] = s[(n + 2) + i - 1]
    BY <1>1, <2>1, SubSeqProperties
  <2> HIDE DEF b
  <2>3. \A i \in 1 .. Len(s) - n - 1 :
          i \in 1 .. Len(s) - (n + 2) + 1 /\ (n + 2) + i - 1 = n + 1 + i
    BY <1>1
  <2>4. Len(b) = Len(s) - n - 1
    BY <1>1, <2>2
  <2>5. QED
    BY <2>2, <2>3, <2>4
<1> HIDE DEF a, b
<1>5. /\ r \in Seq(S) /\ Len(r) = Len(s) - 1
      /\ \A i \in 1 .. Len(s) - 1 : r[i] = IF i <= n THEN s[i] ELSE s[i + 1]
  <2>1. /\ r \in Seq(S) /\ Len(r) = Len(a) + Len(b)
        /\ \A i \in 1 .. Len(a) + Len(b) : r[i] = IF i <= Len(a) THEN a[i] ELSE b[i - Len(a)]
    BY <1>3, <1>4, ConcatProperties
  <2> HIDE DEF r
  <2>2. Len(a) + Len(b) = Len(s) - 1
    BY <1>1, <1>3, <1>4
  <2>3. ASSUME NEW i \in 1 .. Len(s) - 1
        PROVE  r[i] = IF i <= n THEN s[i] ELSE s[i + 1]
    <3>1. r[i] = IF i <= n THEN a[i] ELSE b[i - n]
      BY <1>3, <2>1, <2>2
    <3>2. CASE i <= n
      BY <1>3, <3>1, <3>2
    <3>3. CASE ~(i <= n)
      <4>1. i - n \in 1 .. Len(s) - n - 1 /\ n + 1 + (i - n) = i + 1
        BY <1>1, <3>3
      <4>2. QED
        BY <1>4, <3>1, <3>3, <4>1
    <3>4. QED
      BY <3>2, <3>3
  <2>4. QED
    BY <2>1, <2>2, <2>3
<1> HIDE DEF r
<1>6. \A i \in 1 .. Len(r) : r[i] \in S
  BY <1>5, ElementOfSeq
<1>7. e \in Seq(S) /\ Len(e) = c - 1 /\ \A i \in 1 .. c - 1 : e[i] = r[i]
  <2>1. \A i \in 1 .. c - 1 : r[i] \in S
    BY <1>1, <1>5, <1>6
  <2>2. /\ e \in Seq(S)
        /\ Len(e) = IF 1 <= c - 1 THEN (c - 1) - 1 + 1 ELSE 0
        /\ \A i \in 1 .. (c - 1) - 1 + 1 : e[i] = r[1 + i - 1]
    BY <2>1, SubSeqProperties
  <2> HIDE DEF e
  <2>3. QED
    BY <2>2
<1>8. /\ f \in Seq(S) /\ Len(f) = Len(s) - c
      /\ \A i \in 1 .. Len(s) - c : f[i] = r[c + i - 1]
  <2>1. \A i \in c .. Len(r) : r[i] \in S
    BY <1>1, <1>5, <1>6
  <2>2. /\ f \in Seq(S)
        /\ Len(f) = IF c <= Len(r) THEN Len(r) - c + 1 ELSE 0
        /\ \A i \in 1 .. Len(r) - c + 1 : f[i] = r[c + i - 1]
    BY <1>1, <1>5, <2>1, SubSeqProperties
  <2> HIDE DEF f
  <2>3. Len(f) = Len(s) - c /\ Len(r) - c + 1 = Len(s) - c
    BY <1>1, <1>5, <2>2
  <2>4. QED
    BY <2>2, <2>3
<1> HIDE DEF e, f
<1>9. /\ ex \in Seq(S) /\ Len(ex) = c /\ ex[c] = s[n + 1]
      /\ \A i \in 1 .. c - 1 : ex[i] = r[i]
  <2>1. x \in Seq(S) /\ Len(x) = 1 /\ x[1] = s[n + 1]
    BY <1>1
  <2> HIDE DEF x
  <2>2. /\ ex \in Seq(S) /\ Len(ex) = Len(e) + Len(x)
        /\ \A i \in 1 .. Len(e) + Len(x) : ex[i] = IF i <= Len(e) THEN e[i] ELSE x[i - Len(e)]
    BY <1>7, <2>1, ConcatProperties
  <2> HIDE DEF ex
  <2>3. Len(e) + Len(x) = c /\ c - Len(e) = 1
    BY <1>7, <2>1
  <2>4. \A i \in 1 .. c - 1 : i \in 1 .. c /\ i <= Len(e)
    BY <1>7
  <2>5. c \in 1 .. c /\ ~(c <= Len(e))
    BY <1>7
  <2>6. QED
    BY <1>7, <2>1, <2>2, <2>3, <2>4, <2>5
<1> HIDE DEF ex
<1>10. /\ t \in Seq(S) /\ Len(t) = Len(s)
       /\ \A i \in 1 .. Len(s) : t[i] = IF i <= c THEN ex[i] ELSE f[i - c]
  <2>1. /\ t \in Seq(S) /\ Len(t) = Len(ex) + Len(f)
        /\ \A i \in 1 .. Len(ex) + Len(f) : t[i] = IF i <= Len(ex) THEN ex[i] ELSE f[i - Len(ex)]
    BY <1>8, <1>9, ConcatProperties
  <2> HIDE DEF t
  <2>2. Len(ex) + Len(f) = Len(s)
    BY <1>1, <1>8, <1>9
  <2>3. QED
    BY <1>9, <2>1, <2>2
<1> HIDE DEF t
<1>11. ASSUME NEW i \in 1 .. Len(s)
       PROVE  t[i] = s[From(c, n, i)]
  <2>1. CASE i < c
    <3>1. i \in 1 .. c - 1 /\ i \in 1 .. Len(s) - 1 /\ i <= n /\ i <= c
      BY <1>1, <2>1
    <3>2. From(c, n, i) = i
      BY <2>1 DEF From
    <3>3. QED
      BY <1>5, <1>9, <1>10, <3>1, <3>2
  <2>2. CASE i = c
    <3>1. From(c, n, i) = n + 1
      BY <2>2 DEF From
    <3>2. i <= c
      BY <2>2
    <3>3. QED
      BY <1>9, <1>10, <2>2, <3>1, <3>2
  <2>3. CASE i > c
    <3>1. /\ ~(i <= c) /\ i - c \in 1 .. Len(s) - c /\ c + (i - c) - 1 = i - 1
          /\ i - 1 \in 1 .. Len(s) - 1 /\ (i - 1) + 1 = i
      BY <1>1, <2>3
    <3>2. t[i] = r[i - 1]
      BY <1>8, <1>10, <3>1
    <3>3. r[i - 1] = IF i - 1 <= n THEN s[i - 1] ELSE s[i]
      BY <1>5, <3>1
    <3>4. From(c, n, i) = IF i - 1 <= n THEN i - 1 ELSE i
      BY <2>3 DEF From
    <3>5. QED
      BY <3>2, <3>3, <3>4
  <2>4. QED
    BY <2>1, <2>2, <2>3
<1>12. QED
  BY <1>2, <1>10, <1>11

LEMMA FromFacts ==
  ASSUME NEW N \in Nat, NEW n \in Nat, n < N, NEW c \in 1 .. n + 1
  PROVE  /\ \A i \in 1 .. N : From(c, n, i) \in 1 .. N
         /\ \A i, j \in 1 .. N : From(c, n, i) = From(c, n, j) => i = j
         /\ \A k \in 1 .. N : \E i \in 1 .. N : From(c, n, i) = k
<1>1. \A i \in 1 .. N : From(c, n, i) \in 1 .. N
  BY DEF From
<1>2. \A i, j \in 1 .. N : From(c, n, i) = From(c, n, j) => i = j
  BY DEF From
<1>3. ASSUME NEW k \in 1 .. N
      PROVE  \E i \in 1 .. N : From(c, n, i) = k
  <2>1. CASE k < c \/ k > n + 1
    <3>1. From(c, n, k) = k
      BY <2>1 DEF From
    <3>2. QED
      BY <3>1
  <2>2. CASE k = n + 1
    <3>1. From(c, n, c) = k /\ c \in 1 .. N
      BY <2>2 DEF From
    <3>2. QED
      BY <3>1
  <2>3. CASE c <= k /\ k <= n
    <3>1. From(c, n, k + 1) = k /\ k + 1 \in 1 .. N
      BY <2>3 DEF From
    <3>2. QED
      BY <3>1
  <2>4. QED
    BY <2>1, <2>2, <2>3
<1>4. QED
  BY <1>1, <1>2, <1>3

\* p tells where the elements of the array were at first.  Those placed come from
\* the front, and two with one key are in the order they had.
Sorting(p) ==
  /\ p \in [1 .. Len(input) -> 1 .. Len(input)]
  /\ \A i, j \in 1 .. Len(input) : p[i] = p[j] => i = j
  /\ \A k \in 1 .. Len(input) : \E i \in 1 .. Len(input) : p[i] = k
  /\ \A i \in 1 .. Len(input) : work[i] = input[p[i]]
  /\ \A i \in 1 .. placed : p[i] \in 1 .. placed
  /\ \A i \in placed + 1 .. Len(input) : p[i] = i
  /\ \A i, j \in 1 .. placed :
       i < j => \/ Key(work[i]) < Key(work[j])
                \/ Key(work[i]) = Key(work[j]) /\ p[i] < p[j]

SortInv ==
  /\ input \in Seq(Elements) /\ work \in Seq(Elements)
  /\ Len(work) = Len(input) /\ placed \in 1 .. Len(input)
  /\ script = "data" => \A i \in 1 .. Len(input) : input[i].text = i
  /\ \E p : Sorting(p)

LEMMA SortingAtFirst ==
  ASSUME input \in Seq(Elements), work = input, placed = 1, Len(input) # 0
  PROVE  1 \in 1 .. Len(input) /\ \E p : Sorting(p)
<1>1. Len(input) \in Nat \ {0}
  BY LenProperties
<1>2. PICK p : p = [i \in 1 .. Len(input) |-> i]
  OBVIOUS
<1>3. 1 .. 1 = {1} /\ 1 \in 1 .. Len(input)
  BY <1>1
<1>4. Sorting(p)
  BY <1>2, <1>3 DEF Sorting
<1>5. QED
  BY <1>3, <1>4

LEMMA InitSortInv ==
  ASSUME Sort!Init
  PROVE  SortInv /\ script \in SortScripts
<1>1. PICK n \in 1 .. MaxLen : \E s \in [1 .. n -> Numbers] :
        input = IF script = "data" THEN Sort!Data(s) ELSE s
  BY DEF Sort!Init
<1>2. PICK s \in [1 .. n -> Numbers] :
        input = IF script = "data" THEN Sort!Data(s) ELSE s
  BY <1>1
<1>3. n \in Nat \ {0} /\ work = input /\ placed = 1 /\ script \in SortScripts
  BY <1>1, MaxLenAssumption DEF Sort!Init, SortScripts
<1>4. CASE script = "data"
  <2>1. input = [i \in 1 .. n |-> [id |-> s[i], text |-> i]]
    BY <1>2, <1>4 DEF Sort!Data
  <2>2. \A i \in 1 .. n : input[i] \in Elements /\ input[i].text = i
    BY <1>3, <1>4, <2>1 DEF Elements
  <2>3. input \in Seq(Elements) /\ Len(input) = n
    <3>1. input \in [1 .. n -> Elements]
      BY <2>1, <2>2
    <3>2. QED
      BY <1>3, <3>1
  <2>4. QED
    BY <1>3, <2>2, <2>3, SortingAtFirst DEF SortInv
<1>5. CASE script # "data"
  <2>1. input \in Seq(Elements) /\ Len(input) = n
    BY <1>2, <1>3, <1>5 DEF Elements
  <2>2. QED
    BY <1>3, <1>5, <2>1, SortingAtFirst DEF SortInv
<1>6. QED
  BY <1>4, <1>5

LEMMA SortStepSortInv ==
  ASSUME SortInv, Sort!SortStep
  PROVE  SortInv'
<1> DEFINE N == Len(input)
           n == placed
           x == work[n + 1]
           c == Sort!Place(work, n, x)
<1>1. /\ n < N /\ n \in Nat \ {0} /\ N \in Nat /\ placed' = n + 1
      /\ work' = Sort!InsertAt(Sort!RemoveAt(work, n + 1), c, x)
      /\ UNCHANGED <<script, engine, input>>
      /\ work \in Seq(Elements) /\ Len(work) = N
  <2>1. placed < Len(work) /\ Len(work) = Len(input) /\ placed \in 1 .. Len(input)
    BY DEF Sort!SortStep, SortInv
  <2>2. Len(input) \in Nat
    BY LenProperties DEF SortInv
  <2>3. QED
    BY <2>1, <2>2 DEF Sort!SortStep, Sort!Insert, SortInv
<1>2. \A i \in 1 .. N : work[i] \in Elements /\ Key(work[i]) \in Nat
  BY <1>1, ElementOfSeq, OrderIsByKey
<1>3. PICK p : Sorting(p)
  BY DEF SortInv
<1>4. \A i, j \in 1 .. n : i < j => Key(work[i]) <= Key(work[j])
  <2>1. \A i \in 1 .. n : i \in 1 .. N
    BY <1>1
  <2>2. \A i, j \in 1 .. n : i < j => \/ Key(work[i]) < Key(work[j])
                                      \/ Key(work[i]) = Key(work[j])
    BY <1>3 DEF Sorting
  <2>3. QED
    BY <1>2, <2>1, <2>2
<1>5. /\ c \in 1 .. n + 1
      /\ \A k \in 1 .. n : IF k < c THEN Key(work[k]) <= Key(x) ELSE Key(x) < Key(work[k])
  <2>1. x \in Elements
    BY <1>1, <1>2
  <2>2. QED
    BY <1>1, <1>4, <2>1, PlaceFacts
<1> HIDE DEF c
<1>6. /\ work' \in Seq(Elements) /\ Len(work') = N
      /\ \A i \in 1 .. N : work'[i] = work[From(c, n, i)]
  <2>1. work \in Seq(Elements) /\ n \in Nat /\ n < Len(work) /\ c \in 1 .. n + 1
    BY <1>1, <1>5
  <2>2. work' = Sort!InsertAt(Sort!RemoveAt(work, n + 1), c, work[n + 1]) /\ Len(work) = N
    BY <1>1
  <2> HIDE DEF N, n
  <2>3. LET t == Sort!InsertAt(Sort!RemoveAt(work, n + 1), c, work[n + 1])
        IN  /\ t \in Seq(Elements) /\ Len(t) = Len(work)
            /\ \A i \in 1 .. Len(work) : t[i] = work[From(c, n, i)]
    BY <2>1, InsertFacts
  <2>4. QED
    BY <2>2, <2>3
<1>7. /\ \A i \in 1 .. N : From(c, n, i) \in 1 .. N
      /\ \A i, j \in 1 .. N : From(c, n, i) = From(c, n, j) => i = j
      /\ \A k \in 1 .. N : \E i \in 1 .. N : From(c, n, i) = k
  <2>1. N \in Nat /\ n \in Nat /\ n < N /\ c \in 1 .. n + 1
    BY <1>1, <1>5
  <2> HIDE DEF N, n
  <2>2. QED
    BY <2>1, FromFacts
<1> DEFINE Q(i) == From(c, n, i)
<1>8. PICK q : q = [i \in 1 .. N |-> p[Q(i)]]
  OBVIOUS
<1>9. /\ p \in [1 .. N -> 1 .. N]
      /\ \A i, j \in 1 .. N : p[i] = p[j] => i = j
      /\ \A k \in 1 .. N : \E i \in 1 .. N : p[i] = k
      /\ \A i \in 1 .. N : work[i] = input[p[i]]
  BY <1>3 DEF Sorting
<1>10. /\ \A i \in 1 .. n : p[i] \in 1 .. n
       /\ \A i \in n + 1 .. N : p[i] = i
       /\ \A i, j \in 1 .. n : i < j => \/ Key(work[i]) < Key(work[j])
                                        \/ Key(work[i]) = Key(work[j]) /\ p[i] < p[j]
  BY <1>3 DEF Sorting
<1>11. Sorting(q)'
  <2>1. q \in [1 .. N -> 1 .. N]
    BY <1>7, <1>8, <1>9
  <2>2. \A i, j \in 1 .. N : q[i] = q[j] => i = j
    BY <1>7, <1>8, <1>9
  <2>3. \A k \in 1 .. N : \E i \in 1 .. N : q[i] = k
    BY <1>7, <1>8, <1>9
  <2>4. \A i \in 1 .. N : work'[i] = input[q[i]]
    BY <1>6, <1>7, <1>8, <1>9
  <2>5. \A i \in 1 .. n + 1 : Q(i) \in 1 .. n + 1 /\ i \in 1 .. N
    BY <1>1, <1>5 DEF From
  <2>6. \A i \in 1 .. n + 1 : q[i] \in 1 .. n + 1
    <3>1. \A k \in 1 .. n + 1 : p[k] \in 1 .. n + 1
      <4>1. p[n + 1] = n + 1
        BY <1>1, <1>10
      <4>2. \A k \in 1 .. n + 1 : k \in 1 .. n \/ k = n + 1
        BY <1>1
      <4>3. 1 .. n \subseteq 1 .. n + 1 /\ n + 1 \in 1 .. n + 1
        BY <1>1
      <4>4. QED
        BY <1>10, <4>1, <4>2, <4>3
    <3>2. QED
      BY <1>8, <2>5, <3>1
  <2>7. \A i \in (n + 1) + 1 .. N : q[i] = i
    <3>1. \A i \in (n + 1) + 1 .. N : Q(i) = i /\ i \in n + 1 .. N /\ i \in 1 .. N
      BY <1>1, <1>5 DEF From
    <3>2. QED
      BY <1>8, <1>10, <3>1
  <2>8. ASSUME NEW i \in 1 .. n + 1, NEW j \in 1 .. n + 1, i < j
        PROVE  \/ Key(work'[i]) < Key(work'[j])
               \/ Key(work'[i]) = Key(work'[j]) /\ q[i] < q[j]
    <3>1. /\ i \in 1 .. N /\ j \in 1 .. N
          /\ work'[i] = work[Q(i)] /\ work'[j] = work[Q(j)]
          /\ q[i] = p[Q(i)] /\ q[j] = p[Q(j)]
      BY <1>6, <1>8, <2>5
    <3>2. \/ Q(i) \in 1 .. n /\ Q(j) \in 1 .. n /\ Q(i) < Q(j)
          \/ Q(i) \in 1 .. n /\ Q(i) < c /\ Q(j) = n + 1
          \/ Q(i) = n + 1 /\ Q(j) \in 1 .. n /\ ~(Q(j) < c)
      BY <1>1, <1>5, <2>8 DEF From
    <3> HIDE DEF Q
    <3>3. CASE Q(i) \in 1 .. n /\ Q(j) \in 1 .. n /\ Q(i) < Q(j)
      BY <1>10, <3>1, <3>3
    <3>4. CASE Q(i) \in 1 .. n /\ Q(i) < c /\ Q(j) = n + 1
      <4>1. Key(work[Q(i)]) <= Key(x) /\ work[Q(j)] = x
        BY <1>5, <3>4
      <4>2. p[Q(i)] \in 1 .. n /\ p[Q(j)] = n + 1
        BY <1>1, <1>10, <3>4
      <4>3. p[Q(i)] < p[Q(j)]
        BY <1>1, <4>2
      <4>4. Q(i) \in 1 .. N /\ n + 1 \in 1 .. N
        BY <1>1, <3>4
      <4>5. Key(work[Q(i)]) \in Nat /\ Key(x) \in Nat
        BY <1>2, <4>4
      <4>6. Key(work[Q(i)]) < Key(x) \/ Key(work[Q(i)]) = Key(x)
        BY <4>1, <4>5
      <4>7. QED
        BY <3>1, <4>1, <4>3, <4>6
    <3>5. CASE Q(i) = n + 1 /\ Q(j) \in 1 .. n /\ ~(Q(j) < c)
      <4>1. Key(x) < Key(work[Q(j)]) /\ work[Q(i)] = x
        BY <1>5, <3>5
      <4>2. QED
        BY <3>1, <4>1
    <3>6. QED
      BY <3>2, <3>3, <3>4, <3>5
  <2>9. \A y : Key(y)' = Key(y)
    BY <1>1 DEF Key
  <2>10. QED
    BY <1>1, <2>1, <2>2, <2>3, <2>4, <2>6, <2>7, <2>8, <2>9 DEF Sorting
<1>12. Elements' = Elements
  BY <1>1 DEF Elements
<1>13. placed' \in 1 .. N
  BY <1>1
<1>14. QED
  BY <1>1, <1>6, <1>11, <1>12, <1>13 DEF SortInv

LEMMA SettledSortInv ==
  ASSUME SortInv, UNCHANGED <<script, sortVars>>
  PROVE  SortInv'
<1>1. /\ script' = script /\ input' = input /\ work' = work /\ placed' = placed
  BY DEF sortVars
<1>2. \A p : Sorting(p) => Sorting(p)'
  BY <1>1 DEF Sorting, Key
<1>3. QED
  BY <1>1, <1>2 DEF SortInv, Elements

SortedScript == script \in SortScripts => SortInv

LEMMA NextSortInv == SortedScript /\ [Next]_vars => SortedScript'
<1> SUFFICES ASSUME SortedScript, [Next]_vars
             PROVE  SortedScript'
  OBVIOUS
<1>1. CASE script \in SortScripts /\ Sort!Next
  <2>1. SortInv' /\ script' = script
    BY <1>1, SortStepSortInv DEF Sort!Next, Sort!SortStep, SortedScript
  <2>2. QED
    BY <2>1 DEF SortedScript
<1>2. CASE UNCHANGED <<script, sortVars>>
  BY <1>2, SettledSortInv DEF SortedScript
<1>3. QED
  BY <1>1, <1>2 DEF Next, vars, SortScripts

LEMMA InitSortedScript == Init => SortedScript
<1> SUFFICES ASSUME Init, script \in SortScripts
             PROVE  SortInv
  BY DEF SortedScript
<1>1. Sort!Init
  BY DEF Init, SortScripts
<1>2. QED
  BY <1>1, InitSortInv

LEMMA SortedAlways == Spec => []SortedScript
BY InitSortedScript, NextSortInv, PTL DEF Spec

LEMMA SortInvFacts ==
  ASSUME SortInv
  PROVE  /\ Len(input) \in Nat
         /\ DOMAIN input = 1 .. Len(input) /\ DOMAIN work = 1 .. Len(input)
         /\ \A i \in 1 .. Len(input) : work[i] \in Elements /\ input[i] \in Elements
BY LenProperties, ElementOfSeq DEF SortInv

\* Cardinality is the same for the sorting scripts.
LEMMA SortCardinality ==
  ASSUME NEW S
  PROVE  Sort!Cardinality(S) = Cardinality(S)
BY DEF Sort!Cardinality, Cardinality

\* An array has an element as often as the one it was made of by moving elements.
LEMMA SameOccurrences ==
  ASSUME SortInv, NEW x
  PROVE  Sort!Occurrences(work, x) = Sort!Occurrences(input, x)
<1> DEFINE A == {i \in DOMAIN work : work[i] = x}
           B == {i \in DOMAIN input : input[i] = x}
<1>1. PICK p : Sorting(p)
  BY DEF SortInv
<1>2. PICK f : f = [i \in A |-> p[i]]
  OBVIOUS
<1>3. f \in [A -> B]
  BY <1>1, <1>2, SortInvFacts DEF Sorting
<1>4. \A i, j \in A : f[i] = f[j] => i = j
  BY <1>1, <1>2, SortInvFacts DEF Sorting
<1>5. \A k \in B : \E i \in A : f[i] = k
  BY <1>1, <1>2, SortInvFacts DEF Sorting
<1>6. f \in Bijection(A, B)
  BY <1>3, <1>4, <1>5 DEF Bijection, Injection, Surjection, IsInjective
<1>7. IsFiniteSet(A)
  <2>1. IsFiniteSet(1 .. Len(input)) /\ A \subseteq 1 .. Len(input)
    BY FS_Interval, SortInvFacts
  <2>2. QED
    BY <2>1, FS_Subset
<1> HIDE DEF A, B
<1>8. Cardinality(A) = Cardinality(B)
  BY <1>6, <1>7, FS_Bijection DEF ExistsBijection
<1>9. QED
  BY <1>8, SortCardinality DEF A, B, Sort!Occurrences

\* Both sorts keep every element and, as far as they have come, the order of the
\* comparator, for arrays of any length the engine sorts by insertion
\* (set-test.ts:19-26, basic-function.ts:14-16).
THEOREM SortKeepsElements == Spec => []SortInvariant
<1>1. SortedScript => SortInvariant
  <2> SUFFICES ASSUME SortInv
               PROVE  Sort!SortInvariant
    BY DEF SortedScript, SortScripts, SortInvariant
  <2>1. placed \in 1 .. Len(work) /\ Len(work) = Len(input)
    BY DEF SortInv
  <2>2. ASSUME NEW i \in 1 .. placed, NEW j \in 1 .. placed, i < j
        PROVE  Sort!Order(work[i], work[j]) # ">"
    <3>1. i \in 1 .. Len(input) /\ j \in 1 .. Len(input)
      BY <2>1, SortInvFacts
    <3>2. /\ Sort!Order(work[i], work[j]) = Sign(Key(work[i]), Key(work[j]))
          /\ Key(work[i]) \in Nat /\ Key(work[j]) \in Nat
      BY <3>1, SortInvFacts, OrderIsByKey
    <3>3. Key(work[i]) < Key(work[j]) \/ Key(work[i]) = Key(work[j])
      BY <2>2 DEF SortInv, Sorting
    <3>4. QED
      BY <3>2, <3>3 DEF Sign
  <2>3. QED
    BY <2>1, <2>2, SameOccurrences DEF Sort!SortInvariant
<1>2. QED
  BY <1>1, SortedAlways, PTL

\* The records with one id keep their order, for arrays of any length the engine
\* sorts by insertion: ten records in a V8 up to 6.9, 63 in a later one; data has
\* four (basic-function.ts:1-16).
THEOREM SortIsStable == Spec => []Stable
<1>1. SortedScript => Stable
  <2> SUFFICES ASSUME SortInv, Sort!Sorted, script = "data",
                      NEW i \in DOMAIN work, NEW j \in DOMAIN work, i < j
               PROVE  \/ work[i].id < work[j].id
                      \/ work[i].id = work[j].id /\ work[i].text < work[j].text
    BY DEF SortedScript, SortScripts, Stable, Sort!Stable
  <2>1. PICK p : Sorting(p)
    BY DEF SortInv
  <2>2. DOMAIN work = 1 .. placed /\ DOMAIN work = 1 .. Len(input)
    BY SortInvFacts DEF Sort!Sorted, SortInv
  <2>3. \/ Key(work[i]) < Key(work[j])
        \/ Key(work[i]) = Key(work[j]) /\ p[i] < p[j]
    BY <2>1, <2>2 DEF Sorting
  <2>4. /\ p[i] \in 1 .. Len(input) /\ p[j] \in 1 .. Len(input)
        /\ work[i] = input[p[i]] /\ work[j] = input[p[j]]
    BY <2>1, <2>2 DEF Sorting
  <2>5. work[i].text = p[i] /\ work[j].text = p[j]
    BY <2>4 DEF SortInv
  <2>6. QED
    BY <2>3, <2>5 DEF Key
<1>2. QED
  BY <1>1, SortedAlways, PTL

--------------------------------------------------------------------------------
(* The set made of an array, when the array ascends. *)

FirstsOf(s) == {i \in DOMAIN s : \A j \in 1 .. i - 1 : s[j] # s[i]}
RankIn(s, i) == Sort!Cardinality({j \in FirstsOf(s) : j <= i})

LEMMA SetOfByRank ==
  ASSUME NEW s
  PROVE  Sort!SetOf(s) = [k \in 1 .. Sort!Cardinality(FirstsOf(s)) |->
                            s[CHOOSE i \in FirstsOf(s) : RankIn(s, i) = k]]
BY DEF Sort!SetOf, FirstsOf, RankIn

\* The ranks of the first occurrences count them.
LEMMA RankFacts ==
  ASSUME NEW S, NEW s \in Seq(S)
  PROVE  /\ Cardinality(FirstsOf(s)) \in Nat
         /\ \A i, j \in FirstsOf(s) : RankIn(s, i) < RankIn(s, j) <=> i < j
         /\ \A k \in 1 .. Cardinality(FirstsOf(s)) : \E i \in FirstsOf(s) : RankIn(s, i) = k
         /\ \A i \in FirstsOf(s) : RankIn(s, i) \in 1 .. Cardinality(FirstsOf(s))
<1> DEFINE F == FirstsOf(s)
           UpTo(i) == {j \in F : j <= i}
<1>1. Len(s) \in Nat /\ F \subseteq 1 .. Len(s) /\ IsFiniteSet(F)
  <2>1. Len(s) \in Nat /\ F \subseteq 1 .. Len(s)
    BY LenProperties DEF FirstsOf
  <2>2. IsFiniteSet(1 .. Len(s))
    BY <2>1, FS_Interval
  <2>3. QED
    BY <2>1, <2>2, FS_Subset
<1> HIDE DEF F
<1>2. Cardinality(F) \in Nat
  BY <1>1, FS_CardinalityType
<1>3. \A i \in F : IsFiniteSet(UpTo(i)) /\ Cardinality(UpTo(i)) \in Nat
                   /\ Cardinality(UpTo(i)) <= Cardinality(F)
  <2>1. \A i \in F : UpTo(i) \in SUBSET F
    OBVIOUS
  <2>2. QED
    BY <1>1, <2>1, FS_Subset, FS_CardinalityType
<1>4. \A i \in F : Cardinality(UpTo(i)) # 0
  <2>1. \A i \in F : i \in UpTo(i)
    BY <1>1
  <2>2. QED
    BY <1>3, <2>1, FS_EmptySet
<1>5. ASSUME NEW i \in F, NEW j \in F, i < j
      PROVE  Cardinality(UpTo(i)) < Cardinality(UpTo(j))
  <2>1. i \in Nat /\ j \in Nat /\ \A k \in F : k \in Nat
    BY <1>1
  <2>2. \A k \in F : k <= i => k <= j
    BY <1>5, <2>1
  <2>3. UpTo(i) \in SUBSET UpTo(j)
    BY <2>2
  <2>4. j \in UpTo(j) /\ j \notin UpTo(i)
    BY <1>5, <2>1
  <2>5. IsFiniteSet(UpTo(j)) /\ Cardinality(UpTo(i)) \in Nat /\ Cardinality(UpTo(j)) \in Nat
    BY <1>3
  <2> HIDE DEF UpTo
  <2>6. /\ Cardinality(UpTo(i)) <= Cardinality(UpTo(j))
        /\ Cardinality(UpTo(i)) # Cardinality(UpTo(j))
    BY <2>3, <2>4, <2>5, FS_Subset
  <2>7. QED
    BY <2>5, <2>6
<1>6. \A i \in F : RankIn(s, i) = Cardinality(UpTo(i))
  BY SortCardinality DEF RankIn, F
<1> HIDE DEF UpTo
<1>7. ASSUME NEW i \in F, NEW j \in F
      PROVE  Cardinality(UpTo(i)) < Cardinality(UpTo(j)) <=> i < j
  <2>1. i < j \/ j < i \/ i = j
    BY <1>1
  <2>2. QED
    BY <1>3, <1>5, <2>1
<1>8. \A i \in F : Cardinality(UpTo(i)) \in 1 .. Cardinality(F)
  BY <1>2, <1>3, <1>4
<1>9. \A k \in 1 .. Cardinality(F) : \E i \in F : Cardinality(UpTo(i)) = k
  <2>1. PICK g : g = [i \in F |-> Cardinality(UpTo(i))]
    OBVIOUS
  <2>2. g \in [F -> 1 .. Cardinality(F)]
    BY <1>8, <2>1
  <2>3. \A i, j \in F : g[i] = g[j] => i = j
    <3>1. \A i, j \in F : i < j \/ j < i \/ i = j
      BY <1>1
    <3>2. QED
      BY <1>3, <1>5, <2>1, <3>1
  <2>4. g \in Injection(F, 1 .. Cardinality(F))
    BY <2>2, <2>3 DEF Injection, IsInjective
  <2>5. IsFiniteSet(1 .. Cardinality(F)) /\ Cardinality(1 .. Cardinality(F)) = Cardinality(F)
    BY <1>2, FS_Interval
  <2>6. g \in Surjection(F, 1 .. Cardinality(F))
    BY <2>4, <2>5, FS_Injection
  <2>7. QED
    BY <2>1, <2>6 DEF Surjection
<1>10. QED
  BY <1>2, <1>6, <1>7, <1>8, <1>9 DEF F

\* The set of an array has each of its elements at its first occurrence's rank.
LEMMA SetOfFacts ==
  ASSUME NEW S, NEW s \in Seq(S)
  PROVE  /\ DOMAIN Sort!SetOf(s) = 1 .. Cardinality(FirstsOf(s))
         /\ \A k \in DOMAIN Sort!SetOf(s) :
              \E i \in FirstsOf(s) : RankIn(s, i) = k /\ Sort!SetOf(s)[k] = s[i]
         /\ \A i \in FirstsOf(s) :
              \E k \in DOMAIN Sort!SetOf(s) : Sort!SetOf(s)[k] = s[i]
<1> DEFINE F == FirstsOf(s)
           at1(k) == CHOOSE i \in F : RankIn(s, i) = k
<1>1. Sort!SetOf(s) = [k \in 1 .. Cardinality(F) |-> s[at1(k)]]
  BY SetOfByRank, SortCardinality
<1>2. \A k \in 1 .. Cardinality(F) : at1(k) \in F /\ RankIn(s, at1(k)) = k
  BY RankFacts
<1> HIDE DEF at1
<1>3. \A i, j \in F : RankIn(s, i) = RankIn(s, j) => i = j
  <2>1. F \subseteq Nat
    BY LenProperties DEF FirstsOf
  <2>2. \A i, j \in F : i < j \/ j < i \/ i = j
    BY <2>1
  <2>3. \A i \in F : RankIn(s, i) \in Nat
    BY RankFacts
  <2>4. QED
    BY <2>2, <2>3, RankFacts
<1>4. \A i \in F : RankIn(s, i) \in 1 .. Cardinality(F) /\ at1(RankIn(s, i)) = i
  BY <1>2, <1>3, RankFacts
<1>5. QED
  BY <1>1, <1>2, <1>4

\* A set of an array has the elements of the array.
LEMMA SetOfRange ==
  ASSUME NEW S, NEW s \in Seq(S), NEW i \in DOMAIN s
  PROVE  \E j \in FirstsOf(s) : s[j] = s[i]
<1> DEFINE T == {j \in DOMAIN s : s[j] = s[i]}
<1>1. DOMAIN s = 1 .. Len(s) /\ Len(s) \in Nat
  BY LenProperties
<1>2. T \in SUBSET Nat /\ T # {}
  BY <1>1
<1>3. PICK j \in T : \A k \in T : j <= k
  BY <1>2, LeastOf
<1>4. j \in DOMAIN s /\ s[j] = s[i]
  OBVIOUS
<1>5. \A k \in 1 .. j - 1 : k \in DOMAIN s /\ ~(j <= k)
  BY <1>1, <1>4
<1>6. j \in FirstsOf(s)
  BY <1>3, <1>4, <1>5 DEF FirstsOf
<1>7. QED
  BY <1>4, <1>6

\* The times of the set ascend as numbers and every time is among them, for arrays
\* of times whose numerals have one length, as long as the engine sorts them by
\* insertion; tsa has ten (set-test.ts:19-49).
THEOREM TimesOfSetAscend == Spec => []TimesAscend
<1>1. SortedScript => TimesAscend
  <2> SUFFICES ASSUME SortInv, Sort!Sorted, script = "tsa"
               PROVE  /\ \A i, j \in DOMAIN Sort!Tss : i < j => Sort!Tss[i] < Sort!Tss[j]
                      /\ Sort!Range(Sort!Tss) = Sort!Range(input)
    BY DEF SortedScript, SortScripts, TimesAscend, Sort!TimesAscend
  <2>1. PICK p : Sorting(p)
    BY DEF SortInv
  <2>2. /\ work \in Seq(Elements) /\ DOMAIN work = 1 .. placed
        /\ DOMAIN work = 1 .. Len(input) /\ Len(input) \in Nat /\ DOMAIN input = 1 .. Len(input)
    BY SortInvFacts DEF Sort!Sorted, SortInv
  <2>3. \A i \in DOMAIN work : work[i] \in Nat
    BY <2>2, SortInvFacts, StringOrder DEF Elements
  <2>4. \A i, j \in DOMAIN work : i < j => work[i] <= work[j]
    <3>1. \A i, j \in DOMAIN work : i < j => work[i] < work[j] \/ work[i] = work[j]
      BY <2>1, <2>2 DEF Sorting, Key
    <3>2. QED
      BY <2>3, <3>1
  <2>5. ASSUME NEW k \in DOMAIN Sort!Tss, NEW l \in DOMAIN Sort!Tss, k < l
        PROVE  Sort!Tss[k] < Sort!Tss[l]
    <3>1. PICK i \in FirstsOf(work) : RankIn(work, i) = k /\ Sort!Tss[k] = work[i]
      BY <2>2, SetOfFacts DEF Sort!Tss
    <3>2. PICK j \in FirstsOf(work) : RankIn(work, j) = l /\ Sort!Tss[l] = work[j]
      BY <2>2, SetOfFacts DEF Sort!Tss
    <3>3. i < j
      BY <2>2, <2>5, <3>1, <3>2, RankFacts
    <3>4. i \in DOMAIN work /\ j \in DOMAIN work
      BY DEF FirstsOf
    <3>5. i \in 1 .. j - 1
      BY <2>2, <3>3, <3>4
    <3>6. work[i] # work[j]
      BY <3>5 DEF FirstsOf
    <3>7. work[i] <= work[j] /\ work[i] \in Nat /\ work[j] \in Nat
      BY <2>3, <2>4, <3>3, <3>4
    <3>8. QED
      BY <3>1, <3>2, <3>6, <3>7
  <2>6. \A y : y \in Sort!Range(Sort!Tss) <=> \E i \in DOMAIN work : y = work[i]
    <3>1. ASSUME NEW k \in DOMAIN Sort!Tss
          PROVE  \E i \in DOMAIN work : Sort!Tss[k] = work[i]
      <4>1. PICK i \in FirstsOf(work) : RankIn(work, i) = k /\ Sort!Tss[k] = work[i]
        BY <2>2, SetOfFacts DEF Sort!Tss
      <4>2. QED
        BY <4>1 DEF FirstsOf
    <3>2. ASSUME NEW i \in DOMAIN work
          PROVE  \E k \in DOMAIN Sort!Tss : Sort!Tss[k] = work[i]
      <4>1. PICK j \in FirstsOf(work) : work[j] = work[i]
        BY <2>2, SetOfRange
      <4>2. PICK k \in DOMAIN Sort!Tss : Sort!Tss[k] = work[j]
        BY <2>2, SetOfFacts DEF Sort!Tss
      <4>3. QED
        BY <4>1, <4>2
    <3>3. QED
      BY <3>1, <3>2 DEF Sort!Range
  <2>7. \A y : y \in Sort!Range(input) <=> \E i \in DOMAIN work : y = work[i]
    <3>1. ASSUME NEW i \in DOMAIN work
          PROVE  \E k \in DOMAIN input : work[i] = input[k]
      BY <2>1, <2>2 DEF Sorting
    <3>2. ASSUME NEW k \in DOMAIN input
          PROVE  \E i \in DOMAIN work : work[i] = input[k]
      <4>1. PICK i \in 1 .. Len(input) : p[i] = k
        BY <2>1, <2>2 DEF Sorting
      <4>2. work[i] = input[k]
        BY <2>1, <4>1 DEF Sorting
      <4>3. QED
        BY <2>2, <4>2
    <3>3. QED
      BY <3>1, <3>2 DEF Sort!Range
  <2>8. QED
    BY <2>5, <2>6, <2>7
<1>2. QED
  BY <1>1, SortedAlways, PTL

================================================================================
