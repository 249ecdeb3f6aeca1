--------------------------------- MODULE SetSort ---------------------------------
(***************************************************************************)
(* typescript/experiments: the arrays that set-test.ts and                 *)
(* basic-function.ts sort, and the sets made of them.  Array.prototype.sort *)
(* is external; it is modelled with the two insertion sorts V8 has had,    *)
(* one element put into its place in a step, for the arrays each sorts so. *)
(***************************************************************************)
EXTENDS Naturals, FiniteSets, Sequences, SequencesExt

CONSTANTS
  Numbers,  \* the numbers of the arrays, and the ids of the records
  MaxLen    \* bound: the length of an array

Numeral(n) == IF n < 10 THEN <<n>> ELSE <<n \div 10, n % 10>>

\* Assumed by NodeScripts.  The numbers of one array have numerals of the same
\* length: one digit in nua, thirteen in tsa.  Numeral makes one or two of them.
NumbersOfOneLength ==
  /\ Numbers \subseteq 0 .. 99
  /\ \A m, n \in Numbers : Len(Numeral(m)) = Len(Numeral(n))

VARIABLES
  script,  \* the array: "nua", "tsa", or "data" of basic-function.ts
  engine,  \* how the engine sorts: "linear" (V8 up to 6.9), or "binary" (since)
  input,   \* the array at first
  work,    \* the array as it is
  placed   \* how many elements at its front are in order

vars == <<script, engine, input, work, placed>>

--------------------------------------------------------------------------------
(* The orders: what the comparator answers, "<", "=" or ">". *)

\* Without a comparator the numerals are compared, as strings.
ByString(l, r) ==
  LET a == Numeral(l)
      b == Numeral(r)
      d == {k \in DOMAIN a \cap DOMAIN b : a[k] # b[k]}
      k == CHOOSE k \in d : \A j \in d : k <= j
  IN  IF d # {} THEN (IF a[k] < b[k] THEN "<" ELSE ">")
      ELSE IF Len(a) = Len(b) THEN "="
      ELSE IF Len(a) < Len(b) THEN "<" ELSE ">"

\* compare(l, r) of basic-function.ts.  A record is its id and its text.
CompareTwoWays(l, r) == IF l.id < r.id THEN "<" ELSE ">"
Compare(l, r) == IF l.id < r.id THEN "<" ELSE IF l.id > r.id THEN ">" ELSE "="

Order(l, r) == IF script = "data" THEN Compare(l, r) ELSE ByString(l, r)

--------------------------------------------------------------------------------
(* Array.prototype.sort. *)

\* The longest arrays V8 sorts by insertion alone; longer ones were left to a
\* quicksort that is not stable, and now to the merges of TimSort.  nua has nine
\* elements, tsa ten and data four.
Longest == [linear |-> 10, binary |-> 63]

\* Where x goes among the first n elements of s.  "binary" looks for the first
\* element x is less than; "linear" comes from behind and stops at the first
\* element that is not greater than x.
Place(s, n, x) ==
  IF engine = "binary"
  THEN LET after == {k \in 1 .. n : Order(x, s[k]) = "<"}
       IN  IF after = {} THEN n + 1 ELSE CHOOSE k \in after : \A j \in after : k <= j
  ELSE LET before == {k \in 1 .. n : Order(s[k], x) # ">"}
       IN  IF before = {} THEN 1 ELSE 1 + CHOOSE k \in before : \A j \in before : j <= k

Insert(s, n) == InsertAt(RemoveAt(s, n + 1), Place(s, n, s[n + 1]), s[n + 1])

\* new Set(s): the first of equal elements, in the order of s.
SetOf(s) ==
  LET first == {i \in DOMAIN s : \A j \in 1 .. i - 1 : s[j] # s[i]}
      Rank(i) == Cardinality({j \in first : j <= i})
  IN  [k \in 1 .. Cardinality(first) |-> s[CHOOSE i \in first : Rank(i) = k]]

--------------------------------------------------------------------------------

\* Records with equal ids are told apart by their texts.
Data(ids) == [i \in DOMAIN ids |-> [id |-> ids[i], text |-> i]]

Init ==
  /\ script \in {"nua", "tsa", "data"}
  /\ engine \in {"linear", "binary"}
  /\ \E n \in 1 .. MaxLen : \E s \in [1 .. n -> Numbers] :
       /\ n <= Longest[engine]
       /\ input = IF script = "data" THEN Data(s) ELSE s
  /\ work = input
  /\ placed = 1

\* nua.sort(), tsa.map(...).sort() and data.sort(compare).
SortStep ==
  /\ placed < Len(work)
  /\ work' = Insert(work, placed)
  /\ placed' = placed + 1
  /\ UNCHANGED <<script, engine, input>>

Next == SortStep
Spec == Init /\ [][Next]_vars

Sorted == placed = Len(work)

\* tss, loaded into tssa and printed at the end.
TssUnsorted == SetOf(input)
Tss == SetOf(work)

Occurrences(s, x) == Cardinality({i \in DOMAIN s : s[i] = x})

--------------------------------------------------------------------------------
(* Properties *)

\* While the sort is under way no element is lost or doubled, and the elements
\* placed so far are in the order of the comparator.
SortInvariant ==
  /\ placed \in 1 .. Len(work)
  /\ \A i, j \in 1 .. placed : i < j => Order(work[i], work[j]) # ">"
  /\ Len(work) = Len(input)
  /\ \A x \in Range(input) : Occurrences(work, x) = Occurrences(input, x)

\* Whichever way the engine sorts, records with one id come out in the order of
\* the array: compare answers for equal ids, too.
Stable ==
  Sorted /\ script = "data" =>
    \A i, j \in DOMAIN work :
      i < j => \/ work[i].id < work[j].id
               \/ work[i].id = work[j].id /\ work[i].text < work[j].text

\* The times of tss ascend as numbers, though they were sorted as strings, and
\* every time of tsa is among them once.
TimesAscend ==
  Sorted /\ script = "tsa" =>
    /\ \A i, j \in DOMAIN Tss : i < j => Tss[i] < Tss[j]
    /\ Range(Tss) = Range(input)

================================================================================
