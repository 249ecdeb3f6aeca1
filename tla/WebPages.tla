-------------------------------- MODULE WebPages --------------------------------
(***************************************************************************)
(* The pages of the two web applications and what runs in them: the watch  *)
(* page has a scope once it is bound, while the browser still loads.       *)
(***************************************************************************)
EXTENDS PageLoad

CONSTANTS
  Hello,  \* the message watchController starts with
  Texts,  \* the texts the user types
  Ttl,    \* the passes AngularJS allows a digest
  Unset   \* no value yet

ASSUME TtlAssumption == Ttl \in Nat
ASSUME TextsAssumption == Unset \notin Texts \cup {Hello}

VARIABLES scope, last, shown, at, dirty, passes, before  \* see WatchScope

Scope == INSTANCE WatchScope

scopeVars == <<scope, last, shown, at, dirty, passes, before>>
pageVars  == <<vars, scopeVars>>

\* AngularJS has bound the watch page.  Until then the variables of its scope
\* hold what watchController will give them.
Linked == page = "watch" /\ boot # <<>> /\ boot[1] = "bound"

PagesInit == Init /\ Scope!Init

Load     == Next /\ UNCHANGED scopeVars
RunScope == Linked /\ Scope!Next /\ UNCHANGED vars

PagesSpec == PagesInit /\ [][Load \/ RunScope]_pageVars /\ Fairness

--------------------------------------------------------------------------------
(* Properties; see PageLoad and WatchScope. *)

\* The listener of the watch page (watch/main.js:6-9) and the digest that calls
\* it, from the first one on.
ShowsMessageAndPrevious == Scope!ShowsMessageAndPrevious

================================================================================
