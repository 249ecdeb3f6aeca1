------------------------------- MODULE WatchScope -------------------------------
(***************************************************************************)
(* The watch page of angular-component: the scope of watchController, its  *)
(* $watch on message, and the digest of AngularJS that calls the listener  *)
(* and renders {{newMessage}} and {{oldMessage}}.  The evaluation of one   *)
(* watch is one action; the user types between two digests.                *)
(***************************************************************************)
EXTENDS Naturals, Sequences

CONSTANTS
  Hello,  \* the message the controller starts with
  Texts,  \* the texts the user types
  Ttl,    \* the passes AngularJS allows a digest
  Unset   \* no value yet

Fields == {"message", "newMessage", "oldMessage"}

VARIABLES
  scope,   \* the fields of the scope
  last,    \* per field: the value its watch saw last
  shown,   \* what the page shows of the two rendered fields
  at,      \* the watch the digest is at (0: no digest runs)
  dirty,   \* a watch of this pass has changed
  passes,  \* the passes of this digest
  before   \* history: the message before the last change of it

vars == <<scope, last, shown, at, dirty, passes, before>>

\* The controller's $watch comes before those of the template.
Watches == <<"message", "newMessage", "oldMessage">>

\* The listener, given the value and the value its watch saw last: at first it
\* gets the same value twice.
Swapped(new, old) == [scope EXCEPT !["newMessage"] = old, !["oldMessage"] = new]
Listener(new, old) == [scope EXCEPT !["newMessage"] = new, !["oldMessage"] = old]

\* One watch is evaluated; its listener is called when the value is not the one
\* it saw last.
Evaluate ==
  /\ at \in DOMAIN Watches
  /\ LET f   == Watches[at]
         new == scope[f]
         old == IF last[f] = Unset THEN new ELSE last[f]
     IN  IF new = last[f]
         THEN UNCHANGED <<scope, last, shown, dirty>>
         ELSE /\ last' = [last EXCEPT ![f] = new]
              /\ scope' = IF f = "message" THEN Listener(new, old) ELSE scope
              /\ shown' = IF f = "message" THEN shown ELSE [shown EXCEPT ![f] = new]
              /\ dirty' = TRUE
  /\ at' = at + 1
  /\ UNCHANGED <<passes, before>>

\* A pass that changed something is followed by another, within the limit.
EndOfPass ==
  /\ at = Len(Watches) + 1
  /\ dirty' = FALSE
  /\ at' = IF dirty /\ passes < Ttl THEN 1 ELSE 0
  /\ passes' = IF dirty THEN passes + 1 ELSE passes
  /\ UNCHANGED <<scope, last, shown, before>>

\* The user types: ng-model sets the message and a digest begins.
Type(text) ==
  /\ at = 0
  /\ before' = IF text = scope["message"] THEN before ELSE scope["message"]
  /\ scope' = [scope EXCEPT !["message"] = text]
  /\ at' = 1
  /\ passes' = 1
  /\ UNCHANGED <<last, shown, dirty>>

\* The page is linked: the controller has run and the first digest begins.
Init ==
  /\ scope = [f \in Fields |-> IF f = "message" THEN Hello ELSE Unset]
  /\ last = [f \in Fields |-> Unset]
  /\ shown = [f \in {"newMessage", "oldMessage"} |-> Unset]
  /\ at = 1
  /\ dirty = FALSE
  /\ passes = 1
  /\ before = Hello

Digest == Evaluate \/ EndOfPass
Next   == Digest \/ \E text \in Texts : Type(text)
Spec   == Init /\ [][Next]_vars

--------------------------------------------------------------------------------
(* Properties *)

\* The listener writes to fields that are watched in the same digest: between two
\* digests the page still shows the message of the scope and the one
\* it replaced, also when the user types the same text again (watch/main.js:6-9).
ShowsMessageAndPrevious ==
  at = 0 => shown["newMessage"] = scope["message"] /\ shown["oldMessage"] = before

================================================================================
