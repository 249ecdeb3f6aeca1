--------------------------------- MODULE WebApps ---------------------------------
(***************************************************************************)
(* The pages of both web applications to the end of their scripts: when    *)
(* the libraries of the labels page are there, its main.js draws the graph *)
(* in the task of the browser that brought the last of them, and the user  *)
(* works on the graph while the page still loads.                          *)
(***************************************************************************)
EXTENDS WebPages, GraphLabels

appVars == <<pageVars, graphVars>>

\* The callback of labels/main.js has been called.
Drawing == "graph" \in {boot[i] : i \in DOMAIN boot}

\* The callback is run to its end before the browser takes another task.
Busy == Drawing /\ pc # "user"

AppsInit == PagesInit /\ GraphInit

LoadPage == ~Busy /\ (Load \/ RunScope) /\ UNCHANGED graphVars
DrawGraph == Drawing /\ Program /\ UNCHANGED pageVars
UseGraph  == Drawing /\ User /\ UNCHANGED pageVars

AppsNext == LoadPage \/ DrawGraph \/ UseGraph

\* A task that has begun goes on to its end.
AppsSpec == AppsInit /\ [][AppsNext]_appVars /\ Fairness /\ WF_graphVars(DrawGraph)

--------------------------------------------------------------------------------
(* Properties; see WebPages and GraphLabels. *)

\* Once main.js is called it ends outside of any update with all it inserted on
\* display, also after an exception, and neither the user nor what the page still
\* loads undoes it (labels/main.js:62-83).
EndsDisplayed == <>[](Drawing => Displayed)

================================================================================
