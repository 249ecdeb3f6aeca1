-------------------------------- MODULE PageLoad --------------------------------
(***************************************************************************)
(* The pages of angular-component and mx-component while a browser loads   *)
(* them: the parser, RequireJS with its configuration, the main.js of each *)
(* page and the bootstrap of AngularJS.  A task of the browser is one      *)
(* action; tasks come in any order the browser allows.                     *)
(*                                                                         *)
(* The configuration of labels is the file require-config.js beside it.    *)
(* The AngularJS pages load ../webjarsjs, which WebjarsJsController makes  *)
(* with the webjars library of what is on the class path; their own        *)
(* require-config.js is loaded by none of them, but was made in the same   *)
(* way and shows its form.                                                 *)
(***************************************************************************)
EXTENDS Naturals, Sequences

CONSTANTS Pages  \* the pages a browser opens

ASSUME PagesAssumption ==
  Pages \subseteq {"hello", "require-angular", "event", "watch", "manual", "labels"}

Libs == {"angular", "jquery", "mxgraph-client"}

VARIABLES
  page,        \* the page that is being loaded
  parser,      \* how far the parser is: "head", "body", "end"
  doc,         \* document.readyState
  given,       \* require-config.js was there when require.js ran
  urls,        \* RequireJS: the places to try for each library, in order
  timers,      \* RequireJS: the calls of require that wait for their tick
  main,        \* main.js: "no", "fetching", "executed", "failed"
  lib,         \* per library: the same
  tried,       \* per library: the places asked for so far
  registered,  \* the modules AngularJS knows
  ready,       \* the callbacks that wait for the document, in order
  boot         \* what the start of the page came to, in order

html    == <<page, parser, doc>>
require == <<given, urls, timers>>
scripts == <<main, lib, tried>>
vars    == <<html, require, scripts, registered, ready, boot>>

--------------------------------------------------------------------------------
(* What main.js asks of require, and what its callback does. *)

RequireMain ==
  [needs |-> {"angular"}, registers |-> {"HelloApp"}, hooks |-> <<>>]
EventMainMisnamed ==
  [needs |-> {"angular"}, registers |-> {"EventApp"}, hooks |-> <<>>]
EventMain ==
  [needs |-> {"angular"}, registers |-> {"eventApp"}, hooks |-> <<>>]
WatchMain ==
  [needs |-> {"angular"}, registers |-> {"watchApp"}, hooks |-> <<>>]
ManualBootsTwice ==
  [needs |-> {"angular"}, registers |-> {}, hooks |-> <<"manual", "manual">>]
ManualForgotten ==
  [needs |-> {"angular"}, registers |-> {}, hooks |-> <<>>]
ManualMain ==
  [needs |-> {"angular"}, registers |-> {}, hooks |-> <<"manual">>]
LabelsMain ==
  [needs |-> {"jquery", "mxgraph-client"}, registers |-> {}, hooks |-> <<>>]

MainJs == CASE page = "require-angular" -> RequireMain
            [] page = "event"           -> EventMain
            [] page = "watch"           -> WatchMain
            [] page = "manual"          -> ManualMain
            [] page = "labels"          -> LabelsMain

\* The module a page names in ng-app.
NgApp == CASE page \in {"hello", "require-angular"} -> {"HelloApp"}
           [] page = "event" -> {"eventApp"}
           [] page = "watch" -> {"watchApp"}
           [] OTHER          -> {}

\* Every library is where the page is, until a configuration says otherwise;
\* no copy is there in fact.
Unconfigured == [l \in Libs |-> <<"page">>]

\* As the webjars library makes them: the place in the webjar, then the page.
AngularPaths ==
  [Unconfigured EXCEPT !["angular"] = <<"webjar", "page">>,
                       !["jquery"]  = <<"webjar", "page">>]
MxPaths ==
  [l \in Libs |-> IF l = "jquery" THEN <<"webjar">> ELSE <<"webjar", "page">>]

\* The callback of the configuration; RequireJS calls it when main.js, the
\* dependency data-main gave, has been executed.
ConfigForgotten == Unconfigured
ConfigCallback ==
  IF ~given THEN Unconfigured ELSE IF page = "labels" THEN MxPaths ELSE AngularPaths

--------------------------------------------------------------------------------
(* AngularJS: angularInit for ng-app, or angular.bootstrap. *)

Outcome(hook) ==
  CASE hook = "manual" -> <<"bound">>
    [] hook = "auto" /\ NgApp = {} -> <<>>
    [] hook = "auto" /\ NgApp # {} ->
         IF NgApp \subseteq registered THEN <<"bound">> ELSE <<"nomod">>

Outcomes(hooks) ==
  CASE Len(hooks) = 0 -> <<>>
    [] Len(hooks) = 1 -> Outcome(hooks[1])
    [] Len(hooks) = 2 -> Outcome(hooks[1]) \o Outcome(hooks[2])
    [] Len(hooks) = 3 -> Outcome(hooks[1]) \o Outcome(hooks[2]) \o Outcome(hooks[3])

\* The document changes state and the callbacks that wait for it are called.
DocumentIs(state) ==
  /\ doc' = state
  /\ boot' = boot \o Outcomes(ready)
  /\ ready' = <<>>

--------------------------------------------------------------------------------
(* The parser. *)

\* hello: two blocking scripts, angular.min.js and main.js, the second of no
\* use without the first.
HelloHead(angular, hello) ==
  /\ page = "hello"
  /\ parser = "head"
  /\ parser' = "end"
  /\ lib' = [lib EXCEPT !["angular"] = IF angular THEN "executed" ELSE "failed"]
  /\ main' = IF hello /\ angular THEN "executed" ELSE "failed"
  /\ registered' = IF hello /\ angular THEN {"HelloApp"} ELSE {}
  /\ ready' = IF angular THEN <<"auto">> ELSE <<>>
  /\ UNCHANGED <<page, doc, require, tried, boot>>

\* The other pages: the configuration, ../webjarsjs or ../require-config.js, is a
\* blocking script that may be missing.
PageHead(config) ==
  /\ page # "hello"
  /\ parser = "head"
  /\ parser' = "body"
  /\ given' = config
  /\ UNCHANGED <<page, doc, urls, timers, scripts, registered, ready, boot>>

\* require.js runs, at the end of the body: it requires main.
RunRequireJs ==
  /\ parser = "body"
  /\ parser' = "end"
  /\ timers' = {"main"}
  /\ UNCHANGED <<page, doc, given, urls, scripts, registered, ready, boot>>

RequireJsMissing ==
  /\ parser = "body"
  /\ parser' = "end"
  /\ main' = "failed"
  /\ UNCHANGED <<page, doc, require, lib, tried, registered, ready, boot>>

DOMContentLoaded ==
  /\ parser = "end"
  /\ doc = "loading"
  /\ DocumentIs("interactive")
  /\ UNCHANGED <<page, parser, require, scripts, registered>>

\* A script on its way delays the load event; a timer does not.
WindowLoad ==
  /\ doc = "interactive"
  /\ main # "fetching"
  /\ \A l \in Libs : lib[l] # "fetching"
  /\ DocumentIs("complete")
  /\ UNCHANGED <<page, parser, require, scripts, registered>>

\* A callback handed over after the load event is called by a timer.
ReadyTimer ==
  /\ doc = "complete"
  /\ ready # <<>>
  /\ boot' = boot \o Outcome(ready[1])
  /\ ready' = Tail(ready)
  /\ UNCHANGED <<html, require, scripts, registered>>

--------------------------------------------------------------------------------
(* RequireJS. *)

MainTimer ==
  /\ "main" \in timers
  /\ timers' = timers \ {"main"}
  /\ main' = "fetching"
  /\ UNCHANGED <<html, given, urls, lib, tried, registered, ready, boot>>

\* main.js is executed and calls require, which waits for its tick; the load
\* event of the script follows in the same task and brings ConfigCallback.
MainArrives ==
  /\ main = "fetching"
  /\ main' = "executed"
  /\ timers' = timers \cup {"needs"}
  /\ urls' = ConfigCallback
  /\ UNCHANGED <<html, given, lib, tried, registered, ready, boot>>

MainFails ==
  /\ main = "fetching"
  /\ main' = "failed"
  /\ UNCHANGED <<html, require, lib, tried, registered, ready, boot>>

\* The tick of main.js's require: every need is fetched from its first place.
NeedsTimer ==
  /\ "needs" \in timers
  /\ timers' = timers \ {"needs"}
  /\ lib' = [l \in Libs |-> IF l \in MainJs.needs THEN "fetching" ELSE lib[l]]
  /\ tried' = [l \in Libs |->
                 IF l \in MainJs.needs THEN <<urls[l][1]>> ELSE tried[l]]
  /\ UNCHANGED <<html, given, urls, main, registered, ready, boot>>

\* A library is executed; AngularJS registers its own callback for ng-app.
\* When it is the last one, the callback of main.js runs in the same task.
Arrives(l) ==
  /\ lib[l] = "fetching"
  /\ tried[l][Len(tried[l])] = "webjar"
  /\ lib' = [lib EXCEPT ![l] = "executed"]
  /\ LET all  == \A n \in MainJs.needs : lib'[n] = "executed"
         auto == IF l = "angular" THEN <<"auto">> ELSE <<>>
     IN  /\ registered' = IF all THEN registered \cup MainJs.registers ELSE registered
         /\ ready' = ready \o auto \o (IF all THEN MainJs.hooks ELSE <<>>)
         /\ boot' = IF all /\ page = "labels" THEN Append(boot, "graph") ELSE boot
  /\ UNCHANGED <<html, require, main, tried>>

\* The place does not answer: the next one is tried, if there is one.
Fails(l) ==
  /\ lib[l] = "fetching"
  /\ IF Len(tried[l]) < Len(urls[l])
     THEN /\ tried' = [tried EXCEPT ![l] = Append(@, urls[l][Len(@) + 1])]
          /\ UNCHANGED lib
     ELSE /\ lib' = [lib EXCEPT ![l] = "failed"]
          /\ UNCHANGED tried
  /\ UNCHANGED <<html, require, main, registered, ready, boot>>

--------------------------------------------------------------------------------

Init ==
  /\ page \in Pages
  /\ parser = "head"
  /\ doc = "loading"
  /\ given = FALSE
  /\ urls = Unconfigured
  /\ timers = {}
  /\ main = "no"
  /\ lib = [l \in Libs |-> "no"]
  /\ tried = [l \in Libs |-> <<>>]
  /\ registered = {}
  /\ ready = <<>>
  /\ boot = <<>>

Parser  == \/ \E angular, hello \in BOOLEAN : HelloHead(angular, hello)
           \/ \E config \in BOOLEAN : PageHead(config)
           \/ RunRequireJs
           \/ RequireJsMissing
Browser == DOMContentLoaded \/ WindowLoad \/ ReadyTimer \/ MainTimer \/ NeedsTimer
Network == MainArrives \/ MainFails \/ \E l \in Libs : Arrives(l) \/ Fails(l)
Next    == Parser \/ Browser \/ Network

Spec == Init /\ [][Next]_vars

\* The browser runs every task that is due and every request ends, well or not.
Fairness ==
  /\ WF_vars(Parser)
  /\ WF_vars(Browser)
  /\ WF_vars(MainArrives \/ MainFails)
  /\ \A l \in Libs : WF_vars(Arrives(l) \/ Fails(l))

--------------------------------------------------------------------------------
(* Properties *)

\* The state of a page is well formed.
TypeOK ==
  /\ page \in Pages
  /\ parser \in {"head", "body", "end"}
  /\ doc \in {"loading", "interactive", "complete"}
  /\ given \in BOOLEAN
  /\ urls \in [Libs -> {<<"page">>, <<"webjar">>, <<"webjar", "page">>}]
  /\ timers \subseteq {"main", "needs"}
  /\ main \in {"no", "fetching", "executed", "failed"}
  /\ lib \in [Libs -> {"no", "fetching", "executed", "failed"}]
  /\ \A l \in Libs : tried[l] \in {<<>>, <<"page">>, <<"webjar">>, <<"webjar", "page">>}
  /\ registered \subseteq {"HelloApp", "eventApp", "watchApp"}
  /\ \A i \in DOMAIN ready : ready[i] \in {"auto", "manual"}
  /\ \A i \in DOMAIN boot : boot[i] \in {"bound", "nomod", "graph"}

\* The configuration arrives by a callback that waits for main.js, and main.js
\* already asks for libraries: still, where the configuration was loaded, no
\* library is looked for beside the page before its webjar failed.
ConfiguredBeforeFetch ==
  given => \A l \in Libs : tried[l] # <<>> => tried[l][1] = "webjar"

\* AngularJS is loaded by a page that is ready already or not yet: in either
\* case its bootstrap comes after the callback that registers the module.  Only
\* hello can miss its module, when main.js was not found.
BootFindsModule ==
  "nomod" \in {boot[i] : i \in DOMAIN boot} => page = "hello" /\ main = "failed"

\* No document is bootstrapped twice, by AngularJS itself and by main.js.
BoundOnce == Len(boot) <= 1

\* Some script could not be had.
Broken == \/ main = "failed"
          \/ \E l \in Libs : lib[l] = "failed"

\* A page whose scripts all come is brought up, whatever state the document
\* was in when AngularJS asked to be told of it.
ComesUp == <>(boot # <<>> \/ Broken)

================================================================================
