----------------------------- MODULE WebPagesProofs -----------------------------
(***************************************************************************)
(* The pages of the web applications, for any of the pages and any texts   *)
(* the user types on the watch page.                                       *)
(***************************************************************************)
EXTENDS WebApps, SequenceTheorems, TLAPS

--------------------------------------------------------------------------------
(* The scope of the watch page. *)

Values == Texts \cup {Hello, Unset}

ScopeTypes ==
  /\ scope \in [Scope!Fields -> Values]
  /\ last \in [Scope!Fields -> Values]
  /\ shown \in [{"newMessage", "oldMessage"} -> Values]
  /\ at \in 0 .. 4
  /\ scope["message"] # Unset
  /\ before # Unset
  /\ before \in Values

\* The listener has been called with the message of the scope.
Listened ==
  /\ last["message"] = scope["message"]
  /\ scope["newMessage"] = scope["message"]
  /\ scope["oldMessage"] = before

\* A new message: before is what the listener will be given for the old one.
ToBeListened ==
  /\ last["message"] # scope["message"]
  /\ before = IF last["message"] = Unset THEN scope["message"] ELSE last["message"]

\* What a digest has done by the watch it is at; the page shows what the watches
\* of the template saw last.
DigestProgress ==
  /\ at = 1 => Listened \/ ToBeListened
  /\ at # 1 => Listened
  /\ at \in {0, 3, 4} => last["newMessage"] = scope["newMessage"]
  /\ at \in {0, 4} => last["oldMessage"] = scope["oldMessage"]
  /\ shown["newMessage"] = last["newMessage"]
  /\ shown["oldMessage"] = last["oldMessage"]

ScopeInv == ScopeTypes /\ DigestProgress

LEMMA InitScopeInv == Scope!Init => ScopeInv
BY TextsAssumption
DEF Scope!Init, ScopeInv, ScopeTypes, DigestProgress, Listened, ToBeListened,
    Scope!Fields, Values

LEMMA NextScopeInv ==
  ASSUME ScopeInv, Scope!Next
  PROVE  ScopeInv'
<1> USE DEF ScopeInv, ScopeTypes, DigestProgress, Listened, ToBeListened, Scope!Fields, Values
<1>1. CASE Scope!Evaluate
  <2>1. at \in 1 .. 3 /\ at' = at + 1 /\ before' = before
    BY <1>1 DEF Scope!Evaluate, Scope!Watches
  <2>2. CASE at = 1
    <3>1. Scope!Watches[at] = "message"
      BY <2>2 DEF Scope!Watches
    <3>2. CASE Listened
      BY <1>1, <2>1, <2>2, <3>1, <3>2 DEF Scope!Evaluate
    <3>3. CASE ToBeListened
      BY <1>1, <2>1, <2>2, <3>1, <3>3 DEF Scope!Evaluate, Scope!Listener
    <3>4. QED
      BY <2>2, <3>2, <3>3
  <2>3. CASE at = 2
    <3>1. Scope!Watches[at] = "newMessage"
      BY <2>3 DEF Scope!Watches
    <3>2. QED
      BY <1>1, <2>1, <2>3, <3>1 DEF Scope!Evaluate
  <2>4. CASE at = 3
    <3>1. Scope!Watches[at] = "oldMessage"
      BY <2>4 DEF Scope!Watches
    <3>2. QED
      BY <1>1, <2>1, <2>4, <3>1 DEF Scope!Evaluate
  <2>5. QED
    BY <2>1, <2>2, <2>3, <2>4
<1>2. CASE Scope!EndOfPass
  <2>1. at = 4
    BY <1>2 DEF Scope!EndOfPass, Scope!Watches
  <2>2. QED
    BY <1>2, <2>1 DEF Scope!EndOfPass
<1>3. ASSUME NEW text \in Texts, Scope!Type(text)
      PROVE  ScopeInv'
  BY <1>3, TextsAssumption DEF Scope!Type
<1>4. QED
  BY <1>1, <1>2, <1>3 DEF Scope!Next, Scope!Digest

LEMMA StepScopeInv == ScopeInv /\ [Load \/ RunScope]_pageVars => ScopeInv'
<1> SUFFICES ASSUME ScopeInv, [Load \/ RunScope]_pageVars
             PROVE  ScopeInv'
  OBVIOUS
<1>1. CASE RunScope
  BY <1>1, NextScopeInv DEF RunScope
<1>2. CASE UNCHANGED scopeVars
  BY <1>2
  DEF scopeVars, ScopeInv, ScopeTypes, DigestProgress, Listened, ToBeListened, Scope!Fields, Values
<1>3. QED
  BY <1>1, <1>2 DEF Load, pageVars

\* Between two digests the watch page shows the message and the one before it,
\* although the listener writes to fields that are watched in the same digest
\* (watch/main.js:6-9), and whatever limit the digest has.
THEOREM WatchShowsMessage == PagesSpec => []ShowsMessageAndPrevious
<1>1. PagesInit => ScopeInv
  BY InitScopeInv DEF PagesInit
<1>2. ScopeInv => ShowsMessageAndPrevious
  BY DEF ScopeInv, DigestProgress, Listened, ShowsMessageAndPrevious,
         Scope!ShowsMessageAndPrevious
<1>3. QED
  BY <1>1, <1>2, StepScopeInv, PTL DEF PagesSpec

--------------------------------------------------------------------------------
(* The loading of the libraries. *)

Loaded == {"no", "fetching", "executed", "failed"}
Places == {"webjar", "page"}

LoadTypes ==
  /\ page \in Pages
  /\ parser \in {"head", "body", "end"}
  /\ given \in BOOLEAN
  /\ timers \subseteq {"main", "needs"}
  /\ main \in Loaded
  /\ lib \in [Libs -> Loaded]
  /\ tried \in [Libs -> Seq(Places)]

NothingFetched ==
  /\ \A l \in Libs : lib[l] = "no"
  /\ \A l \in Libs : tried[l] = <<>>

\* main.js is fetched by one timer, and its needs by another that it sets when it
\* has been executed; RequireJS is configured between the two.
LoadProgress ==
  /\ parser # "end" => timers = {} /\ main = "no"
  /\ page = "hello" => parser # "body" /\ timers = {} /\ main # "fetching"
  /\ "needs" \in timers => main = "executed"
  /\ main = "fetching" => timers = {}
  /\ "main" \in timers => main = "no"
  /\ main \in {"no", "fetching"} \/ "needs" \in timers => page = "hello" \/ NothingFetched
  /\ main = "executed" /\ page # "hello" => urls = ConfigCallback

\* Only what main.js needs is fetched, from the places RequireJS was given.
Fetched ==
  \A l \in Libs :
    /\ tried[l] # <<>> => page # "hello" /\ l \in MainJs.needs /\ main = "executed"
    /\ tried[l] # <<>> => tried[l][1] = urls[l][1]
    /\ lib[l] = "fetching" => tried[l] # <<>>
    /\ lib[l] = "executed" => page = "hello" \/ tried[l] # <<>>

LoadInv == LoadTypes /\ LoadProgress /\ Fetched

LEMMA InitLoadInv == Init => LoadInv
<1> SUFFICES ASSUME Init
             PROVE  LoadInv
  OBVIOUS
<1>1. NothingFetched
  BY DEF Init, NothingFetched
<1>2. LoadTypes
  <2>1. tried \in [Libs -> Seq(Places)]
    BY DEF Init
  <2>2. QED
    BY <2>1 DEF Init, LoadTypes, Loaded
<1>3. LoadProgress
  BY <1>1 DEF Init, LoadProgress
<1>4. Fetched
  BY <1>1 DEF NothingFetched, Fetched
<1>5. QED
  BY <1>2, <1>3, <1>4 DEF LoadInv

\* What a page needs and where it looks for it are settled by the page and by
\* whether it has its configuration.
LEMMA SettledByPage == page' = page => MainJs' = MainJs /\ NgApp' = NgApp
<1>1. page' = page => MainJs' = MainJs
  BY DEF MainJs
<1>2. page' = page => NgApp' = NgApp
  BY DEF NgApp
<1>3. QED
  BY <1>1, <1>2

LEMMA SettledByConfig ==
  page' = page /\ given' = given => ConfigCallback' = ConfigCallback
BY DEF ConfigCallback

\* The lists of places name places, the first one always.
LEMMA PlacesOfUrls ==
  ASSUME urls = ConfigCallback, NEW l \in Libs
  PROVE  /\ urls[l][1] \in Places
         /\ \A n \in Nat : n < Len(urls[l]) => urls[l][n + 1] \in Places
<1>1. urls[l] \in {<<"page">>, <<"webjar">>, <<"webjar", "page">>}
  BY DEF ConfigCallback, Unconfigured, AngularPaths, MxPaths, Libs
<1>2. QED
  BY <1>1 DEF Places

\* The actions of the parser.
LEMMA ParserLoadInv ==
  ASSUME LoadInv, Parser
  PROVE  LoadInv'
<1> USE DEF LoadInv, LoadTypes, LoadProgress, Fetched, NothingFetched, Loaded
<1>1. ASSUME NEW angular \in BOOLEAN, NEW hello \in BOOLEAN, HelloHead(angular, hello)
      PROVE  LoadInv'
  <2>1. page = "hello" /\ timers = {} /\ main = "no" /\ (\A l \in Libs : tried[l] = <<>>)
    BY <1>1 DEF HelloHead
  <2>2. LoadTypes'
    BY <1>1 DEF HelloHead, require
  <2>3. LoadProgress'
    BY <1>1, <2>1 DEF HelloHead, require
  <2>4. Fetched'
    BY <1>1, <2>1 DEF HelloHead, require
  <2>5. QED
    BY <2>2, <2>3, <2>4
<1>2. ASSUME NEW config \in BOOLEAN, PageHead(config)
      PROVE  LoadInv'
  <2>1. page # "hello" /\ timers = {} /\ main = "no" /\ NothingFetched
    BY <1>2 DEF PageHead
  <2>2. LoadTypes'
    BY <1>2 DEF PageHead, scripts
  <2>3. LoadProgress'
    BY <1>2, <2>1 DEF PageHead, scripts
  <2>4. Fetched'
    BY <1>2, <2>1 DEF PageHead, scripts
  <2>5. QED
    BY <2>2, <2>3, <2>4
<1>3. CASE RunRequireJs
  BY <1>3, SettledByPage, SettledByConfig DEF RunRequireJs, scripts
<1>4. CASE RequireJsMissing
  BY <1>4, SettledByPage, SettledByConfig DEF RequireJsMissing, require
<1>5. QED
  BY <1>1, <1>2, <1>3, <1>4 DEF Parser

LEMMA BrowserLoadInv ==
  ASSUME LoadInv, Browser
  PROVE  LoadInv'
<1> USE DEF LoadInv, LoadTypes, LoadProgress, Fetched, NothingFetched, Loaded
<1>1. CASE DOMContentLoaded \/ WindowLoad \/ ReadyTimer
  BY <1>1, SettledByPage, SettledByConfig DEF DOMContentLoaded, WindowLoad, ReadyTimer, html, require, scripts
<1>2. CASE MainTimer
  BY <1>2, SettledByPage, SettledByConfig DEF MainTimer, html
<1>3. CASE NeedsTimer
  <2>1. main = "executed" /\ page # "hello" /\ NothingFetched
    BY <1>3 DEF NeedsTimer
  <2>2. \A l \in Libs : urls[l][1] \in Places
    BY <2>1, PlacesOfUrls
  <2>3. LoadTypes'
    BY <1>3, <2>2 DEF NeedsTimer, html
  <2>4. LoadProgress'
    BY <1>3, <2>1, SettledByConfig DEF NeedsTimer, html
  <2>5. Fetched'
    BY <1>3, <2>1, SettledByPage DEF NeedsTimer, html
  <2>6. QED
    BY <2>3, <2>4, <2>5
<1>4. QED
  BY <1>1, <1>2, <1>3 DEF Browser

LEMMA NetworkLoadInv ==
  ASSUME LoadInv, Network
  PROVE  LoadInv'
<1> USE DEF LoadInv, LoadTypes, LoadProgress, Fetched, NothingFetched, Loaded
<1>1. CASE MainArrives
  <2>1. page # "hello" /\ timers = {} /\ NothingFetched
    BY <1>1 DEF MainArrives
  <2>2. LoadTypes'
    BY <1>1 DEF MainArrives, html
  <2>3. LoadProgress'
    BY <1>1, <2>1, SettledByConfig DEF MainArrives, html
  <2>4. Fetched'
    BY <1>1, <2>1 DEF MainArrives, html
  <2>5. QED
    BY <2>2, <2>3, <2>4
<1>2. CASE MainFails
  BY <1>2, SettledByPage, SettledByConfig DEF MainFails, html, require
<1>3. ASSUME NEW l \in Libs, Arrives(l)
      PROVE  LoadInv'
  <2>1. page # "hello" /\ tried[l] # <<>> /\ main = "executed" /\ "needs" \notin timers
    BY <1>3 DEF Arrives
  <2>2. LoadTypes'
    BY <1>3 DEF Arrives, html, require
  <2>3. LoadProgress'
    BY <1>3, <2>1, SettledByConfig DEF Arrives, html, require
  <2>4. Fetched'
    BY <1>3, <2>1, SettledByPage DEF Arrives, html, require
  <2>5. QED
    BY <2>2, <2>3, <2>4
<1>4. ASSUME NEW l \in Libs, Fails(l)
      PROVE  LoadInv'
  <2>1. page # "hello" /\ tried[l] # <<>> /\ main = "executed" /\ "needs" \notin timers
    BY <1>4 DEF Fails
  <2>2. CASE Len(tried[l]) < Len(urls[l])
    <3> DEFINE place == urls[l][Len(tried[l]) + 1]
    <3>1. place \in Places
      BY <2>1, <2>2, PlacesOfUrls
    <3>2. tried' = [tried EXCEPT ![l] = Append(@, place)] /\ lib' = lib
      BY <1>4, <2>2 DEF Fails
    <3>3. Append(tried[l], place) # <<>> /\ Append(tried[l], place)[1] = tried[l][1]
      BY <2>1, <3>1
    <3> HIDE DEF place
    <3>4. LoadTypes'
      BY <1>4, <3>1, <3>2 DEF Fails, html, require
    <3>5. LoadProgress'
      BY <1>4, <2>1, <3>2, SettledByConfig DEF Fails, html, require
    <3>6. Fetched'
      BY <1>4, <2>1, <3>2, <3>3, SettledByPage DEF Fails, html, require
    <3>7. QED
      BY <3>4, <3>5, <3>6
  <2>3. CASE ~(Len(tried[l]) < Len(urls[l]))
    <3>1. lib' = [lib EXCEPT ![l] = "failed"] /\ tried' = tried
      BY <1>4, <2>3 DEF Fails
    <3>2. LoadTypes'
      BY <1>4, <3>1 DEF Fails, html, require
    <3>3. LoadProgress'
      BY <1>4, <2>1, <3>1, SettledByConfig DEF Fails, html, require
    <3>4. Fetched'
      BY <1>4, <2>1, <3>1, SettledByPage DEF Fails, html, require
    <3>5. QED
      BY <3>2, <3>3, <3>4
  <2>4. QED
    BY <2>2, <2>3
<1>5. QED
  BY <1>1, <1>2, <1>3, <1>4 DEF Network

LEMMA NextLoadInv == LoadInv /\ [Load \/ RunScope]_pageVars => LoadInv'
<1> SUFFICES ASSUME LoadInv, [Load \/ RunScope]_pageVars
             PROVE  LoadInv'
  OBVIOUS
<1>1. CASE Next
  BY <1>1, ParserLoadInv, BrowserLoadInv, NetworkLoadInv DEF Next
<1>2. CASE UNCHANGED vars
  BY <1>2, SettledByPage, SettledByConfig
  DEF vars, html, require, scripts, LoadInv, LoadTypes, LoadProgress, Fetched, NothingFetched
<1>3. QED
  BY <1>1, <1>2 DEF Load, RunScope, pageVars

\* The library a page needs has a webjar in the configuration of its application.
LEMMA NeedsWebjar ==
  ASSUME page \in Pages, page # "hello", given, NEW l \in MainJs.needs
  PROVE  ConfigCallback[l][1] = "webjar"
<1>1. CASE page = "labels"
  <2>1. l \in {"jquery", "mxgraph-client"}
    BY <1>1 DEF MainJs, LabelsMain
  <2>2. ConfigCallback = MxPaths
    BY <1>1 DEF ConfigCallback
  <2>3. QED
    BY <2>1, <2>2 DEF MxPaths, Libs
<1>2. CASE page # "labels"
  <2>1. l = "angular"
    <3>1. page \in {"require-angular", "event", "watch", "manual"}
      BY <1>2, PagesAssumption
    <3>2. QED
      BY <3>1 DEF MainJs, RequireMain, EventMain, WatchMain, ManualMain
  <2>2. ConfigCallback = AngularPaths
    BY <1>2 DEF ConfigCallback
  <2>3. QED
    BY <2>1, <2>2 DEF AngularPaths, Unconfigured, Libs
<1>3. QED
  BY <1>1, <1>2

\* Where the configuration was loaded, no library is looked for beside the page
\* before its webjar failed, though the callback of the configuration waits for
\* main.js and main.js already asks for libraries (the two require-config.js).
THEOREM ConfiguredFirst == PagesSpec => []ConfiguredBeforeFetch
<1>1. PagesInit => LoadInv
  BY InitLoadInv DEF PagesInit
<1>2. LoadInv => ConfiguredBeforeFetch
  <2> SUFFICES ASSUME LoadInv, given, NEW l \in Libs, tried[l] # <<>>
               PROVE  tried[l][1] = "webjar"
    BY DEF ConfiguredBeforeFetch
  <2>1. /\ tried[l][1] = urls[l][1]
        /\ urls = ConfigCallback
        /\ l \in MainJs.needs
        /\ page \in Pages
        /\ page # "hello"
    BY DEF LoadInv, LoadTypes, LoadProgress, Fetched
  <2>2. QED
    BY <2>1, NeedsWebjar
<1>3. QED
  BY <1>1, <1>2, NextLoadInv, PTL DEF PagesSpec

--------------------------------------------------------------------------------
(* The start of the pages. *)

\* The callbacks that wait and what the start came to so far.
Started(hooks, outcomes) == ready = hooks /\ boot = outcomes

AutoPages == {"require-angular", "event", "watch"}

\* Once AngularJS is there, so is the module: main.js registers it in the task in
\* which AngularJS asks to be told of the document.
AutoStarts ==
  page \in AutoPages =>
    IF lib["angular"] = "executed"
    THEN NgApp \subseteq registered /\ (Started(<<"auto">>, <<>>) \/ Started(<<>>, <<"bound">>))
    ELSE Started(<<>>, <<>>)

ManualStarts ==
  page = "manual" =>
    IF lib["angular"] = "executed"
    THEN \/ Started(<<"auto", "manual">>, <<>>)
         \/ Started(<<"manual">>, <<>>)
         \/ Started(<<>>, <<"bound">>)
    ELSE Started(<<>>, <<>>)

LabelsStarts ==
  page = "labels" =>
    \/ Started(<<>>, <<>>)
    \/ /\ Started(<<>>, <<"graph">>)
       /\ \A l \in {"jquery", "mxgraph-client"} : lib[l] = "executed"

HelloStarts ==
  page = "hello" =>
    /\ parser = "head" => Started(<<>>, <<>>)
    /\ parser # "head" /\ main # "failed" => registered = {"HelloApp"}
    /\ \/ Started(<<>>, <<>>)
       \/ Started(<<"auto">>, <<>>)
       \/ Started(<<>>, <<"bound">>)
       \/ Started(<<>>, <<"nomod">>) /\ main = "failed"

BootInv == AutoStarts /\ ManualStarts /\ LabelsStarts /\ HelloStarts

LEMMA InitBootInv == Init => BootInv
BY DEF Init, BootInv, AutoStarts, ManualStarts, LabelsStarts, HelloStarts, Started, Libs

\* What a callback can come to.
Ends == {<<>>, <<"bound">>, <<"nomod">>, <<"graph">>}

LEMMA EndsConcat == \A s \in Ends : <<>> \o s = s /\ s \o <<>> = s
BY DEF Ends

\* What the callbacks come to.
LEMMA OutcomeFacts ==
  /\ Outcome("manual") = <<"bound">>
  /\ NgApp = {} => Outcome("auto") = <<>>
  /\ NgApp # {} /\ NgApp \subseteq registered => Outcome("auto") = <<"bound">>
  /\ NgApp # {} /\ ~(NgApp \subseteq registered) => Outcome("auto") = <<"nomod">>
BY DEF Outcome

LEMMA OutcomesFacts ==
  /\ Outcomes(<<>>) = <<>>
  /\ \A h : Outcomes(<<h>>) = Outcome(h)
  /\ \A h, k : Outcomes(<<h, k>>) = Outcome(h) \o Outcome(k)
BY DEF Outcomes

LEMMA NgAppFacts ==
  /\ page \in AutoPages => NgApp # {}
  /\ page = "hello" => NgApp = {"HelloApp"}
  /\ page \in {"manual", "labels"} => NgApp = {}
BY DEF NgApp, AutoPages

\* The callbacks that wait are called, all at once or the first of them.
Called ==
  \/ boot' = boot \o Outcomes(ready) /\ ready' = <<>>
  \/ ready # <<>> /\ boot' = boot \o Outcome(ready[1]) /\ ready' = Tail(ready)

LEMMA CalledBootInv ==
  ASSUME BootInv, page \in Pages, Called, UNCHANGED <<page, parser, main, lib, registered>>
  PROVE  BootInv'
<1> USE DEF BootInv, AutoStarts, ManualStarts, LabelsStarts, HelloStarts, Started
<1>1. NgApp' = NgApp
  BY SettledByPage
<1>2. CASE Started(<<>>, <<>>) \/ Started(<<>>, <<"graph">>) \/ Started(<<>>, <<"bound">>) \/ Started(<<>>, <<"nomod">>)
  <2>1. boot' = boot /\ ready' = ready
    BY <1>2, OutcomesFacts, EndsConcat DEF Called, Ends
  <2>2. QED
    BY <1>1, <2>1
<1>3. CASE Started(<<"auto">>, <<>>) /\ page # "manual"
  <2>1. Outcome("auto") \in Ends
    BY OutcomeFacts DEF Ends
  <2>2. boot' = <<>> \o Outcome("auto") /\ ready' = <<>>
    BY <1>3, OutcomesFacts DEF Called
  <2>3. QED
    BY <1>1, <1>3, <2>1, <2>2, EndsConcat, OutcomeFacts, NgAppFacts, PagesAssumption
    DEF AutoPages
<1>4. CASE Started(<<"auto", "manual">>, <<>>) /\ page = "manual"
  <2>1. Outcome("auto") = <<>>
    BY <1>4, NgAppFacts, OutcomeFacts
  <2>2. \/ boot' = <<"bound">> /\ ready' = <<>>
        \/ boot' = <<>> /\ ready' = <<"manual">>
    BY <1>4, <2>1, OutcomesFacts, OutcomeFacts, EndsConcat DEF Called, Ends
  <2>3. QED
    BY <1>4, <2>2 DEF AutoPages
<1>5. CASE Started(<<"manual">>, <<>>) /\ page = "manual"
  <2>1. boot' = <<"bound">> /\ ready' = <<>>
    BY <1>5, OutcomesFacts, OutcomeFacts, EndsConcat DEF Called, Ends
  <2>2. QED
    BY <1>5, <2>1 DEF AutoPages
<1>6. QED
  BY <1>2, <1>3, <1>4, <1>5, PagesAssumption DEF AutoPages

\* What the pages need, register and hand over.
LEMMA NeedsFacts ==
  /\ page \in AutoPages \cup {"manual"} => MainJs.needs = {"angular"}
  /\ page \in AutoPages => MainJs.registers = NgApp /\ MainJs.hooks = <<>>
  /\ page = "manual" => MainJs.hooks = <<"manual">>
  /\ page = "labels" => MainJs.needs = {"jquery", "mxgraph-client"} /\ MainJs.hooks = <<>>
<1>1. page = "require-angular" =>
        MainJs.needs = {"angular"} /\ MainJs.registers = NgApp /\ MainJs.hooks = <<>>
  BY DEF MainJs, NgApp, RequireMain
<1>2. page = "event" =>
        MainJs.needs = {"angular"} /\ MainJs.registers = NgApp /\ MainJs.hooks = <<>>
  BY DEF MainJs, NgApp, EventMain
<1>3. page = "watch" =>
        MainJs.needs = {"angular"} /\ MainJs.registers = NgApp /\ MainJs.hooks = <<>>
  BY DEF MainJs, NgApp, WatchMain
<1>4. page = "manual" => MainJs.needs = {"angular"} /\ MainJs.hooks = <<"manual">>
  BY DEF MainJs, ManualMain
<1>5. page = "labels" =>
        MainJs.needs = {"jquery", "mxgraph-client"} /\ MainJs.hooks = <<>>
  BY DEF MainJs, LabelsMain
<1>6. QED
  BY <1>1, <1>2, <1>3, <1>4, <1>5 DEF AutoPages

LEMMA Pair ==
  ASSUME NEW x, NEW y
  PROVE  <<x>> \o <<y>> = <<x, y>>
<1> DEFINE S == {x, y}
<1>1. <<x>> \in Seq(S) /\ <<y>> \in Seq(S) /\ <<x, y>> \in Seq(S)
  OBVIOUS
<1>2. /\ <<x>> \o <<y>> \in Seq(S)
      /\ Len(<<x>> \o <<y>>) = 2
      /\ \A i \in 1 .. 2 : (<<x>> \o <<y>>)[i] = <<x, y>>[i]
  BY <1>1
<1>3. QED
  BY <1>1, <1>2, SeqEqual

\* A library is executed, perhaps the last one.
LEMMA ArrivesBootInv ==
  ASSUME LoadInv, BootInv, NEW l \in Libs, Arrives(l)
  PROVE  BootInv'
<1> USE DEF BootInv, AutoStarts, ManualStarts, LabelsStarts, HelloStarts, Started
<1>1. /\ page # "hello" /\ page \in Pages
      /\ l \in MainJs.needs
      /\ lib \in [Libs -> Loaded] /\ lib[l] = "fetching"
      /\ page' = page /\ lib' = [lib EXCEPT ![l] = "executed"]
      /\ NgApp' = NgApp
  BY SettledByPage DEF Arrives, html, LoadInv, LoadTypes, Fetched
<1>2. CASE page \in AutoPages
  <2>1. l = "angular" /\ Started(<<>>, <<>>) /\ page # "labels"
    BY <1>1, <1>2, NeedsFacts DEF AutoPages
  <2>2. \A n \in MainJs.needs : lib'[n] = "executed"
    BY <1>1, <1>2, <2>1, NeedsFacts
  <2>3. /\ ready' = <<>> \o <<"auto">> \o <<>>
        /\ boot' = <<>>
        /\ registered' = registered \cup NgApp
    BY <1>2, <2>1, <2>2, NeedsFacts DEF Arrives
  <2>4. QED
    BY <1>1, <1>2, <2>1, <2>3 DEF AutoPages
<1>3. CASE page = "manual"
  <2>1. l = "angular" /\ Started(<<>>, <<>>)
    BY <1>1, <1>3, NeedsFacts
  <2>2. \A n \in MainJs.needs : lib'[n] = "executed"
    BY <1>1, <1>3, <2>1, NeedsFacts
  <2>3. ready' = <<>> \o <<"auto">> \o <<"manual">> /\ boot' = <<>>
    BY <1>3, <2>1, <2>2, NeedsFacts DEF Arrives
  <2>4. ready' = <<"auto", "manual">>
    <3>1. <<>> \o <<"auto">> = <<"auto">>
      OBVIOUS
    <3>2. QED
      BY <2>3, <3>1, Pair
  <2>5. QED
    BY <1>1, <1>3, <2>1, <2>3, <2>4 DEF AutoPages
<1>4. CASE page = "labels"
  <2>1. l \in {"jquery", "mxgraph-client"} /\ Started(<<>>, <<>>)
    BY <1>1, <1>4, NeedsFacts
  <2>2. ready' = <<>>
    <3>1. MainJs.hooks = <<>> /\ l # "angular"
      BY <1>4, <2>1, NeedsFacts
    <3>2. ready' = <<>> \o <<>> \o <<>>
      BY <2>1, <3>1 DEF Arrives
    <3>3. QED
      BY <3>2
  <2>3. CASE \A n \in MainJs.needs : lib'[n] = "executed"
    <3>1. boot' = <<"graph">>
      BY <1>4, <2>1, <2>3 DEF Arrives
    <3>2. QED
      BY <1>1, <1>4, <2>2, <2>3, <3>1, NeedsFacts DEF AutoPages
  <2>4. CASE ~(\A n \in MainJs.needs : lib'[n] = "executed")
    <3>1. boot' = <<>>
      BY <1>4, <2>1, <2>4 DEF Arrives
    <3>2. QED
      BY <1>1, <1>4, <2>2, <3>1 DEF AutoPages
  <2>5. QED
    BY <2>3, <2>4
<1>5. QED
  BY <1>1, <1>2, <1>3, <1>4, PagesAssumption DEF AutoPages

\* What is left: steps that neither execute a library nor call what waits.
LEMMA OtherBootInv ==
  ASSUME BootInv, UNCHANGED <<page, registered, ready, boot>>,
         page # "hello",
         \A l \in Libs : lib'[l] = "executed" <=> lib[l] = "executed"
  PROVE  BootInv'
BY SettledByPage
DEF BootInv, AutoStarts, ManualStarts, LabelsStarts, HelloStarts, Started, Libs, AutoPages

LEMMA HelloBootInv ==
  ASSUME BootInv, NEW angular \in BOOLEAN, NEW hello \in BOOLEAN, HelloHead(angular, hello)
  PROVE  BootInv'
BY DEF HelloHead, BootInv, AutoStarts, ManualStarts, LabelsStarts, HelloStarts, Started, AutoPages

LEMMA NextBootInv ==
  ASSUME LoadInv, BootInv, Next
  PROVE  BootInv'
<1> USE DEF html, require, scripts
<1>1. page \in Pages /\ lib \in [Libs -> Loaded]
  BY DEF LoadInv, LoadTypes
<1>2. ASSUME NEW angular \in BOOLEAN, NEW hello \in BOOLEAN, HelloHead(angular, hello)
      PROVE  BootInv'
  BY <1>2, HelloBootInv
<1>3. ASSUME NEW config \in BOOLEAN, PageHead(config)
      PROVE  BootInv'
  BY <1>3, OtherBootInv DEF PageHead
<1>4. CASE RunRequireJs \/ RequireJsMissing
  BY <1>4, OtherBootInv DEF RunRequireJs, RequireJsMissing, LoadInv, LoadProgress
<1>5. CASE DOMContentLoaded \/ WindowLoad \/ ReadyTimer
  BY <1>1, <1>5, CalledBootInv
  DEF DOMContentLoaded, WindowLoad, ReadyTimer, DocumentIs, Called
<1>6. CASE MainTimer \/ MainArrives \/ MainFails
  BY <1>6, OtherBootInv DEF MainTimer, MainArrives, MainFails, LoadInv, LoadProgress
<1>7. CASE NeedsTimer
  <2>1. page # "hello" /\ \A l \in Libs : lib[l] = "no"
    BY <1>7 DEF NeedsTimer, LoadInv, LoadProgress, NothingFetched
  <2>2. \A l \in Libs : lib'[l] # "executed"
    BY <1>7, <2>1 DEF NeedsTimer
  <2>3. QED
    BY <1>7, <2>1, <2>2, OtherBootInv DEF NeedsTimer
<1>8. ASSUME NEW l \in Libs, Arrives(l)
      PROVE  BootInv'
  BY <1>8, ArrivesBootInv
<1>9. ASSUME NEW l \in Libs, Fails(l)
      PROVE  BootInv'
  <2>1. page # "hello"
    BY <1>9 DEF Fails, LoadInv, Fetched
  <2>2. \A n \in Libs : lib'[n] = "executed" <=> lib[n] = "executed"
    BY <1>1, <1>9 DEF Fails
  <2>3. QED
    BY <1>9, <2>1, <2>2, OtherBootInv DEF Fails
<1>10. QED
  BY <1>2, <1>3, <1>4, <1>5, <1>6, <1>7, <1>8, <1>9 DEF Next, Parser, Browser, Network

LEMMA StepBootInv == LoadInv /\ BootInv /\ [Load \/ RunScope]_pageVars => BootInv'
<1> SUFFICES ASSUME LoadInv, BootInv, [Load \/ RunScope]_pageVars
             PROVE  BootInv'
  OBVIOUS
<1>1. CASE Next
  BY <1>1, NextBootInv
<1>2. CASE UNCHANGED vars
  BY <1>2, SettledByPage
  DEF vars, html, scripts, BootInv, AutoStarts, ManualStarts, LabelsStarts, HelloStarts, Started
<1>3. QED
  BY <1>1, <1>2 DEF Load, RunScope, pageVars

\* In whatever state the document is when AngularJS arrives, its bootstrap finds
\* the module of the page; only hello can miss it, without its main.js.
THEOREM ModuleIsThere == PagesSpec => []BootFindsModule
<1>1. PagesInit => LoadInv /\ BootInv
  BY InitLoadInv, InitBootInv DEF PagesInit
<1>2. LoadInv /\ BootInv => BootFindsModule
  <2> SUFFICES ASSUME LoadInv, BootInv, "nomod" \in {boot[i] : i \in DOMAIN boot}
               PROVE  page = "hello" /\ main = "failed"
    BY DEF BootFindsModule
  <2>1. page \in Pages
    BY DEF LoadInv, LoadTypes
  <2>2. QED
    BY <2>1, PagesAssumption
    DEF BootInv, AutoStarts, ManualStarts, LabelsStarts, HelloStarts, Started, AutoPages
<1>3. QED
  BY <1>1, <1>2, NextLoadInv, StepBootInv, PTL DEF PagesSpec

\* No document is bootstrapped twice, by AngularJS itself and by the callback of
\* manual/main.js.
THEOREM BoundAtMostOnce == PagesSpec => []BoundOnce
<1>1. PagesInit => LoadInv /\ BootInv
  BY InitLoadInv, InitBootInv DEF PagesInit
<1>2. LoadInv /\ BootInv => BoundOnce
  <2> SUFFICES ASSUME LoadInv, BootInv
               PROVE  Len(boot) <= 1
    BY DEF BoundOnce
  <2>1. page \in Pages
    BY DEF LoadInv, LoadTypes
  <2>2. QED
    BY <2>1, PagesAssumption
    DEF BootInv, AutoStarts, ManualStarts, LabelsStarts, HelloStarts, Started, AutoPages
<1>3. QED
  BY <1>1, <1>2, NextLoadInv, StepBootInv, PTL DEF PagesSpec
--------------------------------------------------------------------------------
(* Nothing is waited for that does not come. *)

\* Once the page is parsed main.js is on its way, and once that is executed what
\* it needs; a page that has all it needs has started or is called back.
Coming ==
  /\ (parser = "end" /\ page # "hello") =>
       /\ main = "no" => "main" \in timers
       /\ main = "executed" =>
            "needs" \in timers \/ \A l \in MainJs.needs : lib[l] # "no"
  /\ (page = "hello" /\ parser = "end") => Broken \/ ready # <<>> \/ boot # <<>>
  /\ (page = "labels" /\ \A l \in MainJs.needs : lib[l] = "executed") => boot # <<>>

\* A task that the browser owes the page: parsing, a timer, the end of a request,
\* the next state of the document, or a callback of the last one.
TaskIsDue ==
  \/ parser # "end"
  \/ timers # {}
  \/ main = "fetching"
  \/ \E l \in Libs : lib[l] = "fetching"
  \/ doc # "complete"
  \/ ready # <<>>

\* A page that has not come up, though no script is missing, has a task to come.
NoPageIsStuck == boot = <<>> /\ ~Broken => TaskIsDue

LEMMA InitComing == Init => Coming
BY NeedsFacts DEF Init, Coming, Libs

\* Nothing is changed but what waits for the document and what the page came to.
LEMMA CalledComing ==
  ASSUME LoadInv, BootInv, Coming, Called,
         UNCHANGED <<page, parser, timers, main, lib, registered>>
  PROVE  Coming'
<1>1. MainJs' = MainJs /\ Broken' = Broken
  BY SettledByPage DEF Broken
<1>2. page \in Pages
  BY DEF LoadInv, LoadTypes
<1>3. CASE page = "hello"
  <2>1. ASSUME ready # <<>> \/ boot # <<>>
        PROVE  ready' # <<>> \/ boot' # <<>>
    <3>1. CASE Started(<<>>, <<"bound">>) \/ Started(<<>>, <<"nomod">>)
      <4>1. boot' = boot
        BY <3>1, OutcomesFacts, EndsConcat DEF Called, Started, Ends
      <4>2. QED
        BY <3>1, <4>1 DEF Started
    <3>2. CASE Started(<<"auto">>, <<>>)
      <4>1. Outcome("auto") \in {<<"bound">>, <<"nomod">>}
        BY <1>3, NgAppFacts, OutcomeFacts
      <4>2. boot' = <<>> \o Outcome("auto")
        BY <3>2, OutcomesFacts DEF Called, Started
      <4>3. QED
        BY <4>1, <4>2, EndsConcat DEF Ends
    <3>3. QED
      BY <1>3, <2>1, <3>1, <3>2 DEF BootInv, HelloStarts, Started
  <2>2. QED
    BY <1>1, <1>3, <2>1 DEF Coming
<1>4. CASE page = "labels"
  <2>1. boot' = boot
    <3>1. ready = <<>> /\ boot \in Ends
      BY <1>4 DEF BootInv, LabelsStarts, Started, Ends
    <3>2. QED
      BY <3>1, OutcomesFacts, EndsConcat DEF Called
  <2>2. QED
    BY <1>1, <1>4, <2>1 DEF Coming
<1>5. CASE page \notin {"hello", "labels"}
  BY <1>1, <1>5 DEF Coming
<1>6. QED
  BY <1>3, <1>4, <1>5

LEMMA NextComing ==
  ASSUME LoadInv, BootInv, Coming, Next
  PROVE  Coming'
<1> USE DEF html, require, scripts
<1>1. /\ page \in Pages /\ lib \in [Libs -> Loaded]
      /\ MainJs.needs \subseteq Libs \/ page = "hello"
  BY PagesAssumption, NeedsFacts DEF LoadInv, LoadTypes, Libs, AutoPages
<1>2. page' = page /\ MainJs' = MainJs
  <2>1. page' = page
    BY DEF Next, Parser, Browser, Network, HelloHead, PageHead, RunRequireJs,
           RequireJsMissing, DOMContentLoaded, WindowLoad, ReadyTimer, MainTimer,
           NeedsTimer, MainArrives, MainFails, Arrives, Fails
  <2>2. QED
    BY <2>1, SettledByPage
<1>3. ASSUME NEW angular \in BOOLEAN, NEW hello \in BOOLEAN, HelloHead(angular, hello)
      PROVE  Coming'
  BY <1>1, <1>2, <1>3 DEF HelloHead, Coming, Broken, Libs
<1>4. ASSUME NEW config \in BOOLEAN, PageHead(config)
      PROVE  Coming'
  BY <1>2, <1>4 DEF PageHead, Coming
<1>5. CASE RunRequireJs \/ RequireJsMissing
  BY <1>2, <1>5 DEF RunRequireJs, RequireJsMissing, Coming, LoadInv, LoadProgress
<1>6. CASE DOMContentLoaded \/ WindowLoad \/ ReadyTimer
  BY <1>6, CalledComing
  DEF DOMContentLoaded, WindowLoad, ReadyTimer, DocumentIs, Called
<1>7. CASE MainTimer \/ MainArrives \/ MainFails
  BY <1>2, <1>7 DEF MainTimer, MainArrives, MainFails, Coming, LoadInv, LoadProgress
<1>8. CASE NeedsTimer
  <2>1. page # "hello" /\ main = "executed" /\ UNCHANGED <<parser, main>>
    BY <1>8 DEF NeedsTimer, LoadInv, LoadProgress
  <2>2. \A l \in MainJs.needs : lib'[l] = "fetching"
    BY <1>1, <1>8, <2>1 DEF NeedsTimer
  <2>3. page = "labels" => MainJs.needs # {}
    BY NeedsFacts
  <2>4. QED
    BY <1>2, <2>1, <2>2, <2>3 DEF Coming
<1>9. ASSUME NEW l \in Libs, Arrives(l) \/ Fails(l)
      PROVE  Coming'
  <2>1. page # "hello" /\ l \in MainJs.needs
    BY <1>9 DEF Arrives, Fails, LoadInv, Fetched
  <2>2. UNCHANGED <<parser, timers, main>>
    BY <1>9 DEF Arrives, Fails
  <2>3. /\ lib' = [lib EXCEPT ![l] = lib'[l]]
        /\ lib'[l] # "no"
    BY <1>1, <1>9 DEF Arrives, Fails
  <2>4. page = "labels" /\ (\A n \in MainJs.needs : lib'[n] = "executed") => boot' # <<>>
    <3> SUFFICES ASSUME page = "labels", \A n \in MainJs.needs : lib'[n] = "executed"
                 PROVE  boot' # <<>>
      OBVIOUS
    <3>1. Arrives(l)
      BY <1>1, <1>9, <2>1 DEF Fails
    <3>2. boot' = Append(boot, "graph")
      BY <3>1 DEF Arrives
    <3>3. boot \in Seq({"graph"})
      <4>1. boot = <<>> \/ boot = <<"graph">>
        BY DEF BootInv, LabelsStarts, Started
      <4>2. <<>> \in Seq({"graph"}) /\ <<"graph">> \in Seq({"graph"})
        OBVIOUS
      <4>3. QED
        BY <4>1, <4>2
    <3>4. QED
      BY <3>2, <3>3
  <2>5. \A n \in MainJs.needs : lib[n] # "no" => lib'[n] # "no"
    BY <1>1, <2>1, <2>3
  <2>6. QED
    BY <1>2, <2>1, <2>2, <2>4, <2>5 DEF Coming
<1>10. QED
  BY <1>3, <1>4, <1>5, <1>6, <1>7, <1>8, <1>9 DEF Next, Parser, Browser, Network

LEMMA StepComing ==
  LoadInv /\ BootInv /\ Coming /\ [Load \/ RunScope]_pageVars => Coming'
<1> SUFFICES ASSUME LoadInv, BootInv, Coming, [Load \/ RunScope]_pageVars
             PROVE  Coming'
  OBVIOUS
<1>1. CASE Next
  BY <1>1, NextComing
<1>2. CASE UNCHANGED vars
  BY <1>2, SettledByPage DEF vars, html, require, scripts, Coming, Broken
<1>3. QED
  BY <1>1, <1>2 DEF Load, RunScope, pageVars

\* As long as no script is missing, a page that has not come up waits for a task
\* the browser owes it, in whatever order parsing, timers, requests and the states
\* of the document have come (require-config.js and the main.js of each page):
\* what ComesUp adds is that the browser runs it.
THEOREM PagesProceed == PagesSpec => []NoPageIsStuck
<1>1. PagesInit => LoadInv /\ BootInv /\ Coming
  BY InitLoadInv, InitBootInv, InitComing DEF PagesInit
<1>2. LoadInv /\ BootInv /\ Coming => NoPageIsStuck
  <2> SUFFICES ASSUME LoadInv, BootInv, Coming, ~Broken, ~TaskIsDue
               PROVE  boot # <<>>
    BY DEF NoPageIsStuck
  <2>1. /\ parser = "end" /\ timers = {} /\ ready = <<>> /\ page \in Pages
        /\ main \in {"no", "executed"}
        /\ \A l \in Libs : lib[l] \in {"no", "executed"}
    BY DEF LoadInv, LoadTypes, TaskIsDue, Broken, Loaded
  <2>2. CASE page = "hello"
    BY <2>1, <2>2 DEF Coming
  <2>3. CASE page # "hello"
    <3>1. \A l \in MainJs.needs : lib[l] # "no"
      BY <2>1, <2>3 DEF Coming
    <3>2. MainJs.needs \subseteq Libs
      BY <2>1, <2>3, PagesAssumption, NeedsFacts DEF Libs, AutoPages
    <3>3. \A l \in MainJs.needs : lib[l] = "executed"
      BY <2>1, <3>1, <3>2
    <3>4. CASE page = "labels"
      BY <3>3, <3>4 DEF Coming
    <3>5. CASE page \in AutoPages \cup {"manual"}
      <4>1. lib["angular"] = "executed"
        BY <3>3, <3>5, NeedsFacts
      <4>2. QED
        BY <2>1, <3>5, <4>1 DEF BootInv, AutoStarts, ManualStarts, Started
    <3>6. QED
      BY <2>1, <2>3, <3>4, <3>5, PagesAssumption DEF AutoPages
  <2>4. QED
    BY <2>2, <2>3
<1>3. QED
  BY <1>1, <1>2, NextLoadInv, StepBootInv, StepComing, PTL DEF PagesSpec
--------------------------------------------------------------------------------
(* The digest settles. *)

\* Every watch has seen the value its field has.
Settled == \A f \in Scope!Fields : last[f] = scope[f]

\* A pass that changed something was the first, the second confirms it, and the
\* digest ends with nothing left to see: the limit is never what ends it, if it
\* allows two passes.
DigestSettles ==
  /\ passes <= 2
  /\ dirty => passes = 1
  /\ at = 0 => Settled

PassInv ==
  /\ passes \in 1 .. 2
  /\ dirty \in BOOLEAN
  /\ passes = 2 => ~dirty /\ Settled

LEMMA NextPassInv ==
  ASSUME ScopeInv, PassInv, Scope!Next
  PROVE  PassInv'
<1>1. CASE Scope!Evaluate
  <2>1. at \in 1 .. 3 /\ Scope!Watches[at] \in Scope!Fields /\ passes' = passes
    BY <1>1 DEF Scope!Evaluate, Scope!Watches, Scope!Fields
  <2>2. CASE passes = 2
    <3>1. last[Scope!Watches[at]] = scope[Scope!Watches[at]]
      BY <2>1, <2>2 DEF PassInv, Settled
    <3>2. UNCHANGED <<scope, last, dirty>>
      BY <1>1, <3>1 DEF Scope!Evaluate
    <3>3. QED
      BY <2>1, <3>2 DEF PassInv, Settled
  <2>3. CASE passes = 1
    <3>1. dirty' \in BOOLEAN
      BY <1>1 DEF Scope!Evaluate, PassInv
    <3>2. QED
      BY <2>1, <2>3, <3>1 DEF PassInv
  <2>4. QED
    BY <2>2, <2>3 DEF PassInv
<1>2. CASE Scope!EndOfPass
  <2>1. at = 4 /\ UNCHANGED <<scope, last>> /\ dirty' = FALSE
        /\ passes' = IF dirty THEN passes + 1 ELSE passes
    BY <1>2 DEF Scope!EndOfPass, Scope!Watches
  <2>2. Settled
    BY <2>1 DEF ScopeInv, DigestProgress, Listened, Settled, Scope!Fields
  <2>3. Settled'
    BY <2>1, <2>2 DEF Settled
  <2>4. passes' \in 1 .. 2
    BY <2>1 DEF PassInv
  <2>5. QED
    BY <2>1, <2>3, <2>4 DEF PassInv
<1>3. ASSUME NEW text \in Texts, Scope!Type(text)
      PROVE  PassInv'
  BY <1>3 DEF Scope!Type, PassInv
<1>4. QED
  BY <1>1, <1>2, <1>3 DEF Scope!Next, Scope!Digest

\* Whatever the user types, and whatever the limit of passes, a digest of the watch
\* page is over after two: the controller's $watch comes before those of the
\* template, so what its listener sets is seen in the same pass
\* (watch/main.js:6-9).
THEOREM DigestIsOver == PagesSpec => []DigestSettles
<1>1. PagesInit => ScopeInv /\ PassInv
  <2> SUFFICES ASSUME PagesInit
               PROVE  ScopeInv /\ PassInv
    OBVIOUS
  <2>1. passes = 1 /\ dirty = FALSE
    BY DEF PagesInit, Scope!Init
  <2>2. PassInv
    <3>1. passes \in 1 .. 2 /\ passes # 2
      BY <2>1
    <3>2. dirty \in BOOLEAN
      BY <2>1
    <3>3. QED
      BY <3>1, <3>2 DEF PassInv
  <2>3. QED
    BY <2>2, InitScopeInv DEF PagesInit
<1>2. ScopeInv /\ PassInv /\ [Load \/ RunScope]_pageVars => PassInv'
  <2> SUFFICES ASSUME ScopeInv, PassInv, [Load \/ RunScope]_pageVars
               PROVE  PassInv'
    OBVIOUS
  <2>1. CASE RunScope
    BY <2>1, NextPassInv DEF RunScope
  <2>2. CASE UNCHANGED scopeVars
    BY <2>2 DEF scopeVars, PassInv, Settled
  <2>3. QED
    BY <2>1, <2>2 DEF Load, pageVars
<1>3. ScopeInv /\ PassInv => DigestSettles
  BY DEF ScopeInv, DigestProgress, Listened, PassInv, Settled, DigestSettles, Scope!Fields
<1>4. QED
  BY <1>1, <1>2, <1>3, StepScopeInv, PTL DEF PagesSpec
--------------------------------------------------------------------------------
(* The load comes to an end. *)

\* The lists of places RequireJS can be given for a library.
PlaceLists == {<<"page">>, <<"webjar">>, <<"webjar", "page">>}

\* The places are tried in the order they were given, none of them twice, and the
\* list stays as it is from the first try on.
TriedInOrder ==
  /\ urls \in [Libs -> PlaceLists]
  /\ \A l \in Libs : tried[l] \in {<<>>, <<urls[l][1]>>, urls[l]}

\* What is left of the other types.
RestTypes ==
  /\ doc \in {"loading", "interactive", "complete"}
  /\ registered \subseteq {"HelloApp", "eventApp", "watchApp"}

LEMMA PlaceListFacts ==
  ASSUME NEW places \in PlaceLists
  PROVE  /\ Len(places) \in 1 .. 2
         /\ places[1] \in Places
         /\ Len(places) = 1 => places = <<places[1]>>
         /\ Len(places) = 2 => Append(<<places[1]>>, places[2]) = places
         /\ Len(<<places[1]>>) = 1 /\ places # <<>> /\ <<places[1]>> # <<>>
         /\ <<places[1]>> \in PlaceLists
BY DEF PlaceLists, Places

LEMMA ConfigIsPlaces == ConfigCallback \in [Libs -> PlaceLists]
BY DEF ConfigCallback, Unconfigured, AngularPaths, MxPaths, Libs, PlaceLists

LEMMA NextTriedInOrder ==
  ASSUME LoadInv, TriedInOrder, Next
  PROVE  TriedInOrder'
<1> USE DEF TriedInOrder
<1>1. CASE UNCHANGED <<urls, tried>>
  BY <1>1
<1>2. CASE MainArrives
  <2>1. page # "hello" /\ \A l \in Libs : tried[l] = <<>>
    BY <1>2 DEF MainArrives, LoadInv, LoadProgress, NothingFetched
  <2>2. QED
    BY <1>2, <2>1, ConfigIsPlaces DEF MainArrives
<1>3. CASE NeedsTimer
  <2>1. urls' = urls /\ \A l \in Libs : tried'[l] \in {<<urls[l][1]>>, tried[l]}
    BY <1>3 DEF NeedsTimer
  <2>2. QED
    BY <2>1
<1>4. ASSUME NEW l \in Libs, Fails(l)
      PROVE  TriedInOrder'
  <2>1. urls' = urls /\ urls[l] \in PlaceLists /\ tried[l] # <<>>
    BY <1>4 DEF Fails, require, LoadInv, Fetched
  <2>2. CASE Len(tried[l]) < Len(urls[l])
    <3>1. tried' = [tried EXCEPT ![l] = Append(@, urls[l][Len(@) + 1])]
      BY <1>4, <2>2 DEF Fails
    <3>2. tried[l] = <<urls[l][1]>>
      BY <2>1, <2>2, PlaceListFacts
    <3>3. Len(tried[l]) = 1 /\ Len(urls[l]) = 2
      <4>1. Len(tried[l]) = 1
        BY <2>1, <3>2, PlaceListFacts
      <4>2. Len(urls[l]) \in 1 .. 2
        BY <2>1, PlaceListFacts
      <4>3. QED
        BY <2>2, <4>1, <4>2
    <3>4. Append(tried[l], urls[l][Len(tried[l]) + 1]) = urls[l]
      BY <2>1, <3>2, <3>3, PlaceListFacts
    <3>5. \A k \in Libs : tried'[k] \in {tried[k], urls[k]}
      BY <3>1, <3>4 DEF LoadInv, LoadTypes
    <3>6. QED
      BY <2>1, <3>5
  <2>3. CASE ~(Len(tried[l]) < Len(urls[l]))
    BY <1>4, <2>1, <2>3 DEF Fails
  <2>4. QED
    BY <2>2, <2>3
<1>5. QED
  BY <1>1, <1>2, <1>3, <1>4
  DEF Next, Parser, Browser, Network, HelloHead, PageHead, RunRequireJs, RequireJsMissing,
      DOMContentLoaded, WindowLoad, ReadyTimer, MainTimer, MainFails, Arrives, require, scripts
LEMMA NextRestTypes ==
  ASSUME LoadInv, RestTypes, Next
  PROVE  RestTypes'
<1> USE DEF RestTypes
<1>1. \A l \in Libs : Arrives(l) => page # "hello" /\ page \in Pages
  BY DEF Arrives, LoadInv, LoadTypes, Fetched
<1>2. page \in Pages /\ page # "hello" =>
        MainJs.registers \subseteq {"HelloApp", "eventApp", "watchApp"}
  BY PagesAssumption DEF MainJs, RequireMain, EventMain, WatchMain, ManualMain, LabelsMain
<1>3. registered' \subseteq {"HelloApp", "eventApp", "watchApp"}
  <2>1. ASSUME NEW l \in Libs, Arrives(l)
        PROVE  registered' \in {registered, registered \cup MainJs.registers}
    BY <2>1 DEF Arrives
  <2>2. ASSUME NEW angular \in BOOLEAN, NEW hello \in BOOLEAN, HelloHead(angular, hello)
        PROVE  registered' \in {{}, {"HelloApp"}}
    BY <2>2 DEF HelloHead
  <2>3. QED
    BY <1>1, <1>2, <2>1, <2>2
    DEF Next, Parser, Browser, Network, PageHead, RunRequireJs, RequireJsMissing,
        DOMContentLoaded, WindowLoad, ReadyTimer, MainTimer, NeedsTimer, MainArrives,
        MainFails, Fails
<1>4. doc' \in {"loading", "interactive", "complete"}
  BY DEF Next, Parser, Browser, Network, HelloHead, PageHead, RunRequireJs, RequireJsMissing,
         DOMContentLoaded, WindowLoad, ReadyTimer, DocumentIs, MainTimer, NeedsTimer,
         MainArrives, MainFails, Arrives, Fails, html
<1>5. QED
  BY <1>3, <1>4

\* What waits for the document and what the start came to, on whatever page.
LEMMA StartedForms ==
  ASSUME BootInv, page \in Pages
  PROVE  /\ ready \in {<<>>, <<"auto">>, <<"manual">>, <<"auto", "manual">>}
         /\ boot \in Ends
BY PagesAssumption
DEF BootInv, AutoStarts, ManualStarts, LabelsStarts, HelloStarts, Started, AutoPages, Ends

LEMMA ReadyFacts ==
  ASSUME ready \in {<<>>, <<"auto">>, <<"manual">>, <<"auto", "manual">>}
  PROVE  /\ Len(ready) \in 0 .. 2
         /\ ready # <<>> => Len(Tail(ready)) = Len(ready) - 1
         /\ \A k \in DOMAIN ready : ready[k] \in {"auto", "manual"}
OBVIOUS

TypesInv == TriedInOrder /\ RestTypes

LEMMA InitTypesInv == Init => TypesInv
BY DEF Init, TypesInv, TriedInOrder, RestTypes, Unconfigured, PlaceLists

LEMMA StepTypesInv ==
  LoadInv /\ TypesInv /\ [Load \/ RunScope]_pageVars => TypesInv'
<1> SUFFICES ASSUME LoadInv, TypesInv, [Load \/ RunScope]_pageVars
             PROVE  TypesInv'
  OBVIOUS
<1>1. CASE Next
  BY <1>1, NextTriedInOrder, NextRestTypes DEF TypesInv
<1>2. CASE UNCHANGED vars
  BY <1>2 DEF vars, html, require, scripts, TypesInv, TriedInOrder, RestTypes
<1>3. QED
  BY <1>1, <1>2 DEF Load, RunScope, pageVars

\* In every reachable state a page is well formed, and RequireJS has tried a front of
\* the places the configuration gives for a library: in their order, none twice
\* (require-config.js, paths).
THEOREM PagesTypeCorrect == PagesSpec => [](TypeOK /\ TriedInOrder)
<1>1. PagesInit => LoadInv /\ BootInv /\ TypesInv
  BY InitLoadInv, InitBootInv, InitTypesInv DEF PagesInit
<1>2. LoadInv /\ BootInv /\ TypesInv => TypeOK /\ TriedInOrder
  <2> SUFFICES ASSUME LoadInv, BootInv, TypesInv
               PROVE  TypeOK
    BY DEF TypesInv
  <2>1. page \in Pages
    BY DEF LoadInv, LoadTypes
  <2>2. \A l \in Libs : tried[l] \in {<<>>} \cup PlaceLists
    BY PlaceListFacts DEF TypesInv, TriedInOrder
  <2>3. \A k \in DOMAIN ready : ready[k] \in {"auto", "manual"}
    BY <2>1, StartedForms, ReadyFacts
  <2>4. \A k \in DOMAIN boot : boot[k] \in {"bound", "nomod", "graph"}
    <3>1. boot \in Ends
      BY <2>1, StartedForms
    <3>2. QED
      BY <3>1 DEF Ends
  <2>5. QED
    BY <2>2, <2>3, <2>4
    DEF TypeOK, LoadInv, LoadTypes, Loaded, TypesInv, TriedInOrder, RestTypes, PlaceLists
<1>3. QED
  BY <1>1, <1>2, NextLoadInv, StepBootInv, StepTypesInv, PTL DEF PagesSpec
(* What the load has left, part by part.  A task counts for more than all those
   it can bring about. *)
ParserLeft == CASE parser = "head" -> 360 [] parser = "body" -> 320 [] OTHER -> 0
TimersLeft == (IF "main" \in timers THEN 200 ELSE 0) + (IF "needs" \in timers THEN 100 ELSE 0)
MainLeft   == IF main = "fetching" THEN 160 ELSE 0
DocLeft    == CASE doc = "loading" -> 2 [] doc = "interactive" -> 1 [] OTHER -> 0

\* A library has two places at most to be tried, and brings two callbacks at most.
LibLeft(l) ==
  CASE lib[l] = "no"       -> 12
    [] lib[l] = "fetching" -> IF Len(tried[l]) = 1 THEN 8 ELSE 4
    [] OTHER               -> 0
LibsLeft == LibLeft("angular") + LibLeft("jquery") + LibLeft("mxgraph-client")

ReadyLeft == Len(ready)

TasksLeft == ParserLeft + TimersLeft + MainLeft + DocLeft + LibsLeft + ReadyLeft

\* Each task of the browser leaves less to do, and what runs in the page adds
\* nothing to it.
LoadCountsDown ==
  [][/\ Next => TasksLeft' < TasksLeft
     /\ TasksLeft' <= TasksLeft]_pageVars

LEMMA LeftBounds ==
  /\ ParserLeft \in 0 .. 360 /\ TimersLeft \in 0 .. 300 /\ MainLeft \in 0 .. 160
  /\ DocLeft \in 0 .. 2
BY DEF ParserLeft, TimersLeft, MainLeft, DocLeft

LEMMA LibLeftBounds == \A l \in Libs : LibLeft(l) \in 0 .. 12 /\ LibLeft(l)' \in 0 .. 12
BY DEF LibLeft

LEMMA LibsLeftBounds == LibsLeft \in 0 .. 36 /\ LibsLeft' \in 0 .. 36
<1>1. "angular" \in Libs /\ "jquery" \in Libs /\ "mxgraph-client" \in Libs
  BY DEF Libs
<1>2. /\ LibLeft("angular") \in 0 .. 12 /\ LibLeft("angular")' \in 0 .. 12
      /\ LibLeft("jquery") \in 0 .. 12 /\ LibLeft("jquery")' \in 0 .. 12
      /\ LibLeft("mxgraph-client") \in 0 .. 12 /\ LibLeft("mxgraph-client")' \in 0 .. 12
  BY <1>1, LibLeftBounds
<1>3. QED
  BY <1>2 DEF LibsLeft

FewReady ==
  /\ ReadyLeft \in 0 .. 2
  /\ ready # <<>> => Len(Tail(ready)) = ReadyLeft - 1

\* When one library gets on, the three together do, by as much at least.
LEMMA OneLibLess ==
  ASSUME NEW l \in Libs, \A k \in Libs \ {l} : LibLeft(k)' = LibLeft(k),
         NEW d \in Nat, LibLeft(l)' + d <= LibLeft(l)
  PROVE  LibsLeft' + d <= LibsLeft
<1>1. /\ LibLeft("angular") \in Nat /\ LibLeft("angular")' \in Nat
      /\ LibLeft("jquery") \in Nat /\ LibLeft("jquery")' \in Nat
      /\ LibLeft("mxgraph-client") \in Nat /\ LibLeft("mxgraph-client")' \in Nat
  BY DEF LibLeft
<1>2. CASE l = "angular"
  <2>1. /\ LibLeft("jquery")' = LibLeft("jquery")
        /\ LibLeft("mxgraph-client")' = LibLeft("mxgraph-client")
        /\ LibLeft("angular")' + d <= LibLeft("angular")
    BY <1>2 DEF Libs
  <2>2. QED
    BY <1>1, <2>1 DEF LibsLeft
<1>3. CASE l = "jquery"
  <2>1. /\ LibLeft("angular")' = LibLeft("angular")
        /\ LibLeft("mxgraph-client")' = LibLeft("mxgraph-client")
        /\ LibLeft("jquery")' + d <= LibLeft("jquery")
    BY <1>3 DEF Libs
  <2>2. QED
    BY <1>1, <2>1 DEF LibsLeft
<1>4. CASE l = "mxgraph-client"
  <2>1. /\ LibLeft("angular")' = LibLeft("angular")
        /\ LibLeft("jquery")' = LibLeft("jquery")
        /\ LibLeft("mxgraph-client")' + d <= LibLeft("mxgraph-client")
    BY <1>4 DEF Libs
  <2>2. QED
    BY <1>1, <2>1 DEF LibsLeft
<1>5. QED
  BY <1>2, <1>3, <1>4 DEF Libs

LEMMA SameLibs == UNCHANGED <<lib, tried>> => LibsLeft' = LibsLeft
BY DEF LibsLeft, LibLeft

LEMMA ParserCountsDown ==
  ASSUME LoadInv, FewReady, FewReady', Parser
  PROVE  TasksLeft' < TasksLeft
<1>1. ReadyLeft \in Nat /\ ReadyLeft' \in Nat /\ ReadyLeft' <= 2
  BY DEF FewReady
<1>2. LibsLeft \in Nat /\ LibsLeft' \in Nat /\ LibsLeft' <= 36
  BY LibsLeftBounds
<1>3. timers = {} /\ main = "no"
  BY DEF Parser, HelloHead, PageHead, RunRequireJs, RequireJsMissing, LoadInv, LoadProgress
<1>4. TimersLeft = 0 /\ MainLeft = 0
  BY <1>3 DEF TimersLeft, MainLeft
<1>5. DocLeft' = DocLeft /\ DocLeft \in Nat
  <2>1. doc' = doc
    BY DEF Parser, HelloHead, PageHead, RunRequireJs, RequireJsMissing
  <2>2. QED
    BY <2>1, LeftBounds DEF DocLeft
<1>6. main' # "fetching" /\ "needs" \notin timers'
  BY <1>3 DEF Parser, HelloHead, PageHead, RunRequireJs, RequireJsMissing, require, scripts
<1>7. MainLeft' = 0 /\ TimersLeft' \in Nat /\ TimersLeft' <= 200
  BY <1>6 DEF MainLeft, TimersLeft
<1>8. CASE RunRequireJs \/ RequireJsMissing
  <2>1. ParserLeft = 320 /\ ParserLeft' = 0
    BY <1>8 DEF RunRequireJs, RequireJsMissing, ParserLeft
  <2>2. TasksLeft = 320 + DocLeft + LibsLeft + ReadyLeft
    BY <1>1, <1>2, <1>4, <1>5, <2>1 DEF TasksLeft
  <2>3. TasksLeft' = TimersLeft' + DocLeft + LibsLeft' + ReadyLeft'
    BY <1>1, <1>2, <1>5, <1>7, <2>1 DEF TasksLeft
  <2>4. PICK a \in Nat : a = TimersLeft' /\ a <= 200
    BY <1>7
  <2>5. PICK l \in Nat : l = LibsLeft' /\ l <= 36
    BY <1>2
  <2>6. PICK r \in Nat : r = ReadyLeft' /\ r <= 2
    BY <1>1
  <2>7. a + DocLeft + l + r < 320 + DocLeft + LibsLeft + ReadyLeft
    <3>1. DocLeft \in Nat /\ LibsLeft \in Nat /\ ReadyLeft \in Nat
      BY <1>1, <1>2, <1>5
    <3>2. a <= 200 /\ l <= 36 /\ r <= 2
      BY <2>4, <2>5, <2>6
    <3>3. QED
      BY <3>1, <3>2
  <2>8. QED
    BY <2>2, <2>3, <2>4, <2>5, <2>6, <2>7
<1>9. CASE ~(RunRequireJs \/ RequireJsMissing)
  <2>1. /\ ParserLeft = 360 /\ ParserLeft' \in Nat /\ ParserLeft' <= 320
        /\ timers' = timers
    BY <1>9 DEF Parser, HelloHead, PageHead, ParserLeft, require
  <2>2. TimersLeft' = 0
    BY <1>3, <2>1 DEF TimersLeft
  <2>3. TasksLeft = 360 + DocLeft + LibsLeft + ReadyLeft
    BY <1>1, <1>2, <1>4, <1>5, <2>1 DEF TasksLeft
  <2>4. TasksLeft' = ParserLeft' + DocLeft + LibsLeft' + ReadyLeft'
    BY <1>1, <1>2, <1>5, <1>7, <2>1, <2>2 DEF TasksLeft
  <2>5. PICK a \in Nat : a = ParserLeft' /\ a <= 320
    BY <2>1
  <2>6. PICK l \in Nat : l = LibsLeft' /\ l <= 36
    BY <1>2
  <2>7. PICK r \in Nat : r = ReadyLeft' /\ r <= 2
    BY <1>1
  <2>8. a + DocLeft + l + r < 360 + DocLeft + LibsLeft + ReadyLeft
    <3>1. DocLeft \in Nat /\ LibsLeft \in Nat /\ ReadyLeft \in Nat
      BY <1>1, <1>2, <1>5
    <3>2. a <= 320 /\ l <= 36 /\ r <= 2
      BY <2>5, <2>6, <2>7
    <3>3. QED
      BY <3>1, <3>2
  <2>9. QED
    BY <2>3, <2>4, <2>5, <2>6, <2>7, <2>8
<1>10. QED
  BY <1>8, <1>9

LEMMA BrowserCountsDown ==
  ASSUME LoadInv, FewReady, FewReady', Browser
  PROVE  TasksLeft' < TasksLeft
<1>1. ReadyLeft \in Nat /\ ReadyLeft' \in Nat /\ ReadyLeft' <= 2
  BY DEF FewReady
<1>2. LibsLeft \in Nat /\ LibsLeft' \in Nat /\ LibsLeft' <= 36
  BY LibsLeftBounds
<1>3. ParserLeft' = ParserLeft /\ ParserLeft \in Nat
  <2>1. parser' = parser
    BY DEF Browser, DOMContentLoaded, WindowLoad, ReadyTimer, MainTimer, NeedsTimer, html
  <2>2. QED
    BY <2>1, LeftBounds DEF ParserLeft
<1>4. CASE DOMContentLoaded \/ WindowLoad \/ ReadyTimer
  <2>1. UNCHANGED <<timers, main, lib, tried>>
    BY <1>4 DEF DOMContentLoaded, WindowLoad, ReadyTimer, require, scripts
  <2>2. TimersLeft' = TimersLeft /\ MainLeft' = MainLeft /\ LibsLeft' = LibsLeft
    BY <2>1, SameLibs DEF TimersLeft, MainLeft
  <2>3. TimersLeft \in Nat /\ MainLeft \in Nat
    BY LeftBounds
  <2>4. CASE DOMContentLoaded \/ WindowLoad
    <3>1. DocLeft \in Nat /\ DocLeft' = DocLeft - 1
      BY <2>4 DEF DOMContentLoaded, WindowLoad, DocumentIs, DocLeft
    <3>2. ReadyLeft' = 0
      BY <2>4 DEF DOMContentLoaded, WindowLoad, DocumentIs, ReadyLeft
    <3>3. QED
      BY <1>1, <1>2, <1>3, <2>2, <2>3, <3>1, <3>2 DEF TasksLeft
  <2>5. CASE ReadyTimer
    <3>1. DocLeft' = DocLeft /\ DocLeft \in Nat
      BY <2>5, LeftBounds DEF ReadyTimer, html, DocLeft
    <3>2. ReadyLeft' = ReadyLeft - 1
      <4>1. Len(Tail(ready)) = ReadyLeft - 1 /\ ready' = Tail(ready)
        BY <2>5 DEF ReadyTimer, FewReady
      <4>2. QED
        BY <4>1 DEF ReadyLeft
    <3>3. QED
      BY <1>1, <1>2, <1>3, <2>2, <2>3, <3>1, <3>2 DEF TasksLeft
  <2>6. QED
    BY <1>4, <2>4, <2>5
<1>5. CASE MainTimer \/ NeedsTimer
  <2>1. ReadyLeft' = ReadyLeft /\ DocLeft' = DocLeft /\ DocLeft \in Nat
    <3>1. doc' = doc /\ ready' = ready
      BY <1>5 DEF MainTimer, NeedsTimer, html
    <3>2. QED
      BY <3>1, LeftBounds DEF DocLeft, ReadyLeft
  <2>2. CASE MainTimer
    <3>1. timers = timers' \cup {"main"} /\ "main" \notin timers' /\ main = "no" /\ main' = "fetching"
      BY <2>2 DEF MainTimer, LoadInv, LoadProgress
    <3>2. TimersLeft' + 200 = TimersLeft /\ TimersLeft' \in Nat
      BY <3>1 DEF TimersLeft
    <3>3. MainLeft = 0 /\ MainLeft' = 160
      BY <3>1 DEF MainLeft
    <3>4. QED
      BY <1>1, <1>2, <1>3, <2>1, <3>2, <3>3 DEF TasksLeft
  <2>3. CASE NeedsTimer
    <3>1. timers = timers' \cup {"needs"} /\ "needs" \notin timers' /\ main' = main
      BY <2>3 DEF NeedsTimer
    <3>2. TimersLeft' + 100 = TimersLeft /\ TimersLeft' \in Nat
      BY <3>1 DEF TimersLeft
    <3>3. MainLeft' = MainLeft /\ MainLeft \in Nat
      BY <3>1, LeftBounds DEF MainLeft
    <3>4. QED
      BY <1>1, <1>2, <1>3, <2>1, <3>2, <3>3 DEF TasksLeft
  <2>4. QED
    BY <1>5, <2>2, <2>3
<1>6. QED
  BY <1>4, <1>5 DEF Browser
\* A library that arrives or fails has less left, by more than it can bring about.
LEMMA RequestEnds ==
  ASSUME LoadInv, TriedInOrder, NEW l \in Libs, Arrives(l) \/ Fails(l)
  PROVE  LibsLeft' + 4 <= LibsLeft
<1>1. lib[l] = "fetching" /\ lib \in [Libs -> Loaded] /\ tried[l] # <<>> /\ urls[l] \in PlaceLists
  BY DEF Arrives, Fails, LoadInv, LoadTypes, Fetched, TriedInOrder
<1>2. LibLeft(l) = IF Len(tried[l]) = 1 THEN 8 ELSE 4
  BY <1>1 DEF LibLeft
<1>3. /\ lib' = [lib EXCEPT ![l] = lib'[l]]
      /\ \A k \in Libs \ {l} : tried'[k] = tried[k]
  BY <1>1 DEF Arrives, Fails, LoadInv, LoadTypes
<1>4. \A k \in Libs \ {l} : LibLeft(k)' = LibLeft(k)
  BY <1>1, <1>3 DEF LibLeft
<1>5. CASE lib'[l] \in {"executed", "failed"}
  <2>1. LibLeft(l)' = 0
    BY <1>5 DEF LibLeft
  <2>2. LibLeft(l)' + 4 <= LibLeft(l)
    BY <1>2, <2>1
  <2>3. QED
    BY <1>4, <2>2, OneLibLess
<1>6. CASE lib'[l] \notin {"executed", "failed"}
  <2>1. /\ Fails(l) /\ Len(tried[l]) < Len(urls[l]) /\ lib' = lib
        /\ tried' = [tried EXCEPT ![l] = Append(@, urls[l][Len(@) + 1])]
    BY <1>1, <1>6 DEF Arrives, Fails
  <2>2. tried[l] = <<urls[l][1]>> /\ Len(tried[l]) = 1
    <3>1. tried[l] \in {<<urls[l][1]>>, urls[l]}
      BY <1>1 DEF TriedInOrder
    <3>2. tried[l] # urls[l]
      BY <1>1, <2>1, PlaceListFacts
    <3>3. QED
      BY <1>1, <3>1, <3>2, PlaceListFacts
  <2>3. Len(urls[l]) = 2
    <3>1. Len(urls[l]) \in 1 .. 2
      BY <1>1, PlaceListFacts
    <3>2. CASE Len(urls[l]) = 1
      <4>1. 1 < 1
        BY <2>1, <2>2, <3>2
      <4>2. QED
        BY <4>1
    <3>3. CASE Len(urls[l]) = 2
      BY <3>3
    <3>4. \A n \in 1 .. 2 : n = 1 \/ n = 2
      OBVIOUS
    <3>5. QED
      BY <3>1, <3>2, <3>3, <3>4
  <2>4. tried'[l] = urls[l]
    <3>1. Append(<<urls[l][1]>>, urls[l][2]) = urls[l]
      BY <1>1, <2>3, PlaceListFacts
    <3>2. tried'[l] = Append(tried[l], urls[l][Len(tried[l]) + 1])
      BY <2>1 DEF LoadInv, LoadTypes
    <3>3. QED
      BY <2>2, <3>1, <3>2
  <2>5. LibLeft(l)' = 4
    BY <1>1, <2>1, <2>3, <2>4 DEF LibLeft
  <2>6. LibLeft(l) = 8
    BY <1>2, <2>2
  <2>7. LibLeft(l)' + 4 <= LibLeft(l)
    BY <2>5, <2>6
  <2>8. QED
    BY <1>4, <2>7, OneLibLess
<1>7. QED
  BY <1>5, <1>6

LEMMA NetworkCountsDown ==
  ASSUME LoadInv, TriedInOrder, FewReady, FewReady', Network
  PROVE  TasksLeft' < TasksLeft
<1>1. /\ ParserLeft' = ParserLeft /\ ParserLeft \in Nat
      /\ DocLeft' = DocLeft /\ DocLeft \in Nat
  <2>1. parser' = parser /\ doc' = doc
    BY DEF Network, MainArrives, MainFails, Arrives, Fails, html
  <2>2. QED
    BY <2>1, LeftBounds DEF ParserLeft, DocLeft
<1>2. /\ ReadyLeft \in Nat /\ ReadyLeft' \in Nat /\ ReadyLeft' <= 2
      /\ LibsLeft \in Nat /\ LibsLeft' \in Nat
  BY LibsLeftBounds DEF FewReady
<1>3. TimersLeft \in Nat /\ MainLeft \in Nat
  BY LeftBounds
<1>4. CASE MainArrives \/ MainFails
  <2>1. MainLeft = 160 /\ MainLeft' = 0
    BY <1>4 DEF MainArrives, MainFails, MainLeft
  <2>2. TimersLeft = 0
    <3>1. timers = {}
      BY <1>4 DEF MainArrives, MainFails, LoadInv, LoadProgress
    <3>2. QED
      BY <3>1 DEF TimersLeft
  <2>3. TimersLeft' \in Nat /\ TimersLeft' <= 100
    <3>1. "main" \notin timers'
      BY <1>4 DEF MainArrives, MainFails, LoadInv, LoadProgress, require
    <3>2. QED
      BY <3>1 DEF TimersLeft
  <2>4. LibsLeft' = LibsLeft /\ ReadyLeft' = ReadyLeft
    BY <1>4, SameLibs DEF MainArrives, MainFails, ReadyLeft
  <2>5. TasksLeft = ParserLeft + 160 + DocLeft + LibsLeft + ReadyLeft
    BY <1>1, <1>2, <2>1, <2>2 DEF TasksLeft
  <2>6. TasksLeft' = ParserLeft + TimersLeft' + DocLeft + LibsLeft + ReadyLeft
    BY <1>1, <1>2, <2>1, <2>3, <2>4 DEF TasksLeft
  <2>7. PICK t \in Nat : t = TimersLeft' /\ t <= 100
    BY <2>3
  <2>8. ParserLeft + t + DocLeft + LibsLeft + ReadyLeft
          < ParserLeft + 160 + DocLeft + LibsLeft + ReadyLeft
    <3>1. /\ ParserLeft \in Nat /\ DocLeft \in Nat /\ LibsLeft \in Nat /\ ReadyLeft \in Nat
          /\ t <= 100
      BY <1>1, <1>2, <2>7
    <3>2. QED
      BY <3>1
  <2>9. QED
    BY <2>5, <2>6, <2>7, <2>8
<1>5. ASSUME NEW l \in Libs, Arrives(l) \/ Fails(l)
      PROVE  TasksLeft' < TasksLeft
  <2>1. LibsLeft' + 4 <= LibsLeft
    BY <1>5, RequestEnds
  <2>2. TimersLeft' = TimersLeft /\ MainLeft' = MainLeft
    BY <1>5 DEF Arrives, Fails, require, TimersLeft, MainLeft
  <2>3. TasksLeft = ParserLeft + TimersLeft + MainLeft + DocLeft + LibsLeft + ReadyLeft
    BY DEF TasksLeft
  <2>4. TasksLeft' = ParserLeft + TimersLeft + MainLeft + DocLeft + LibsLeft' + ReadyLeft'
    BY <1>1, <2>2 DEF TasksLeft
  <2>5. PICK k \in Nat : k = LibsLeft' /\ k + 4 <= LibsLeft
    BY <1>2, <2>1
  <2>6. PICK r \in Nat : r = ReadyLeft' /\ r <= 2
    BY <1>2
  <2>7. ParserLeft + TimersLeft + MainLeft + DocLeft + k + r
          < ParserLeft + TimersLeft + MainLeft + DocLeft + LibsLeft + ReadyLeft
    <3>1. /\ ParserLeft \in Nat /\ TimersLeft \in Nat /\ MainLeft \in Nat /\ DocLeft \in Nat
          /\ LibsLeft \in Nat /\ ReadyLeft \in Nat /\ k + 4 <= LibsLeft /\ r <= 2
      BY <1>1, <1>2, <1>3, <2>5, <2>6
    <3>2. QED
      BY <3>1
  <2>8. QED
    BY <2>3, <2>4, <2>5, <2>6, <2>7
<1>6. QED
  BY <1>4, <1>5 DEF Network

\* The load of a page ends, whatever comes or fails and in whatever order: every
\* task of the browser, a request for a library from one more place included, leaves
\* less to do (require-config.js and the main.js of each page).
THEOREM LoadEnds == PagesSpec => [](TasksLeft \in Nat) /\ LoadCountsDown
<1>1. LoadInv /\ BootInv => FewReady
  <2> SUFFICES ASSUME LoadInv, BootInv
               PROVE  FewReady
    OBVIOUS
  <2>1. ready \in {<<>>, <<"auto">>, <<"manual">>, <<"auto", "manual">>}
    BY StartedForms DEF LoadInv, LoadTypes
  <2>2. QED
    BY <2>1, ReadyFacts DEF FewReady, ReadyLeft
<1>2. FewReady => TasksLeft \in Nat
  <2> SUFFICES ASSUME FewReady
               PROVE  TasksLeft \in Nat
    OBVIOUS
  <2>1. /\ ParserLeft \in Nat /\ TimersLeft \in Nat /\ MainLeft \in Nat /\ DocLeft \in Nat
        /\ LibsLeft \in Nat /\ ReadyLeft \in Nat
    BY LeftBounds, LibsLeftBounds DEF FewReady
  <2>2. QED
    BY <2>1 DEF TasksLeft
<1>3. LoadInv /\ TypesInv /\ FewReady /\ FewReady' /\ TasksLeft \in Nat /\ (TasksLeft \in Nat)'
      /\ [Load \/ RunScope]_pageVars
        => [/\ Next => TasksLeft' < TasksLeft
            /\ TasksLeft' <= TasksLeft]_pageVars
  <2> SUFFICES ASSUME LoadInv, TypesInv, FewReady, FewReady', TasksLeft \in Nat, (TasksLeft \in Nat)',
                      Load \/ RunScope
               PROVE  /\ Next => TasksLeft' < TasksLeft
                      /\ TasksLeft' <= TasksLeft
    OBVIOUS
  <2>1. Next => TasksLeft' < TasksLeft
    BY ParserCountsDown, BrowserCountsDown, NetworkCountsDown DEF Next, TypesInv
  <2>2. UNCHANGED vars => TasksLeft' = TasksLeft
    BY SameLibs
    DEF vars, html, require, scripts, TasksLeft, ParserLeft, TimersLeft, MainLeft, DocLeft,
        ReadyLeft
  <2>3. QED
    BY <2>1, <2>2 DEF Load, RunScope
<1>4. PagesInit => LoadInv /\ BootInv /\ TypesInv
  BY InitLoadInv, InitBootInv, InitTypesInv DEF PagesInit
<1>5. QED
  BY <1>1, <1>2, <1>3, <1>4, NextLoadInv, StepBootInv, StepTypesInv, PTL
  DEF PagesSpec, LoadCountsDown

--------------------------------------------------------------------------------
(* The pages with the graph of the labels page. *)

\* Whatever still loads, the graph is built and used as GraphLabels says, and
\* drawing it keeps nothing from the page (labels/main.js:1, the callback): what
\* holds of the pages alone and of the graph alone holds of both together.
THEOREM AppsArePagesAndGraph == AppsSpec => PagesSpec /\ GraphSpec
<1>1. AppsInit => PagesInit /\ GraphInit
  BY DEF AppsInit
<1>2. [AppsNext]_appVars => [Load \/ RunScope]_pageVars /\ [GraphNext]_graphVars
  <2> SUFFICES ASSUME [AppsNext]_appVars
               PROVE  [Load \/ RunScope]_pageVars /\ [GraphNext]_graphVars
    OBVIOUS
  <2>1. CASE LoadPage
    BY <2>1 DEF LoadPage
  <2>2. CASE DrawGraph
    BY <2>2 DEF DrawGraph, GraphNext
  <2>3. CASE UseGraph
    BY <2>3 DEF UseGraph, GraphNext
  <2>4. CASE UNCHANGED appVars
    BY <2>4 DEF appVars
  <2>5. QED
    BY <2>1, <2>2, <2>3, <2>4 DEF AppsNext
<1>3. QED
  BY <1>1, <1>2, PTL DEF AppsSpec, PagesSpec, GraphSpec
================================================================================
