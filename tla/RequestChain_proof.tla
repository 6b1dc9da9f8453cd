-------------------------- MODULE RequestChain_proof --------------------------
(***************************************************************************)
(* The safety properties of RequestChain for any number of requests, roles *)
(* and sites: no handler sees a request that the rule of its url does not  *)
(* let in, and an index page is not lost behind what a build has written.  *)
(* Both rest on one fact about each request: what the guard has found on   *)
(* this pass, and how far down the chain the request can be.               *)
(*                                                                         *)
(* The second part is about the file under data/ that such a request may   *)
(* end in following, the module FileFollow.                                *)
(***************************************************************************)
EXTENDS RequestChain, FollowedFile, SequenceTheorems, TLAPS

-----------------------------------------------------------------------------
(* The chain of handlers.                                                  *)

\* The chain has fourteen places, and every handler is one of them.
LEMMA OrderOfHandlers ==
    /\ Len(Order) = 14
    /\ \A i \in 1..14 : Order[i] \in Handlers
    /\ Order[14] = "notFound"
  BY DEF Order, Handlers

\* The next handler exists, because fileNotFound takes everything, and it is
\* no further than any other that has something for the path.
LEMMA NextHandler ==
    ASSUME NEW from \in 1..14, NEW path \in Paths
    PROVE  /\ FirstHit(from, path) \in from..14
           /\ Hits(Order[FirstHit(from, path)], path)
           /\ \A k \in from..14 : Hits(Order[k], path) => FirstHit(from, path) <= k
  <1> DEFINE hit(i) == Hits(Order[i], path)
             first(i) == hit(i) /\ \A j \in from..(i - 1) : ~hit(j)
             none(i) == \A j \in from..i : ~hit(j)
             seen(i) == \E k \in from..i : first(k)
  <1>1. \A i \in (from - 1)..13 : none(i) => none(i + 1) \/ seen(i + 1)
    <2> SUFFICES ASSUME NEW i \in (from - 1)..13, none(i) PROVE none(i + 1) \/ seen(i + 1)
      OBVIOUS
    <2> HIDE DEF hit
    <2>1. CASE hit(i + 1)
      BY <2>1
    <2>2. CASE ~hit(i + 1)
      BY <2>2
    <2> QED
      BY <2>1, <2>2
  <1>2. \A i \in (from - 1)..13 : seen(i) => seen(i + 1)
    OBVIOUS
  <1>3. none(from - 1)
    OBVIOUS
  <1>4. none(14) \/ seen(14)
    <2> DEFINE both(i) == none(i) \/ seen(i)
    <2>1. \A i \in (from - 1)..13 : both(i) => both(i + 1)
      BY <1>1, <1>2
    <2>2. both(from - 1)
      BY <1>3
    <2> HIDE DEF both
    <2>3. from - 1 \in 0..13
      OBVIOUS
    <2>4. both(14)
      BY <2>1, <2>2, <2>3
    <2> QED
      BY <2>4 DEF both
  <1>5. hit(14)
    BY OrderOfHandlers DEF Hits
  <1>6. \E k \in from..14 : first(k)
    <2> HIDE DEF hit
    <2> QED
      BY <1>4, <1>5
  <1>7. FirstHit(from, path) \in from..14 /\ first(FirstHit(from, path))
    BY <1>6, OrderOfHandlers DEF FirstHit
  <1> HIDE DEF hit
  <1> QED
    BY <1>7 DEF hit

-----------------------------------------------------------------------------
(* The inductive invariant.                                                *)

Requests ==
    [url : Paths, path : Paths,
     wait : {"turn", "session", "form", "proxy", "upgrade", "controller", "stream",
             "sidecar", "gzip", "read", "build", "forever", "over"},
     by : Handlers \cup {"exploit", "guard"},
     who : Roles \cup {"nobody", "member"},
     answer : Handlers \cup {"none", "exploit", "guard", "renderError", "closed"}]

HasIndexPage == {<<"hbs", "page">>, <<"hbs", "index">>} \subseteq site.files

\* The guard and what comes before an index page is given up.
NoFurther == {"exploit", "guard", "controller", "dist", "scss", "ts", "hbs"}

\* What is known of a request wherever it is.
Sound(r) ==
    /\ r.by \in Handlers => Permitted(r)
    /\ r.wait \in {"session", "form", "proxy", "upgrade"} => r.by = "guard"
    /\ r.wait = "session" => site.guard = "role"
    /\ r.wait = "build" => r.by = "ts"
    /\ HasIndexPage /\ r.url = "page" =>
          r.path \in {"page", "index"} /\ r.by \in NoFurther /\ r.answer # "notFound"

Inv == TypeOK /\ \A c \in Conns : Sound(req[c])

\* A step that replaces one request by a sound one keeps all of them sound.
LEMMA OneRequest ==
    ASSUME Inv, NEW c \in Conns, NEW r \in Requests, Sound(r),
           Set(c, r), UNCHANGED site, dist' \subseteq Paths
    PROVE  Inv'
  <1>1. TypeOK'
    BY DEF Inv, TypeOK, Set, Requests
  <1>2. \A d \in Conns : req'[d] = IF d = c THEN r ELSE req[d]
    BY DEF Inv, TypeOK, Set
  <1>3. \A d \in Conns : Sound(req[d])'
    <2> SUFFICES ASSUME NEW d \in Conns PROVE Sound(req[d])'
      OBVIOUS
    <2>1. Sound(req'[d])
      BY <1>2 DEF Inv
    <2>2. Permitted(req'[d]) => Permitted(req[d])'
      BY DEF Permitted, RuleOf
    <2> QED
      BY <2>1, <2>2 DEF Sound, HasIndexPage
  <1> QED
    BY <1>1, <1>3 DEF Inv

\* A request that sets out, for the url itself or an index.html under it.
LEMMA FreshIsSound ==
    ASSUME NEW url \in Paths, NEW path \in {url, "index"}
    PROVE  /\ [Fresh(url) EXCEPT !.path = path] \in Requests
           /\ Sound([Fresh(url) EXCEPT !.path = path])
  BY OrderOfHandlers DEF Fresh, Requests, Sound, Paths, NoFurther, Handlers, Order

\* A connection without a request.
LEMMA ClosedIsSound == Closed \in Requests /\ Sound(Closed)
  <1>1. Fresh("page") \in Requests /\ Fresh("page").path = "page" /\ Fresh("page").by = "exploit"
    BY DEF Fresh, Requests, Paths
  <1>2. /\ Closed \in Requests
        /\ Closed.path = "page" /\ Closed.by = "exploit"
        /\ Closed.wait = "over" /\ Closed.answer = "closed"
    BY <1>1 DEF Closed, Requests
  <1>3. "exploit" \notin Handlers
    BY DEF Handlers, Order
  <1> QED
    BY <1>2, <1>3 DEF Sound, NoFurther

\* Handing a permitted request on keeps it sound: an index page is found when
\* the chain is taken up no later than after tryTypescript.
LEMMA HandOnIsSound ==
    ASSUME Inv, NEW c \in Conns, NEW r \in Requests, Permitted(r),
           NEW from \in 1..14,
           HasIndexPage /\ r.url = "page" =>
              r.path \in {"page", "index"} /\ r.answer # "notFound" /\ from <= 5,
           HandOn(c, r, from), UNCHANGED site, dist' \subseteq Paths
    PROVE  Inv'
  <1> DEFINE i == FirstHit(from, r.path)
             s == [r EXCEPT !.wait = "turn", !.by = Order[i]]
  <1>1. r.path \in Paths /\ from \in 1..14
    BY DEF Requests
  <1>2. i \in from..14 /\ \A k \in from..14 : Hits(Order[k], r.path) => i <= k
    BY <1>1, NextHandler
  <1>3. Order[i] \in Handlers
    BY <1>2, OrderOfHandlers
  <1>4. ASSUME HasIndexPage, r.path \in {"page", "index"}, from <= 5
        PROVE  Order[i] \in NoFurther
    <2>1. Hits(Order[5], r.path)
      BY <1>4 DEF Hits, HasIndexPage, Order
    <2>2. i \in 1..5
      BY <1>2, <1>4, <2>1
    <2> HIDE DEF i
    <2> QED
      BY <2>2 DEF Order, NoFurther
  <1> HIDE DEF i
  <1>5. s \in Requests
    BY <1>3 DEF Requests
  <1>6. Permitted(s)
    BY DEF Permitted, Requests
  <1>7. Sound(s)
    BY <1>4, <1>6, <1>3 DEF Sound, Requests
  <1> HIDE DEF s
  <1>8. Set(c, s)
    BY DEF HandOn, s, i
  <1> QED
    BY <1>5, <1>7, <1>8, OneRequest

\* An answer keeps a request sound; only fileNotFound answers 404.
LEMMA AnswerIsSound ==
    ASSUME Inv, NEW c \in Conns, UNCHANGED site, dist' \subseteq Paths,
           NEW by \in Handlers \cup {"exploit", "guard", "renderError", "closed"},
           by = "notFound" => req[c].by = "notFound",
           Answer(c, by)
    PROVE  Inv'
  <1> DEFINE r == [req[c] EXCEPT !.wait = "over", !.answer = by]
  <1>1. req[c] \in Requests /\ Sound(req[c])
    BY DEF Inv, TypeOK, Requests
  <1>2. r \in Requests
    BY <1>1 DEF Requests
  <1>3. Permitted(req[c]) => Permitted(r)
    BY <1>1 DEF Permitted, Requests
  <1>4. Sound(r)
    BY <1>1, <1>3 DEF Sound, Requests, NoFurther
  <1> HIDE DEF r
  <1> QED
    BY <1>2, <1>4, OneRequest DEF r, Answer

\* So does waiting, in the handler that the request is in.
LEMMA WaitIsSound ==
    ASSUME Inv, NEW c \in Conns, UNCHANGED site, dist' \subseteq Paths,
           NEW what \in {"session", "form", "proxy", "upgrade", "controller", "stream",
                         "sidecar", "gzip", "read", "build", "forever"},
           what \in {"session", "form", "proxy", "upgrade"} => req[c].by = "guard",
           what = "session" => site.guard = "role",
           what = "build" => req[c].by = "ts",
           Wait(c, what)
    PROVE  Inv'
  <1> DEFINE r == [req[c] EXCEPT !.wait = what]
  <1>1. req[c] \in Requests /\ Sound(req[c])
    BY DEF Inv, TypeOK, Requests
  <1>2. r \in Requests
    BY <1>1 DEF Requests
  <1>3. Permitted(req[c]) => Permitted(r)
    BY <1>1 DEF Permitted, Requests
  <1>4. Sound(r)
    BY <1>1, <1>3 DEF Sound, Requests
  <1> HIDE DEF r
  <1> QED
    BY <1>2, <1>4, OneRequest DEF r, Wait

\* The guard lets in whom the rule permits, if it has one.
LEMMA AdmitIsSound ==
    ASSUME Inv, NEW c \in Conns, NEW who \in Roles \cup {"nobody", "member"},
           \/ site.guard = "none" \/ Rule(c) = NoRule
           \/ site.guard = "role" /\ who \in Roles /\ MayRead(Rule(c), who)
           \/ site.guard = "basic" /\ ~Rule(c).proxy /\ (Rule(c).password => who = "member"),
           Admit(c, who), UNCHANGED <<site, dist>>
    PROVE  Inv'
  <1> DEFINE r == [req[c] EXCEPT !.who = who]
  <1>1. req[c] \in Requests /\ Sound(req[c]) /\ dist' \subseteq Paths
    BY DEF Inv, TypeOK, Requests
  <1>2. r \in Requests
    BY <1>1 DEF Requests
  <1>3. r.url = req[c].url /\ r.who = who /\ r.path = req[c].path /\ r.answer = req[c].answer
    BY <1>1 DEF Requests
  <1>4. Permitted(r)
    BY <1>3 DEF Permitted, Rule, GuardedPath
  <1>5. HasIndexPage /\ r.url = "page" => r.path \in {"page", "index"} /\ r.answer # "notFound"
    BY <1>1, <1>3 DEF Sound
  <1>6. HandOn(c, r, 1)
    BY DEF Admit
  <1> HIDE DEF r
  <1> QED
    BY <1>1, <1>2, <1>4, <1>5, <1>6, HandOnIsSound

\* BasicRouteGuard hands a request to the proxy of its rule or lets it in.
LEMMA ThroughIsSound ==
    ASSUME Inv, NEW c \in Conns, NEW who \in {"nobody", "member"},
           site.guard = "basic", Turn(c, "guard"),
           Rule(c).password => who = "member",
           Through(c, who), UNCHANGED <<site, dist>>
    PROVE  Inv'
  <1>1. CASE Rule(c).proxy
    BY <1>1, WaitIsSound DEF Through, Turn, Inv, TypeOK
  <1>2. CASE ~Rule(c).proxy
    BY <1>2, AdmitIsSound DEF Through
  <1> QED
    BY <1>1, <1>2

-----------------------------------------------------------------------------
(* The steps.                                                              *)

\* The guards.
LEMMA GuardSteps ==
    ASSUME Inv, NEW c \in Conns,
           \/ CheckPathExploit(c) \/ Unguarded(c) \/ AskRole(c)
           \/ \E role \in Roles : RoleFound(c, role)
           \/ LoginPageFails(c) \/ BasicAdmits(c) \/ BasicAnswers(c) \/ BasicForm(c)
           \/ FormParsed(c) \/ ProxyAnswers(c) \/ UpgradeAnswers(c)
    PROVE  Inv'
  <1>1. dist \subseteq Paths /\ req[c] \in Requests /\ Sound(req[c])
    BY DEF Inv, TypeOK, Requests
  <1>2. CASE CheckPathExploit(c)
    <2>1. CASE Answer(c, "exploit")
      BY <1>1, <1>2, <2>1, AnswerIsSound DEF CheckPathExploit
    <2>2. CASE Set(c, [req[c] EXCEPT !.by = "guard"])
      <3> DEFINE r == [req[c] EXCEPT !.by = "guard"]
      <3>1. r \in Requests
        BY <1>1 DEF Requests
      <3>2. Sound(r)
        BY <1>1, <1>2
        DEF Sound, Requests, Handlers, Order, NoFurther, Turn, CheckPathExploit
      <3> HIDE DEF r
      <3> QED
        BY <1>1, <1>2, <2>2, <3>1, <3>2, OneRequest DEF r, CheckPathExploit
    <2> QED
      BY <1>2, <2>1, <2>2 DEF CheckPathExploit
  <1>3. CASE Unguarded(c)
    BY <1>3, AdmitIsSound DEF Unguarded
  <1>4. CASE AskRole(c)
    BY <1>1, <1>4, WaitIsSound DEF AskRole, Turn
  <1>5. ASSUME NEW role \in Roles, RoleFound(c, role) PROVE Inv'
    <2>1. site.guard = "role"
      BY <1>1, <1>5 DEF RoleFound, Sound
    <2>2. CASE MayRead(Rule(c), role)
      BY <1>5, <2>1, <2>2, AdmitIsSound DEF RoleFound
    <2>3. CASE ~MayRead(Rule(c), role)
      BY <1>1, <1>5, <2>3, AnswerIsSound DEF RoleFound
    <2> QED
      BY <2>2, <2>3
  <1>6. CASE LoginPageFails(c)
    BY <1>1, <1>6, WaitIsSound DEF LoginPageFails
  <1>7. CASE BasicAdmits(c)
    <2> DEFINE who == IF Rule(c).password THEN "member" ELSE "nobody"
    <2>1. who \in {"nobody", "member"} /\ (Rule(c).password => who = "member")
      OBVIOUS
    <2> HIDE DEF who
    <2> QED
      BY <1>7, <2>1, ThroughIsSound DEF BasicAdmits, who
  <1>8. CASE BasicAnswers(c)
    BY <1>1, <1>8, AnswerIsSound DEF BasicAnswers
  <1>9. CASE BasicForm(c)
    BY <1>1, <1>9, WaitIsSound DEF BasicForm, Turn
  <1>10. CASE FormParsed(c)
    BY <1>1, <1>10, AnswerIsSound, WaitIsSound DEF FormParsed
  <1>11. CASE ProxyAnswers(c)
    BY <1>1, <1>11, AnswerIsSound, WaitIsSound DEF ProxyAnswers
  <1>12. CASE UpgradeAnswers(c)
    BY <1>1, <1>12, AnswerIsSound, WaitIsSound DEF UpgradeAnswers
  <1> QED
    BY <1>2, <1>3, <1>4, <1>5, <1>6, <1>7, <1>8, <1>9, <1>10, <1>11, <1>12

\* The handlers that answer for good, or wait for a callback.
LEMMA HandlerSteps ==
    ASSUME Inv, NEW c \in Conns,
           \/ TryController(c) \/ Throws(c) \/ StaticFile(c) \/ TryPdf(c)
           \/ CallbackAnswers(c) \/ NobodyListens(c) \/ TryScss(c) \/ TryTypescript(c)
           \/ TryHandlebars(c) \/ ShowFolderIndex(c) \/ TryMarkdown(c) \/ TryCsv(c)
           \/ CsvRenderFails(c) \/ FileNotFound(c)
    PROVE  Inv'
  <1>1. dist \subseteq Paths /\ req[c] \in Requests
    BY DEF Inv, TypeOK, Requests
  <1>2. {"scss", "ts", "hbs", "folder", "notFound", "pdf"} \subseteq Handlers
    BY DEF Handlers, Order
  <1>3. req[c].by \in Handlers \cup {"exploit", "guard"} /\ req[c].path \in Paths
    BY <1>1 DEF Requests
  <1>4. "page" \in Paths
    BY DEF Paths
  <1>5. CASE TryController(c)
    BY <1>1, <1>5, WaitIsSound DEF TryController
  <1>6. CASE Throws(c)
    BY <1>1, <1>6, AnswerIsSound, WaitIsSound DEF Throws
  <1>7. CASE StaticFile(c)
    BY <1>1, <1>3, <1>7, AnswerIsSound, WaitIsSound DEF StaticFile, StreamStaticFile
  <1>8. CASE TryPdf(c)
    BY <1>1, <1>3, <1>8, AnswerIsSound, WaitIsSound DEF TryPdf, StreamStaticFile
  <1>9. CASE CallbackAnswers(c)
    BY <1>1, <1>3, <1>9, AnswerIsSound DEF CallbackAnswers
  <1>10. CASE TryScss(c)
    <2>1. dist' \subseteq Paths
      BY <1>1, <1>3, <1>4, <1>10 DEF TryScss
    <2> QED
      BY <1>2, <1>10, <2>1, AnswerIsSound, WaitIsSound DEF TryScss
  <1>11. CASE TryTypescript(c)
    <2>1. dist' \subseteq Paths
      BY <1>1, <1>4, <1>11 DEF TryTypescript
    <2> QED
      BY <1>11, <2>1, WaitIsSound DEF TryTypescript, Turn
  <1>12. CASE TryHandlebars(c)
    BY <1>1, <1>2, <1>12, AnswerIsSound DEF TryHandlebars, ServeHandlebarsTemplate
  <1>13. CASE ShowFolderIndex(c)
    BY <1>1, <1>2, <1>13, AnswerIsSound DEF ShowFolderIndex
  <1>14. CASE TryMarkdown(c)
    BY <1>1, <1>14, WaitIsSound DEF TryMarkdown
  <1>15. CASE TryCsv(c)
    BY <1>1, <1>15, WaitIsSound DEF TryCsv
  <1>16. CASE CsvRenderFails(c)
    BY <1>1, <1>16, WaitIsSound DEF CsvRenderFails
  <1>17. CASE FileNotFound(c)
    BY <1>1, <1>2, <1>17, AnswerIsSound DEF FileNotFound, Turn
  <1>18. CASE NobodyListens(c)
    BY <1>1, <1>18, WaitIsSound DEF NobodyListens
  <1> QED
    BY <1>5, <1>6, <1>7, <1>8, <1>9, <1>10, <1>11, <1>12, <1>13, <1>14, <1>15, <1>16, <1>17,
       <1>18

\* A directory starts the chain again; a build that fails, and a .gz that the
\* client does not take, go on with it.
LEMMA AgainSteps ==
    ASSUME Inv, NEW c \in Conns, StaticDirectory(c) \/ StaticSidecar(c) \/ BuildEnds(c)
    PROVE  Inv'
  <1>1. dist \subseteq Paths /\ req[c] \in Requests /\ Sound(req[c])
    BY DEF Inv, TypeOK, Requests
  <1>2. req[c].url \in Paths /\ req[c].path \in Paths
    BY <1>1 DEF Requests
  <1>3. CASE StaticDirectory(c)
    BY <1>1, <1>2, <1>3, FreshIsSound, OneRequest DEF StaticDirectory
  <1>4. CASE BuildEnds(c)
    <2>1. CASE Answer(c, "ts") /\ dist' = dist \cup {req[c].path}
      <3>1. "ts" \in Handlers
        BY DEF Handlers, Order
      <3> QED
        BY <1>1, <1>2, <1>4, <2>1, <3>1, AnswerIsSound DEF BuildEnds
    <2>2. CASE HandOn(c, req[c], After("ts")) /\ UNCHANGED dist
      <3>1. After("ts") = 5
        BY DEF After, Order
      <3>2. req[c].by = "ts" /\ "ts" \in Handlers
        BY <1>1, <1>4 DEF BuildEnds, Sound, Handlers, Order
      <3>3. Permitted(req[c])
        BY <1>1, <3>2 DEF Sound
      <3>4. HasIndexPage /\ req[c].url = "page"
              => req[c].path \in {"page", "index"} /\ req[c].answer # "notFound"
        BY <1>1 DEF Sound
      <3> QED
        BY <1>1, <1>4, <2>2, <3>1, <3>3, <3>4, HandOnIsSound DEF BuildEnds
    <2> QED
      BY <1>4, <2>1, <2>2 DEF BuildEnds
  <1>5. CASE StaticSidecar(c)
    <2>1. CASE Wait(c, "sidecar")
      BY <1>1, <1>5, <2>1, WaitIsSound DEF StaticSidecar
    <2>2. CASE HandOn(c, req[c], After(req[c].by))
      <3>1. req[c].by \in Static
        BY <1>5 DEF StaticSidecar, Turn
      <3>2. After(req[c].by) \in 1..14 /\ (req[c].by = "dist" => After(req[c].by) = 3)
        BY <3>1 DEF Static, After, Order
      <3>3. Permitted(req[c])
        BY <1>1, <3>1 DEF Sound, Static, Handlers, Order
      <3>4. HasIndexPage /\ req[c].url = "page"
              => /\ req[c].path \in {"page", "index"} /\ req[c].answer # "notFound"
                 /\ After(req[c].by) <= 5
        BY <1>1, <3>1, <3>2 DEF Sound, Static, NoFurther
      <3> QED
        BY <1>1, <1>5, <2>2, <3>2, <3>3, <3>4, HandOnIsSound DEF StaticSidecar
    <2> QED
      BY <1>5, <2>1, <2>2 DEF StaticSidecar
  <1> QED
    BY <1>3, <1>4, <1>5

\* Clients come and go.
LEMMA ClientSteps ==
    ASSUME Inv, NEW c \in Conns, Leave(c) \/ \E url \in Paths : Arrive(c, url)
    PROVE  Inv'
  <1>1. dist \subseteq Paths
    BY DEF Inv, TypeOK
  <1>2. CASE Leave(c)
    <2> QED
      BY <1>1, <1>2, ClosedIsSound, OneRequest DEF Leave
  <1>3. ASSUME NEW url \in Paths, Arrive(c, url) PROVE Inv'
    <2>1. [Fresh(url) EXCEPT !.path = url] = Fresh(url)
      BY DEF Fresh
    <2>2. Fresh(url) \in Requests /\ Sound(Fresh(url))
      BY <2>1, FreshIsSound
    <2> QED
      BY <1>1, <1>3, <2>2, OneRequest DEF Arrive
  <1> QED
    BY <1>2, <1>3

-----------------------------------------------------------------------------

\* Inv is inductive.
THEOREM InvHolds == Spec => []Inv
  <1>1. Init => Inv
    BY ClosedIsSound DEF Init, Inv, TypeOK, Requests
  <1>2. Inv /\ [Next]_vars => Inv'
    <2> SUFFICES ASSUME Inv, [Next]_vars PROVE Inv'
      OBVIOUS
    <2>1. CASE UNCHANGED vars
      <3>1. TypeOK' /\ UNCHANGED site
        BY <2>1 DEF vars, Inv, TypeOK
      <3>2. ASSUME NEW c \in Conns PROVE Sound(req[c])'
        <4>1. Permitted(req[c]) => Permitted(req[c])'
          BY <2>1 DEF vars, Permitted, RuleOf
        <4>2. Sound(req[c])
          BY DEF Inv
        <4> QED
          BY <2>1, <4>1, <4>2 DEF vars, Sound, HasIndexPage
      <3> QED
        BY <3>1, <3>2 DEF Inv
    <2>2. ASSUME NEW c \in Conns, System(c) \/ Leave(c) \/ \E url \in Paths : Arrive(c, url)
          PROVE  Inv'
      BY <2>2, GuardSteps, HandlerSteps, AgainSteps, ClientSteps DEF System
    <2> QED
      BY <2>1, <2>2 DEF Next
  <1> QED
    BY <1>1, <1>2, PTL DEF Spec

\* Every variable keeps its type (request-handler.ts, route-guard.ts).
THEOREM TypeCorrect == Spec => []TypeOK
  BY InvHolds, PTL DEF Inv

\* For every set of sites, whatever handlers, rules and directories they
\* have: no handler sees a request that the rule of the url asked for does
\* not let in (RoleRouteGuard.handleRequest, BasicRouteGuard.handleRequest).
THEOREM OnlyPermittedAreHandled == Spec => []HandledOnlyAsPermitted
  <1>1. Inv => HandledOnlyAsPermitted
    BY DEF Inv, Sound, HandledOnlyAsPermitted
  <1> QED
    BY <1>1, InvHolds, PTL

\* For every set of sites: an index page is not answered 404, whatever
\* builds have written to dist/ (tryDist, tryHandlebars, tryTypescript).
THEOREM IndexPagesAreFound == Spec => []IndexPagesStay
  <1>1. Inv => IndexPagesStay
    BY DEF Inv, Sound, IndexPagesStay, HasIndexPage
  <1> QED
    BY <1>1, InvHolds, PTL

-----------------------------------------------------------------------------
(***************************************************************************)
(* What followDataFile sends, for a file of any length that is cut any     *)
(* number of times and for any initialBytes.  A byte is named by the cut   *)
(* it follows and its place; the invariant relates what was sent to the    *)
(* file of this moment: it is of earlier cuts, or up to position.          *)
(*                                                                         *)
(* FileFollow is an instance here, so what it assumes of its constants is  *)
(* a hypothesis of the theorems.                                           *)
(***************************************************************************)
CONSTANTS Initial, MaxSize, MaxCuts

VARIABLES there, pc, size

Follow == INSTANCE FileFollow

Bytes == {<<k, i>> : k \in 0..MaxCuts, i \in 1..MaxSize}

\* Every byte is in its place.
InPlace == \A i \in 1..Len(file) : file[i] = <<cuts, i>>

\* As long as nothing was cut, the client has what is between start and
\* position.
Exact ==
    cuts = 0 =>
        /\ start <= position /\ position <= Len(file)
        /\ pc = "read" => size <= Len(file)
        /\ sent = SubSeq(file, start + 1, position)

Clean == \A i \in 1..Len(sent) : sent[i] # NUL

\* What was sent is of a file that was cut since, or before the position.
Past(b) == b[1] < cuts \/ (b[1] = cuts /\ b[2] <= position /\ position <= Len(file))

FollowInv ==
    /\ Follow!FileFollowAssumption
    /\ Follow!TypeOK /\ InPlace /\ Exact
    /\ pc = "read" => position <= size
    /\ pc \in {"list", "open"} => sent = <<>>
    /\ Clean => \A i \in 1..Len(sent) : Past(sent[i])
    /\ NeverBackwards

LEMMA NulIsNul == Follow!NUL = NUL
  BY DEF Follow!NUL, NUL

LEMMA Typed ==
    ASSUME Follow!FileFollowAssumption, Follow!TypeOK
    PROVE  /\ file \in Seq(Bytes) /\ Len(file) \in 0..MaxSize /\ cuts \in 0..MaxCuts
           /\ size \in 0..MaxSize /\ position \in 0..MaxSize /\ start \in 0..MaxSize
           /\ sent \in Seq({NUL} \cup Bytes)
           /\ Len(file) \in Nat /\ cuts \in Nat /\ size \in Nat /\ position \in Nat
           /\ start \in Nat /\ Len(sent) \in Nat
           /\ MaxSize \in Nat /\ MaxCuts \in Nat /\ Initial \in Nat
  <1>1. MaxSize \in Nat /\ MaxCuts \in Nat /\ Initial \in Nat
    BY Follow!FileFollowAssumption
  <1>2. /\ file \in Seq(Bytes) /\ Len(file) <= MaxSize /\ cuts \in 0..MaxCuts
        /\ size \in 0..MaxSize /\ position \in 0..MaxSize /\ start \in 0..MaxSize
        /\ sent \in Seq({NUL} \cup Bytes)
    BY NulIsNul DEF Follow!TypeOK, Bytes
  <1>3. Len(file) \in Nat /\ Len(sent) \in Nat
    BY <1>2, LenProperties
  <1> QED
    BY <1>1, <1>2, <1>3

\* Sequences that agree from one place to another have the same part there.
LEMMA SameSubSeq ==
    ASSUME NEW S, NEW s, NEW t, NEW m \in Int, NEW n \in Int,
           \A i \in m..n : s[i] \in S /\ t[i] = s[i]
    PROVE  SubSeq(s, m, n) = SubSeq(t, m, n)
  <1>1. /\ SubSeq(s, m, n) \in Seq(S)
        /\ Len(SubSeq(s, m, n)) = IF m <= n THEN n - m + 1 ELSE 0
        /\ \A i \in 1..(n - m + 1) : SubSeq(s, m, n)[i] = s[m + i - 1]
    BY SubSeqProperties
  <1>2. /\ SubSeq(t, m, n) \in Seq(S)
        /\ Len(SubSeq(t, m, n)) = IF m <= n THEN n - m + 1 ELSE 0
        /\ \A i \in 1..(n - m + 1) : SubSeq(t, m, n)[i] = t[m + i - 1]
    <2>1. \A i \in m..n : t[i] \in S
      OBVIOUS
    <2> QED
      BY <2>1, SubSeqProperties
  <1>3. \A i \in 1..Len(SubSeq(s, m, n)) : SubSeq(s, m, n)[i] = SubSeq(t, m, n)[i]
    <2> SUFFICES ASSUME NEW i \in 1..Len(SubSeq(s, m, n))
                 PROVE  SubSeq(s, m, n)[i] = SubSeq(t, m, n)[i]
      OBVIOUS
    <2>1. i \in 1..(n - m + 1) /\ m + i - 1 \in m..n
      BY <1>1
    <2> QED
      BY <1>1, <1>2, <2>1
  <1> QED
    BY <1>1, <1>2, <1>3, SeqEqual

-----------------------------------------------------------------------------
(* The other process.                                                      *)

LEMMA AppendStep ==
    ASSUME FollowInv, Follow!AppendByte
    PROVE  FollowInv'
  <1>0. UNCHANGED <<there, cuts, pc, size, position, start, sent>> /\ Len(file) < MaxSize
    BY DEF Follow!AppendByte, Follow!Writer
  <1> DEFINE b == <<cuts, Len(file) + 1>>
  <1>1. b \in Bytes
    BY <1>0, Typed DEF FollowInv, Bytes
  <1>2. /\ file' = Append(file, b) /\ file' \in Seq(Bytes) /\ Len(file') = Len(file) + 1
        /\ file'[Len(file) + 1] = b
        /\ \A i \in 1..Len(file) : file'[i] = file[i]
    BY <1>1, Typed, AppendProperties DEF FollowInv, Follow!AppendByte
  <1>3. Follow!TypeOK'
    BY <1>0, <1>2, Typed DEF FollowInv, Follow!TypeOK, Bytes
  <1>4. InPlace'
    BY <1>0, <1>2, Typed DEF FollowInv, InPlace
  <1>5. Exact'
    <2> SUFFICES ASSUME cuts = 0
                 PROVE  /\ start <= position /\ position <= Len(file')
                        /\ pc = "read" => size <= Len(file')
                        /\ sent = SubSeq(file', start + 1, position)
      BY <1>0 DEF Exact
    <2>1. /\ start <= position /\ position <= Len(file) /\ (pc = "read" => size <= Len(file))
          /\ sent = SubSeq(file, start + 1, position)
      BY DEF FollowInv, Exact
    <2>2. SubSeq(file', start + 1, position) = SubSeq(file, start + 1, position)
      <3>1. \A i \in (start + 1)..position : i \in 1..Len(file)
        BY <2>1, Typed DEF FollowInv
      <3>2. \A i \in (start + 1)..position : file[i] \in Bytes /\ file'[i] = file[i]
        BY <1>2, <3>1, Typed, ElementOfSeq DEF FollowInv
      <3>3. start + 1 \in Int /\ position \in Int
        BY Typed DEF FollowInv
      <3> DEFINE m == start + 1
      <3> HIDE DEF m
      <3>4. m \in Int /\ \A i \in m..position : file[i] \in Bytes /\ file'[i] = file[i]
        BY <3>2, <3>3 DEF m
      <3>5. SubSeq(file, m, position) = SubSeq(file', m, position)
        BY <3>3, <3>4, SameSubSeq
      <3> QED
        BY <3>5 DEF m
    <2>3. position <= Len(file) + 1 /\ (size <= Len(file) => size <= Len(file) + 1)
      BY <2>1, Typed DEF FollowInv
    <2> QED
      BY <1>2, <2>1, <2>2, <2>3
  <1>6. \A x : Past(x) => Past(x)'
    BY <1>0, <1>2, Typed DEF FollowInv, Past
  <1> QED
    BY <1>0, <1>3, <1>4, <1>5, <1>6 DEF FollowInv, Clean, NeverBackwards

LEMMA CutStep ==
    ASSUME FollowInv, Follow!Cut
    PROVE  FollowInv'
  <1>0. /\ UNCHANGED <<pc, size, position, start, sent>> /\ file' = <<>> /\ there' = TRUE
        /\ cuts' = cuts + 1 /\ cuts < MaxCuts
    BY DEF Follow!Cut, Follow!Writer
  <1>1. cuts' \in 0..MaxCuts /\ cuts' # 0
    BY <1>0, Typed DEF FollowInv
  <1>2. Follow!TypeOK'
    BY <1>0, <1>1, Typed DEF FollowInv, Follow!TypeOK
  <1>3. InPlace' /\ Exact'
    BY <1>0, <1>1 DEF InPlace, Exact
  <1>4. \A x : x[1] \in Nat /\ Past(x) => Past(x)'
    BY <1>0, Typed DEF FollowInv, Past
  <1>5. Clean => \A i \in 1..Len(sent) : sent[i][1] \in Nat
    <2>1. \A i \in 1..Len(sent) : sent[i] \in {NUL} \cup Bytes
      BY Typed, ElementOfSeq DEF FollowInv
    <2>2. \A x \in Bytes : x[1] \in Nat
      BY DEF Bytes
    <2> QED
      BY <2>1, <2>2 DEF Clean
  <1> QED
    BY <1>0, <1>2, <1>3, <1>4, <1>5 DEF FollowInv, Clean, NeverBackwards

-----------------------------------------------------------------------------
(* The follower.                                                           *)

\* A step that sends nothing, and either keeps the position or starts.
LEMMA SilentStep ==
    ASSUME FollowInv, UNCHANGED <<Follow!disk, sent>>,
           pc' \in {"list", "open", "first", "read", "idle", "ended"},
           pc' \in {"list", "open"} => sent = <<>>,
           size' \in 0..MaxSize, position' \in 0..MaxSize, start' \in 0..MaxSize,
           pc' = "read" => position' <= size' /\ (cuts = 0 => size' <= Len(file)),
           \/ start' = start /\ position' = position
           \/ start' = start /\ position > Len(file)
           \/ sent = <<>> /\ start' = position' /\ position' <= Len(file)
    PROVE  FollowInv'
  <1>0. UNCHANGED <<file, there, cuts, sent>>
    BY DEF Follow!disk
  <1>1. Follow!TypeOK' /\ InPlace'
    <2>1. Follow!TypeOK'
      BY <1>0 DEF FollowInv, Follow!TypeOK
    <2>2. InPlace'
      BY <1>0 DEF FollowInv, InPlace
    <2> QED
      BY <2>1, <2>2
  <1>2. CASE start' = start /\ position' = position
    <2>1. Exact' /\ \A x : Past(x) => Past(x)'
      BY <1>0, <1>2 DEF FollowInv, Exact, Past
    <2> QED
      BY <1>0, <1>1, <2>1 DEF FollowInv, Clean, NeverBackwards
  <1>3. CASE start' = start /\ position > Len(file)
    <2>1. cuts # 0
      BY <1>3, Typed DEF FollowInv, Exact
    <2>2. \A x : Past(x) => Past(x)'
      BY <1>0, <1>3, Typed DEF FollowInv, Past
    <2>3. Exact'
      BY <1>0, <2>1 DEF Exact
    <2> QED
      BY <1>0, <1>1, <2>2, <2>3 DEF FollowInv, Clean, NeverBackwards
  <1>4. CASE sent = <<>> /\ start' = position' /\ position' <= Len(file)
    <2>1. SubSeq(file, start' + 1, position') = <<>>
      <3>1. position' \in Int
        BY DEF FollowInv, Follow!FileFollowAssumption
      <3>2. \A n \in Int : SubSeq(file, n + 1, n) = <<>>
        BY SubSeqEmpty
      <3>3. SubSeq(file, position' + 1, position') = <<>>
        BY <3>1, <3>2
      <3>4. start' = position'
        BY <1>4
      <3> QED
        BY <3>3, <3>4
    <2>2. Exact'
      <3>1. start' <= position'
        BY <1>4, Typed DEF FollowInv
      <3> QED
        BY <1>0, <1>4, <2>1, <3>1 DEF Exact
    <2>3. \A i \in 1..Len(sent) : FALSE
      BY <1>4
    <2> QED
      BY <1>0, <1>1, <2>2, <2>3 DEF FollowInv, NeverBackwards
  <1> QED
    BY <1>2, <1>3, <1>4

\* pushFrom: what it sends is named by this cut and by places between the
\* position and what statSync has promised, if the file still reaches there.
LEMMA ReadStep ==
    ASSUME FollowInv, Follow!Read
    PROVE  FollowInv'
  <1>0. UNCHANGED <<file, there, cuts, size, start>> /\ pc = "read"
    BY DEF Follow!Read, Follow!disk
  <1>1. CASE UNCHANGED <<sent, position>> /\ pc' = "ended"
    BY <1>0, <1>1, SilentStep, Typed DEF FollowInv, Follow!disk
  <1>2. CASE /\ sent' = sent \o [i \in 1..(size - position) |->
                    IF position + i <= Len(file) THEN file[position + i] ELSE NUL]
             /\ position' = size /\ pc' = "idle"
    <2> DEFINE piece == [i \in 1..(size - position) |->
                            IF position + i <= Len(file) THEN file[position + i] ELSE NUL]
               S == {NUL} \cup Bytes
    <2>0. /\ size \in Nat /\ position \in Nat /\ position <= size /\ Len(file) \in Nat
          /\ sent \in Seq(S) /\ Len(sent) \in Nat /\ file \in Seq(Bytes)
      BY <1>0, Typed DEF FollowInv
    <2>1. size - position \in Nat
      BY <2>0
    <2>2. \A i \in 1..(size - position) : piece[i] \in S
      BY <2>0, ElementOfSeq
    <2>3. piece \in Seq(S) /\ Len(piece) = size - position
      BY <2>1, <2>2
    <2> HIDE DEF S
    <2>4. /\ sent' \in Seq(S) /\ Len(sent') = Len(sent) + (size - position)
          /\ \A i \in 1..Len(sent) : sent'[i] = sent[i]
          /\ \A i \in 1..(size - position) : sent'[Len(sent) + i] = piece[i]
      <3> DEFINE n == size - position
      <3>1. n \in Nat /\ Len(piece) = n
        BY <2>1, <2>3
      <3> HIDE DEF n, piece
      <3>2. sent' = sent \o piece
        BY <1>2 DEF piece
      <3>3. /\ sent' \in Seq(S) /\ Len(sent') = Len(sent) + n
            /\ \A i \in 1..(Len(sent) + n) :
                  sent'[i] = IF i <= Len(sent) THEN sent[i] ELSE piece[i - Len(sent)]
        BY <2>0, <2>3, <3>1, <3>2, ConcatProperties
      <3>4. \A i \in 1..Len(sent) : sent'[i] = sent[i]
        BY <2>0, <3>1, <3>3
      <3>5. ASSUME NEW i \in 1..n PROVE sent'[Len(sent) + i] = piece[i]
        <4>1. n \in Nat /\ Len(sent) \in Nat
          BY <2>0, <3>1
        <4>2. /\ Len(sent) + i \in 1..(Len(sent) + n) /\ ~(Len(sent) + i <= Len(sent))
              /\ Len(sent) + i - Len(sent) = i
          BY <4>1
        <4> QED
          BY <3>3, <4>2
      <3> QED
        BY <3>3, <3>4, <3>5 DEF n
    <2>5. Follow!TypeOK' /\ InPlace'
      <3>1. Follow!TypeOK'
        BY <1>0, <1>2, <2>4, NulIsNul DEF FollowInv, Follow!TypeOK, Bytes, S
      <3>2. InPlace'
        BY <1>0 DEF FollowInv, InPlace
      <3> QED
        BY <3>1, <3>2
    <2>6. Exact'
      <3> SUFFICES ASSUME cuts = 0
                   PROVE  /\ start <= size /\ size <= Len(file)
                          /\ sent' = SubSeq(file, start + 1, size)
        BY <1>0, <1>2 DEF Exact
      <3>1. /\ start <= position /\ size <= Len(file) /\ start \in Nat
            /\ sent = SubSeq(file, start + 1, position)
        BY <1>0, Typed DEF FollowInv, Exact
      <3>2. piece = SubSeq(file, position + 1, size)
        <4>1. /\ SubSeq(file, position + 1, size) \in Seq(Bytes)
              /\ Len(SubSeq(file, position + 1, size)) = size - position
              /\ \A i \in 1..(size - position) :
                    SubSeq(file, position + 1, size)[i] = file[position + i]
          <5>1. position + 1 \in Int /\ size \in Int
            BY <2>0
          <5>2. \A i \in (position + 1)..size : i \in 1..Len(file)
            BY <2>0, <3>1
          <5>3. \A i \in (position + 1)..size : file[i] \in Bytes
            BY <2>0, <5>2, ElementOfSeq
          <5>4. /\ SubSeq(file, position + 1, size) \in Seq(Bytes)
                /\ Len(SubSeq(file, position + 1, size))
                     = IF position + 1 <= size THEN size - (position + 1) + 1 ELSE 0
                /\ \A i \in 1..(size - (position + 1) + 1) :
                      SubSeq(file, position + 1, size)[i] = file[position + 1 + i - 1]
            BY <5>1, <5>3, SubSeqProperties
          <5> QED
            BY <2>0, <5>4
        <4>2. SubSeq(file, position + 1, size) \in Seq(S)
          <5>1. Seq(Bytes) \subseteq Seq(S)
            BY DEF S
          <5> QED
            BY <4>1, <5>1
        <4>3. \A i \in 1..Len(piece) : piece[i] = SubSeq(file, position + 1, size)[i]
          BY <2>0, <2>3, <3>1, <4>1
        <4> HIDE DEF piece
        <4> QED
          BY <2>3, <4>1, <4>2, <4>3, SeqEqual
      <3>3. SubSeq(file, start + 1, position) \o SubSeq(file, position + 1, size)
              = SubSeq(file, start + 1, size)
        <4> DEFINE m == start + 1
        <4>1. /\ m \in 1..(Len(file) + 1)
              /\ position \in (m - 1)..Len(file)
              /\ size \in position..Len(file)
          BY <2>0, <3>1
        <4> HIDE DEF m
        <4>2. SubSeq(file, m, position) \o SubSeq(file, position + 1, size) = SubSeq(file, m, size)
          BY <2>0, <4>1, ConcatAdjacentSubSeq
        <4> QED
          BY <4>2 DEF m
      <3> HIDE DEF piece
      <3>4. sent' = sent \o piece
        BY <1>2 DEF piece
      <3>5. start <= size
        BY <2>0, <3>1
      <3> QED
        BY <3>1, <3>2, <3>3, <3>4, <3>5
    <2>7. ASSUME Clean'
          PROVE  (\A i \in 1..Len(sent) : Past(sent[i]))' /\ NeverBackwards'
      <3>1. Clean
        BY <2>0, <2>1, <2>4, <2>7 DEF Clean
      <3>2. \A i \in 1..(size - position) : sent'[Len(sent) + i] # NUL
        BY <2>0, <2>1, <2>4, <2>7 DEF Clean
      <3>3. \A i \in 1..(size - position) :
               position + i <= Len(file) /\ sent'[Len(sent) + i] = <<cuts, position + i>>
        <4> SUFFICES ASSUME NEW i \in 1..(size - position)
                     PROVE  /\ position + i <= Len(file)
                            /\ sent'[Len(sent) + i] = <<cuts, position + i>>
          OBVIOUS
        <4>1. position + i <= Len(file) /\ sent'[Len(sent) + i] = file[position + i]
          BY <2>4, <3>2
        <4>2. position + i \in 1..Len(file)
          BY <2>0, <4>1
        <4> QED
          BY <4>1, <4>2 DEF FollowInv, InPlace
      <3> HIDE DEF piece
      <3>4. position < size => size <= Len(file)
        <4>1. position < size => size - position \in 1..(size - position)
          BY <2>0
        <4>2. position + (size - position) = size
          BY <2>0
        <4> QED
          BY <3>3, <4>1, <4>2
      <3>5. \A x : Past(x) => x[1] < cuts \/ (x[1] = cuts /\ x[2] <= position /\ position <= Len(file))
        BY DEF Past
      <3>6. \A i \in 1..Len(sent) : Past(sent[i])
        BY <3>1 DEF FollowInv
      <3>7. \A i \in 1..Len(sent) : sent[i][2] \in Int /\ sent[i][1] \in Int
        <4>1. \A i \in 1..Len(sent) : sent[i] \in S
          BY <2>0, ElementOfSeq
        <4>2. \A x \in S : x[1] \in Int /\ x[2] \in Int
          BY Typed DEF S, Bytes, NUL, FollowInv
        <4> QED
          BY <4>1, <4>2
      <3>8. \A i \in 1..Len(sent') :
               \/ i \in 1..Len(sent)
               \/ i - Len(sent) \in 1..(size - position) /\ i = Len(sent) + (i - Len(sent))
        BY <2>0, <2>1, <2>4
      <3>9. ASSUME NEW i \in 1..Len(sent') PROVE Past(sent[i])'
        <4>1. CASE i \in 1..Len(sent)
          <5>1. sent'[i] = sent[i] /\ Past(sent[i])
            BY <2>4, <3>6, <4>1
          <5>2. \/ sent[i][1] < cuts
                \/ sent[i][1] = cuts /\ sent[i][2] <= size /\ size <= Len(file)
            BY <2>0, <3>4, <3>7, <4>1, <5>1 DEF Past
          <5>3. position' = size /\ file' = file /\ cuts' = cuts /\ sent'[i] = sent[i]
            BY <1>0, <1>2, <5>1
          <5>4. \/ sent'[i][1] < cuts'
                \/ sent'[i][1] = cuts' /\ sent'[i][2] <= position' /\ position' <= Len(file')
            BY <5>2, <5>3
          <5> QED
            BY <5>4 DEF Past
        <4>2. CASE i - Len(sent) \in 1..(size - position) /\ i = Len(sent) + (i - Len(sent))
          <5>1. PICK j \in 1..(size - position) : i = Len(sent) + j
            BY <4>2
          <5>2. sent'[i] = <<cuts, position + j>> /\ position + j <= size /\ position < size
            BY <2>0, <3>3, <5>1
          <5>3. position' = size /\ file' = file /\ cuts' = cuts
            BY <1>0, <1>2
          <5>4. sent'[i][1] = cuts' /\ sent'[i][2] <= position' /\ position' <= Len(file')
            BY <3>4, <5>2, <5>3
          <5> QED
            BY <5>4 DEF Past
        <4> QED
          BY <3>8, <4>1, <4>2
      <3>10. ASSUME NEW i \in 1..Len(sent'), NEW j \in 1..Len(sent'), i < j
             PROVE  Later(sent'[i], sent'[j])
        <4>1. CASE i \in 1..Len(sent) /\ j \in 1..Len(sent)
          BY <2>4, <3>1, <3>10, <4>1 DEF FollowInv, NeverBackwards, Clean
        <4>2. CASE i \in 1..Len(sent) /\ j - Len(sent) \in 1..(size - position)
                      /\ j = Len(sent) + (j - Len(sent))
          <5>1. PICK k \in 1..(size - position) : j = Len(sent) + k
            BY <4>2
          <5>2. sent'[j] = <<cuts, position + k>> /\ sent'[i] = sent[i] /\ Past(sent[i])
            BY <2>4, <3>3, <3>6, <4>2, <5>1
          <5>3. sent[i][1] < cuts \/ (sent[i][1] = cuts /\ sent[i][2] < position + k)
            BY <2>0, <3>7, <4>2, <5>2 DEF Past
          <5> QED
            BY <5>2, <5>3 DEF Later
        <4>3. CASE i - Len(sent) \in 1..(size - position) /\ i = Len(sent) + (i - Len(sent))
          <5>1. PICK k \in 1..(size - position) : i = Len(sent) + k
            BY <4>3
          <5>2. PICK l \in 1..(size - position) : j = Len(sent) + l
            <6>1. j \notin 1..Len(sent)
              BY <2>0, <2>1, <3>10, <5>1
            <6> QED
              BY <3>8, <6>1
          <5>3. k < l
            BY <2>0, <3>10, <5>1, <5>2
          <5>4. sent'[i] = <<cuts, position + k>> /\ sent'[j] = <<cuts, position + l>>
            BY <3>3, <5>1, <5>2
          <5>5. position + k < position + l
            BY <2>0, <5>3
          <5> QED
            BY <5>4, <5>5 DEF Later
        <4> QED
          BY <3>8, <4>1, <4>2, <4>3
      <3> QED
        BY <3>9, <3>10 DEF NeverBackwards
    <2>8. NeverBackwards'
      BY <2>7 DEF NeverBackwards, Clean
    <2> QED
      BY <1>2, <2>5, <2>6, <2>7, <2>8 DEF FollowInv
  <1> QED
    BY <1>1, <1>2, NulIsNul DEF Follow!Read, Follow!ReadUpTo

-----------------------------------------------------------------------------

\* Inv is inductive.
THEOREM FollowInvHolds == Follow!FileFollowAssumption /\ Follow!Spec => []FollowInv
  <1>1. Follow!FileFollowAssumption /\ Follow!Init => FollowInv
    <2> SUFFICES ASSUME Follow!FileFollowAssumption, Follow!Init PROVE FollowInv
      OBVIOUS
    <2>0. MaxSize \in Nat /\ MaxCuts \in Nat
      BY Follow!FileFollowAssumption
    <2>1. PICK n \in 0..MaxSize : file = [i \in 1..n |-> <<0, i>>]
      BY DEF Follow!Init
    <2>2. \A i \in 1..n : <<0, i>> \in Bytes
      BY <2>0 DEF Bytes
    <2>3. file \in Seq(Bytes) /\ Len(file) = n
      BY <2>0, <2>1, <2>2
    <2>4. Follow!TypeOK
      BY <2>0, <2>3 DEF Follow!Init, Follow!TypeOK, Bytes
    <2>5. InPlace
      BY <2>1, <2>3 DEF Follow!Init, InPlace
    <2>6. Exact
      BY <2>0, <2>3, SubSeqEmpty DEF Follow!Init, Exact
    <2>7. \A i \in 1..Len(sent) : FALSE
      BY DEF Follow!Init
    <2> QED
      BY <2>4, <2>5, <2>6, <2>7 DEF Follow!Init, FollowInv, NeverBackwards
  <1>2. FollowInv /\ [Follow!Next]_(Follow!vars) => FollowInv'
    <2> SUFFICES ASSUME FollowInv, [Follow!Next]_(Follow!vars) PROVE FollowInv'
      OBVIOUS
    <2>0. /\ size \in 0..MaxSize /\ position \in 0..MaxSize /\ start \in 0..MaxSize
          /\ Len(file) \in 0..MaxSize /\ Len(file) \in Nat /\ Initial \in Nat /\ MaxSize \in Nat
          /\ pc \in {"list", "open", "first", "read", "idle", "ended"}
      BY Typed DEF FollowInv, Follow!TypeOK
    <2>1. CASE UNCHANGED Follow!vars \/ Follow!Listed \/ Follow!Leave
      <3>1. /\ UNCHANGED <<Follow!disk, sent, size, position, start>>
            /\ pc' \in {"list", "open", "first", "read", "idle", "ended"}
            /\ pc' = "read" => pc = "read"
            /\ pc' \in {"list", "open"} => pc \in {"list", "open"}
        BY <2>0, <2>1 DEF Follow!vars, Follow!Listed, Follow!Leave
      <3>2. pc' = "read" => position <= size /\ (cuts = 0 => size <= Len(file))
        BY <3>1 DEF FollowInv, Exact
      <3>3. pc' \in {"list", "open"} => sent = <<>>
        BY <3>1 DEF FollowInv
      <3> QED
        BY <2>0, <3>1, <3>2, <3>3, SilentStep
    <2>2. CASE Follow!Open
      <3>1. /\ UNCHANGED <<Follow!disk, sent, size>> /\ pc = "open"
            /\ pc' \in {"first", "ended"}
        BY <2>2 DEF Follow!Open
      <3>2. CASE UNCHANGED <<start, position>>
        BY <2>0, <3>1, <3>2, SilentStep
      <3>3. CASE start' = Follow!NotBelow(0, Len(file) - Initial) /\ position' = start'
        <4>1. start' \in 0..MaxSize /\ start' <= Len(file)
          BY <2>0, <3>3 DEF Follow!NotBelow
        <4>2. sent = <<>>
          BY <3>1 DEF FollowInv
        <4> QED
          BY <2>0, <3>1, <3>3, <4>1, <4>2, SilentStep
      <3> QED
        BY <2>2, <3>2, <3>3 DEF Follow!Open
    <2>3. CASE Follow!First
      <3>1. /\ UNCHANGED <<Follow!disk, sent, position, start>>
            /\ size' \in {size, Len(file)} /\ pc' \in {"read", "idle", "ended"}
            /\ pc' = "read" => size' = Len(file) /\ Len(file) > position
        BY <2>3 DEF Follow!First
      <3>2. pc' = "read" => position <= size' /\ size' <= Len(file)
        BY <2>0, <3>1
      <3> QED
        BY <2>0, <3>1, <3>2, SilentStep
    <2>4. CASE Follow!Poll
      <3>1. /\ UNCHANGED <<Follow!disk, sent, start>>
            /\ size' \in {size, Len(file)} /\ position' \in {position, Follow!Rewound}
            /\ pc' \in {"read", "idle", "ended"}
            /\ pc' = "read" => size' = Len(file) /\ position' = Follow!Rewound
               /\ Len(file) > Follow!Rewound
        BY <2>4 DEF Follow!Poll
      <3>2. Follow!Rewound = position \/ (Follow!Rewound = 0 /\ position > Len(file))
        BY <2>0 DEF Follow!Rewound
      <3>3. position' = position \/ (position' = 0 /\ position > Len(file))
        BY <3>1, <3>2
      <3>4. position' \in 0..MaxSize /\ size' \in 0..MaxSize
        BY <2>0, <3>1, <3>3
      <3>5. pc' = "read" => position' <= size' /\ size' <= Len(file)
        BY <2>0, <3>1, <3>2
      <3> QED
        BY <2>0, <3>1, <3>3, <3>4, <3>5, SilentStep
    <2>5. CASE Follow!Remove
      <3>1. UNCHANGED <<file, cuts, pc, size, position, start, sent>> /\ there' = FALSE
        BY <2>5 DEF Follow!Remove, Follow!Writer
      <3>2. Follow!TypeOK'
        <4>1. there' \in BOOLEAN
          BY <3>1
        <4> QED
          BY <3>1, <4>1 DEF FollowInv, Follow!TypeOK
      <3>3. InPlace' /\ Exact'
        BY <3>1 DEF FollowInv, InPlace, Exact
      <3> QED
        BY <3>1, <3>2, <3>3 DEF FollowInv, Clean, Past, NeverBackwards
    <2> QED
      BY <2>1, <2>2, <2>3, <2>4, <2>5, AppendStep, CutStep, ReadStep
         DEF Follow!Next, Follow!Follower
  <1> QED
    BY <1>1, <1>2, PTL DEF Follow!Spec

\* Every variable keeps its type (controllers.ts, followDataFile).
THEOREM FollowTypeCorrect == Follow!FileFollowAssumption /\ Follow!Spec => []Follow!TypeOK
  BY FollowInvHolds, PTL DEF FollowInv

\* For files of any length and any number of cuts: while the file only grows
\* the client has exactly its bytes from the start on, and a cut file sends
\* none twice or after a later one, but for zeros (pushFrom, the timer).
THEOREM BytesAreInOrder == Follow!FileFollowAssumption /\ Follow!Spec => []SentInOrder
  <1>1. FollowInv => SentInOrder
    BY DEF FollowInv, Exact, SentInOrder
  <1> QED
    BY <1>1, FollowInvHolds, PTL

=============================================================================
