---------------------------- MODULE RequestChain ----------------------------
(***************************************************************************)
(* RequestHandler (request-handler.ts) and the route guards                *)
(* (route-guard.ts): a request runs through a chain of handlers, each of   *)
(* which answers it or hands it on; a directory sends it through the chain *)
(* again with the path of its index.html.  Links that do not wait follow   *)
(* each other in one turn of the event loop, so a step goes from one       *)
(* handler that has something for the path to the next.                    *)
(*                                                                         *)
(* Paths are those around one page: the page itself (/fruit), its index    *)
(* (/fruit/index.html), a file under it (/fruit/main.js, say) and a path   *)
(* with ".." in it.  What the site has for them is data.                   *)
(***************************************************************************)
EXTENDS Integers, FiniteSets, Sequences

CONSTANTS
    Conns,
    Roles, Guest,
    Sites       \* the sites to look at, see the assumption

Paths == {"page", "index", "file", "dots"}
\* The keys of the route map that a path is under, the longest first.
Keys(path) == CASE path = "page" -> <<"page", "root">>
                [] path = "index" -> <<"index", "page", "root">>
                [] path = "file" -> <<"file", "page", "root">>
                [] OTHER -> <<"root">>

\* Where a path of a file is looked for, in this order.
Order == <<"controller", "dist", "scss", "ts", "hbs", "pdf", "md", "csv",
           "folder", "public", "docs", "data", "thalia", "notFound">>
Handlers == {Order[i] : i \in 1..Len(Order)}
Static == {"dist", "public", "docs", "data", "thalia"}

ASSUME RequestChainAssumption ==
    /\ Guest \in Roles
    /\ \A site \in Sites :
          /\ site.guard \in {"none", "basic", "role"} /\ site.development \in BOOLEAN
          /\ DOMAIN site.rules \subseteq Paths \cup {"root"}
          /\ site.files \subseteq Handlers \X Paths        \* what a handler has
          /\ site.dirs \subseteq Static \X {"page"}     \* directories
          /\ site.sidecars \subseteq site.files     \* there only as a .gz

VARIABLES
    site,       \* guard, rules, files, dirs, sidecars, development
    dist,       \* what builds wrote below dist/: paths, "page" a directory
    req         \* req[c], see Fresh

vars == <<site, dist, req>>

\* A request: the url asked for and the path looked for; what it waits for
\* and in which handler; who: whom the guard took the client for on this
\* pass, a role or a member, who gave the password or is exempt from it;
\* answer: by whom it was answered.
\* handleRequest sets out on its chain.
Fresh(url) == [url |-> url, path |-> url, wait |-> "turn", by |-> "exploit",
               who |-> "nobody", answer |-> "none"]
Closed == [Fresh("page") EXCEPT !.wait = "over", !.answer = "closed"]

-----------------------------------------------------------------------------
(* The chain.                                                              *)

IsDir(at, path) ==
    <<at, path>> \in site.dirs \/ (at = "dist" /\ path = "page" /\ "page" \in dist)

\* Mutant of Hits: tryHandlebars does not look for the template of an index.
HitsNoIndex(at, path) ==
    CASE at = "notFound" -> TRUE
      [] at = "dist" -> IsDir(at, path) \/ (~site.development /\ path \in dist)
      [] at = "folder" -> site.development /\ <<at, path>> \in site.files
      [] at = "hbs" -> path = "page" /\ <<at, path>> \in site.files
      [] OTHER -> IsDir(at, path) \/ <<at, path>> \in site.files

\* Has the handler anything for this path?  In development dist/ is skipped
\* for scripts and pages, and folders are listed only there.
Hits(at, path) ==
    CASE at = "notFound" -> TRUE
      [] at = "dist" -> IsDir(at, path) \/ (~site.development /\ path \in dist)
      [] at = "folder" -> site.development /\ <<at, path>> \in site.files
      [] OTHER -> IsDir(at, path) \/ <<at, path>> \in site.files

\* The next handler, from Order[from] on, that does not just call next().
FirstHit(from, path) ==
    CHOOSE i \in from..Len(Order) :
        Hits(Order[i], path) /\ \A j \in from..(i - 1) : ~Hits(Order[j], path)

After(at) == 1 + (CHOOSE i \in 1..Len(Order) : Order[i] = at)

Set(c, r) == req' = [req EXCEPT ![c] = r]

HandOn(c, r, from) == Set(c, [r EXCEPT !.wait = "turn", !.by = Order[FirstHit(from, r.path)]])

\* res.writeHead and res.end; the promise rejects with a message.
Answer(c, by) == Set(c, [req[c] EXCEPT !.wait = "over", !.answer = by])

\* The handler waits for a callback.
Wait(c, what) == Set(c, [req[c] EXCEPT !.wait = what])

Turn(c, by) == req[c].wait = "turn" /\ req[c].by = by

\* logRequest takes the url apart, getWebsite picks the site.
Arrive(c, url) ==
    /\ req[c].wait = "over"
    /\ Set(c, Fresh(url))
    /\ UNCHANGED <<site, dist>>

CheckPathExploit(c) ==
    /\ Turn(c, "exploit")
    /\ IF req[c].path = "dots" THEN Answer(c, "exploit")
       ELSE Set(c, [req[c] EXCEPT !.by = "guard"])
    /\ UNCHANGED <<site, dist>>

-----------------------------------------------------------------------------
(* The guard.                                                              *)

\* Mutant of GuardedPath: the path that is looked for.
GuardedPathLooked(r) == r.path

\* Decisions are about the url that was asked for, not about the index.html
\* that a directory was turned into.
GuardedPath(r) == r.url

NoRule == [kind |-> "none"]

\* getMatchingRoute: the longest key that the path is under.
RuleOf(path) ==
    LET keys == Keys(path)
        ruled == {i \in 1..Len(keys) : keys[i] \in DOMAIN site.rules}
    IN  IF ruled = {} THEN NoRule
        ELSE site.rules[keys[CHOOSE i \in ruled : \A j \in ruled : i <= j]]

Rule(c) == RuleOf(GuardedPath(req[c]))

Admit(c, who) == HandOn(c, [req[c] EXCEPT !.who = who], 1)

\* permissions[role] ?? permissions.guest ?? []
MayRead(rule, role) ==
    IF role \in DOMAIN rule.permissions THEN rule.permissions[role]
    ELSE Guest \in DOMAIN rule.permissions /\ rule.permissions[Guest]

\* RouteGuard lets everything through, and so do both others without a rule.
Unguarded(c) ==
    /\ Turn(c, "guard")
    /\ site.guard = "none" \/ Rule(c) = NoRule
    /\ Admit(c, "nobody")
    /\ UNCHANGED <<site, dist>>

\* RoleRouteGuard asks for the session; a failed query means guest.
AskRole(c) ==
    /\ Turn(c, "guard") /\ site.guard = "role" /\ Rule(c) # NoRule
    /\ Wait(c, "session")
    /\ UNCHANGED <<site, dist>>

RoleFound(c, role) ==
    /\ req[c].wait = "session"
    /\ IF MayRead(Rule(c), role) THEN Admit(c, role) ELSE Answer(c, "guard")
    /\ UNCHANGED <<site, dist>>

\* The login page cannot be rendered: the promise of the lookup rejects, and
\* nothing passes that on to the promise of the guard.
LoginPageFails(c) ==
    /\ req[c].wait = "session" /\ ~MayRead(Rule(c), Guest)
    /\ Wait(c, "forever")
    /\ UNCHANGED <<site, dist>>

\* BasicRouteGuard: a password, unless the request is exempt; then a proxy,
\* for a request or an upgrade of the connection, or the site itself.
Through(c, who) ==
    IF Rule(c).proxy THEN Wait(c, "proxy") \/ Wait(c, "upgrade") ELSE Admit(c, who)

\* The cookie is right, the request is exempt, or the rule has no password.
BasicAdmits(c) ==
    /\ Turn(c, "guard") /\ site.guard = "basic" /\ Rule(c) # NoRule
    /\ Through(c, IF Rule(c).password THEN "member" ELSE "nobody")
    /\ UNCHANGED <<site, dist>>

\* Logging off, and asking for the password, on a page that may not render.
BasicAnswers(c) ==
    /\ Turn(c, "guard") /\ site.guard = "basic" /\ Rule(c) # NoRule
    /\ Rule(c).password
    /\ Answer(c, "guard") \/ Answer(c, "renderError")
    /\ UNCHANGED <<site, dist>>

\* A posted password is parsed: right or wrong, the guard answers; but a
\* form that cannot be parsed finishes the chain without an answer.
BasicForm(c) ==
    /\ Turn(c, "guard") /\ site.guard = "basic" /\ Rule(c) # NoRule
    /\ Rule(c).password
    /\ Wait(c, "form")
    /\ UNCHANGED <<site, dist>>

FormParsed(c) ==
    /\ req[c].wait = "form"
    /\ Answer(c, "guard") \/ Wait(c, "forever")
    /\ UNCHANGED <<site, dist>>

\* handleProxy: the other server answers, or cannot be reached, which is 500;
\* but when it breaks off in mid-body nothing ends the response.
ProxyAnswers(c) ==
    /\ req[c].wait = "proxy"
    /\ Answer(c, "guard") \/ Wait(c, "forever")
    /\ UNCHANGED <<site, dist>>

\* Only an error ends an upgrade: one that succeeds is a tunnel from then on,
\* and an ordinary response to it is taken up by nobody.
UpgradeAnswers(c) ==
    /\ req[c].wait = "upgrade"
    /\ Answer(c, "guard") \/ Wait(c, "forever")
    /\ UNCHANGED <<site, dist>>

-----------------------------------------------------------------------------
(* The handlers that have something for the path.                          *)

\* tryController finishes the chain; the controller answers when it likes.
TryController(c) ==
    /\ Turn(c, "controller")
    /\ Wait(c, "controller")
    /\ UNCHANGED <<site, dist>>

\* A controller throws before it returns, a file vanishes between existsSync
\* and statSync: the catch of the chain renders the error, unless the headers
\* are sent, as a controller may have done; then it lets the response be.
Throws(c) ==
    /\ \E at \in Handlers \ {"scss", "notFound"} : Turn(c, at)
    /\ Answer(c, "renderError") \/ (req[c].by = "controller" /\ Wait(c, "forever"))
    /\ UNCHANGED <<site, dist>>

\* A directory goes through the chain again.
StaticDirectory(c) ==
    /\ req[c].wait = "turn" /\ IsDir(req[c].by, req[c].path)
    /\ Set(c, [Fresh(req[c].url) EXCEPT !.path = "index"])
    /\ UNCHANGED <<site, dist>>

\* The headers, then the file or the range asked for; no such range is 416.
StreamStaticFile(c) == Wait(c, "stream") \/ Answer(c, req[c].by)

\* tryStaticFile: a file as it is, or zipped first.
StaticFile(c) ==
    /\ \E at \in Static : Turn(c, at)
    /\ ~IsDir(req[c].by, req[c].path) /\ <<req[c].by, req[c].path>> \notin site.sidecars
    /\ Wait(c, "gzip") \/ StreamStaticFile(c)
    /\ UNCHANGED <<site, dist>>

\* One that is there only as a .gz is streamed to clients that accept gzip.
StaticSidecar(c) ==
    /\ \E at \in Static : Turn(c, at)
    /\ ~IsDir(req[c].by, req[c].path) /\ <<req[c].by, req[c].path>> \in site.sidecars
    /\ Wait(c, "sidecar") \/ HandOn(c, req[c], After(req[c].by))
    /\ UNCHANGED <<site, dist>>

TryPdf(c) ==
    /\ Turn(c, "pdf")
    /\ StreamStaticFile(c)
    /\ UNCHANGED <<site, dist>>

\* The callback of gzip, 'finish' or 'error' of the stream, the controller
\* or the file that was read: each ends the response, a failure with 500.
CallbackAnswers(c) ==
    /\ req[c].wait \in {"controller", "stream", "sidecar", "gzip", "read"}
    /\ Answer(c, req[c].by)
    /\ UNCHANGED <<site, dist>>

\* But nobody listens to an 'error' of the stream of a .gz, nor to the
\* promise of a controller, which may reject.
NobodyListens(c) ==
    /\ req[c].wait \in {"controller", "sidecar"}
    /\ Wait(c, "forever")
    /\ UNCHANGED <<site, dist>>

\* tryScss compiles and writes to dist/, or answers 500 with the source; it
\* reads that after writeHead, and if it cannot, the response stays open.
TryScss(c) ==
    /\ Turn(c, "scss")
    /\ Answer(c, "scss") \/ Wait(c, "forever")
    /\ dist' \in {dist, dist \cup {"page"}, dist \cup {"page", req[c].path}}
    /\ UNCHANGED site

\* tryTypescript: Bun.build writes into dist/, which it first creates; what
\* cannot be built is left to public/.
TryTypescript(c) ==
    /\ Turn(c, "ts")
    /\ Wait(c, "build")
    /\ dist' = dist \cup {"page"}
    /\ UNCHANGED site

\* Mutant of BuildEnds: a failed build is logged only.
BuildFailsQuietly(c) ==
    /\ req[c].wait = "build"
    /\ \/ Answer(c, "ts") /\ dist' = dist \cup {req[c].path}
       \/ Wait(c, "forever") /\ UNCHANGED dist
    /\ UNCHANGED site

BuildEnds(c) ==
    /\ req[c].wait = "build"
    /\ \/ Answer(c, "ts") /\ dist' = dist \cup {req[c].path}
       \/ HandOn(c, req[c], After("ts")) /\ UNCHANGED dist
    /\ UNCHANGED site

\* A template that does not compile or render becomes the error page.
ServeHandlebarsTemplate(c) == Answer(c, "hbs") \/ Answer(c, "renderError")

\* It renders in one turn.
TryHandlebars(c) ==
    /\ Turn(c, "hbs")
    /\ ServeHandlebarsTemplate(c)
    /\ UNCHANGED <<site, dist>>

ShowFolderIndex(c) ==
    /\ Turn(c, "folder")
    /\ Answer(c, "folder")
    /\ UNCHANGED <<site, dist>>

\* The file is read first.
TryMarkdown(c) ==
    /\ Turn(c, "md")
    /\ Wait(c, "read")
    /\ UNCHANGED <<site, dist>>

TryCsv(c) ==
    /\ Turn(c, "csv")
    /\ Wait(c, "read")
    /\ UNCHANGED <<site, dist>>

\* tryCsv renders after writeHead: when that throws, the catch throws at its
\* own writeHead, and the response stays open.
CsvRenderFails(c) ==
    /\ req[c].wait = "read" /\ req[c].by = "csv"
    /\ Wait(c, "forever")
    /\ UNCHANGED <<site, dist>>

FileNotFound(c) ==
    /\ Turn(c, "notFound")
    /\ Answer(c, "notFound")
    /\ UNCHANGED <<site, dist>>

\* The client goes away, or stop() destroys its socket.
Leave(c) ==
    /\ req[c].wait # "over"
    /\ Set(c, Closed)
    /\ UNCHANGED <<site, dist>>

-----------------------------------------------------------------------------

Init ==
    /\ site \in Sites
    /\ dist = {}
    /\ req = [c \in Conns |-> Closed]

System(c) ==
    \/ CheckPathExploit(c) \/ Unguarded(c) \/ AskRole(c)
    \/ \E role \in Roles : RoleFound(c, role)
    \/ LoginPageFails(c) \/ BasicAdmits(c) \/ BasicAnswers(c) \/ BasicForm(c)
    \/ FormParsed(c) \/ ProxyAnswers(c) \/ UpgradeAnswers(c)
    \/ TryController(c) \/ Throws(c) \/ StaticDirectory(c) \/ StaticFile(c)
    \/ StaticSidecar(c) \/ TryPdf(c)
    \/ CallbackAnswers(c) \/ NobodyListens(c) \/ TryScss(c) \/ TryTypescript(c) \/ BuildEnds(c)
    \/ TryHandlebars(c) \/ ShowFolderIndex(c) \/ TryMarkdown(c) \/ TryCsv(c)
    \/ CsvRenderFails(c) \/ FileNotFound(c)

Next ==
    \E c \in Conns :
        \/ \E url \in Paths : Arrive(c, url)
        \/ System(c)
        \/ Leave(c)

\* Turns, queries, files and builds come to an end, and what controllers and
\* other servers do settles.
Spec == Init /\ [][Next]_vars /\ \A c \in Conns : WF_vars(System(c))

-----------------------------------------------------------------------------

\* A handler sees a request only when the rule of the url that the client
\* asked for lets in the one whom the guard found on this very pass: not by
\* the rule of the index.html that a directory stands for, nor on an answer
\* of an earlier pass, since when a session may have ended.
Permitted(r) ==
    LET rule == RuleOf(r.url)
    IN  \/ site.guard = "none" \/ rule = NoRule
        \/ site.guard = "role" /\ r.who \in Roles /\ MayRead(rule, r.who)
        \/ site.guard = "basic" /\ ~rule.proxy /\ (rule.password => r.who = "member")

HandledOnlyAsPermitted ==
    \A c \in Conns : req[c].by \in Handlers /\ req[c].answer # "closed" => Permitted(req[c])

\* A directory that is also a page by its index.hbs stays one, in the first
\* pass and, once a build of something below it has made a directory of its
\* name in dist/, in the second: it is not answered 404.
IndexPagesStay ==
    \A c \in Conns :
        {<<"hbs", "page">>, <<"hbs", "index">>} \subseteq site.files
            => ~(req[c].url = "page" /\ req[c].answer = "notFound")

\* tests/Integration/request-handler.test.ts says of tryHandlebars: "For
\* request /path: first check src/path/index.hbs, else src/path.hbs; then
\* serve that template."  The code does not keep it: a page by fruit.hbs is
\* answered 404 from the first build of something below it on.
PagesStay ==
    \A c \in Conns :
        <<"hbs", "page">> \in site.files => ~(req[c].url = "page" /\ req[c].answer = "notFound")

\* Where the code may leave a response open: the login page does not render,
\* the form with the password does not parse, the other server of a proxy
\* breaks off or does not upgrade; a controller throws after its headers or
\* rejects; a stylesheet neither compiles nor can be read, a CSV file does
\* not render, a .gz breaks while it is read.
MayStayOpen(r) ==
    \/ r.by = "guard" /\ LET rule == RuleOf(r.url)
                        IN  \/ site.guard = "role" /\ ~MayRead(rule, Guest)
                            \/ site.guard = "basic" /\ (rule.password \/ rule.proxy)
    \/ r.by \in {"controller", "scss", "csv"}
    \/ <<r.by, r.path>> \in site.sidecars

\* Every other request comes to an answer, through both passes of the chain,
\* whichever builds, files, streams and queries fail.
EveryRequestEnds ==
    \A c \in Conns :
        req[c].wait # "over" ~>
            req[c].wait = "over" \/ (req[c].wait = "forever" /\ MayStayOpen(req[c]))

TypeOK ==
    /\ site \in Sites
    /\ dist \subseteq Paths
    /\ req \in [Conns ->
          [url : Paths, path : Paths,
           wait : {"turn", "session", "form", "proxy", "upgrade", "controller", "stream",
                   "sidecar", "gzip", "read", "build", "forever", "over"},
           by : Handlers \cup {"exploit", "guard"},
           who : Roles \cup {"nobody", "member"},
           answer : Handlers \cup {"none", "exploit", "guard", "renderError", "closed"}]]
=============================================================================
