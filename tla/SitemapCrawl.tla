---------------------------- MODULE SitemapCrawl ----------------------------
(***************************************************************************)
(* scripts/generate-sitemaps.ts: repeated runs of a crawl that keeps its   *)
(* state in sitemap-halt.csv.  A run loads the file, queues what has no    *)
(* status 200, follows links, and writes sitemap.xml and the file when its *)
(* pool is done; a killed run writes nothing.  The pool is JobPool's, one  *)
(* job per page, as WorkerPool implements it.                              *)
(*                                                                         *)
(* A page stands for a normalised key (origin and path): its SitemapUrl,   *)
(* its entries in urlByKey, urlStatus and crawledUrls.  A link is one that *)
(* passes isSameDomain.                                                    *)
(***************************************************************************)
EXTENDS JobPool

CONSTANTS
    Home,       \* crawlBaseUrl
    Links       \* Links[p]: the pages p leads to

Pages == Job

ASSUME SitemapCrawlAssumption ==
    /\ Home \in Pages
    /\ Links \in [Pages -> SUBSET Pages]
    /\ Limit \in Nat \ {0}

VARIABLES
    phase,      \* "stopped", "crawling", "mapped" (sitemap.xml written), "killed"
    urlStatus,  \* "unknown": not in urlByKey; else null, 200 or another
    crawledUrls,\* pages with a SitemapUrl in crawledUrls (isSeen)
    statusCode, \* the statusCode of that SitemapUrl
    csv,        \* sitemap-halt.csv on disk
    sitemap,    \* the pages sitemap.xml lists
    (* history *)
    fetches,    \* how often each page was fetched in this run
    expanded,   \* pages whose links this run has recorded, or a saved run did
    saved       \* what expanded was when the file was written

runVars == <<poolVars, urlStatus, crawledUrls, statusCode, fetches, expanded>>
vars == <<runVars, phase, csv, sitemap, saved>>

Status == {"unknown", "null", "200", "other"}

TypeOK ==
    /\ pending \subseteq Pages /\ running \subseteq Pages
    /\ state \in {"open", "shut", "halted", "done"}
    /\ phase \in {"stopped", "crawling", "mapped", "killed"}
    /\ urlStatus \in [Pages -> Status] /\ csv \in [Pages -> Status]
    /\ crawledUrls \subseteq Pages
    /\ statusCode \in [Pages -> Status \ {"unknown"}]
    /\ sitemap \subseteq Pages
    /\ fetches \in [Pages -> Nat]
    /\ expanded \subseteq Pages /\ saved \subseteq Pages

NothingKnown == [p \in Pages |-> "unknown"]

Init ==
    /\ phase = "stopped"
    /\ pending = {} /\ running = {} /\ state = "done"
    /\ urlStatus = NothingKnown /\ csv = NothingKnown
    /\ crawledUrls = {} /\ sitemap = {}
    /\ statusCode = [p \in Pages |-> "null"]
    /\ fetches = [p \in Pages |-> 0]
    /\ expanded = {} /\ saved = {}

-----------------------------------------------------------------------------
(* main() *)

\* loadSitemapHalt(): rows with status 200 become stubs, the others are queued.
ForgetsNulls(p) == csv[p] = "other"                  \* mutant
ToQueue(p) == csv[p] \in {"null", "other"}

FirstJobs == {p \in Pages : ToQueue(p)} \cup (IF csv[Home] = "200" THEN {} ELSE {Home})

Loaded == [csv EXCEPT ![Home] = IF @ = "unknown" THEN "null" ELSE @]

\* A page is queued once, although home may be in the file too (isSeen).
StartRun ==
    /\ phase \in {"stopped", "killed"}
    /\ phase' = "crawling"
    /\ urlStatus' = Loaded
    /\ crawledUrls' = {p \in Pages : csv[p] = "200"} \cup FirstJobs
    /\ statusCode' = [p \in Pages |-> IF csv[p] = "200" THEN "200" ELSE "null"]
    /\ pending' = FirstJobs
    /\ running' = {}
    /\ state' = IF FirstJobs = {} THEN "shut" ELSE "open"
    /\ fetches' = [p \in Pages |-> 0]
    /\ expanded' = saved
    /\ UNCHANGED <<csv, sitemap, saved>>

-----------------------------------------------------------------------------
(* makeCrawlJob *)

StartCrawl(p) ==
    /\ phase = "crawling"
    /\ Start(p)
    /\ fetches' = [fetches EXCEPT ![p] = @ + 1]
    /\ UNCHANGED <<phase, urlStatus, crawledUrls, statusCode, csv, sitemap, expanded, saved>>

\* The links of p that this run has not seen.
AllLinks(p) == Links[p]                              \* mutant
Unseen(p) == Links[p] \ (crawledUrls \cup {p})

\* The statuses once p has answered s and, if it could be read, its links.
MarksOnlyNew(p, s, links) ==                         \* mutant
    [q \in Pages |-> IF q = p THEN s
                     ELSE IF q \in links \ crawledUrls /\ state = "open" /\ urlStatus[q] = "unknown"
                     THEN "null" ELSE urlStatus[q]]
Marked(p, s, links) ==
    [q \in Pages |-> IF q = p THEN s
                     ELSE IF q \in links /\ urlStatus[q] = "unknown" THEN "null"
                     ELSE urlStatus[q]]

\* The page was answered with an ok status, 200 or another, and parsed: its
\* links are recorded and pushed.
CrawlSucceeds(p, s) ==
    /\ phase = "crawling"
    /\ s \in {"200", "other"}
    /\ Settle(p, Unseen(p))
    /\ urlStatus' = Marked(p, s, Links[p])
    /\ crawledUrls' = crawledUrls \cup {p} \cup Unseen(p)
    /\ statusCode' = [statusCode EXCEPT ![p] = s]
    /\ expanded' = expanded \cup {p}
    /\ UNCHANGED <<phase, csv, sitemap, fetches, saved>>

\* What urlStatus gets from a fetch that brought no 200: the status, if any.
Failures == {"other", "null"}

\* No answer, an answer that is not ok, or one whose body cannot be read or
\* parsed; the status recorded is the answer's.  The pool counts a failure.
CrawlFails(p, s) ==
    /\ phase = "crawling"
    /\ s \in Failures \cup {"200"}
    /\ Settle(p, {}) \/ Halt(p)
    /\ urlStatus' = Marked(p, s, {})
    /\ statusCode' = [statusCode EXCEPT ![p] = s]
    /\ UNCHANGED <<phase, crawledUrls, csv, sitemap, fetches, expanded, saved>>

-----------------------------------------------------------------------------
(* The end of a run *)

PoolDone ==
    /\ phase = "crawling" /\ Finish
    /\ UNCHANGED <<phase, urlStatus, crawledUrls, statusCode, csv, sitemap,
                   fetches, expanded, saved>>

\* persistState(): sitemap.xml first, then the state.
Listed == {p \in crawledUrls : statusCode[p] = "200"}

WriteSitemap ==
    /\ phase = "crawling" /\ state = "done"
    /\ phase' = "mapped"
    /\ sitemap' = Listed
    /\ UNCHANGED <<runVars, csv, saved>>

WriteHalt ==
    /\ phase = "mapped"
    /\ phase' = "stopped"
    /\ csv' = urlStatus
    /\ saved' = expanded
    /\ UNCHANGED <<runVars, sitemap>>

\* The process is killed: what was not written is lost.
Killed ==
    /\ phase \in {"crawling", "mapped"}
    /\ phase' = "killed"
    /\ pending' = {} /\ running' = {} /\ state' = "done"
    /\ expanded' = saved
    /\ UNCHANGED <<urlStatus, crawledUrls, statusCode, csv, sitemap, fetches, saved>>

-----------------------------------------------------------------------------

Next ==
    \/ StartRun \/ PoolDone \/ WriteSitemap \/ WriteHalt \/ Killed
    \/ \E p \in Pages :
         StartCrawl(p) \/ \E s \in Status : CrawlSucceeds(p, s) \/ CrawlFails(p, s)

Spec == Init /\ [][Next]_vars

\* Requests are answered, the pool is done in the end, and somebody runs the
\* script again as long as it is told to.
FairSpec ==
    /\ Spec
    /\ WF_vars(StartRun) /\ WF_vars(PoolDone) /\ WF_vars(WriteSitemap) /\ WF_vars(WriteHalt)
    /\ \A p \in Pages : WF_vars(StartCrawl(p))
    /\ \A p \in Pages : WF_vars(\E s \in Status : CrawlSucceeds(p, s) \/ CrawlFails(p, s))

-----------------------------------------------------------------------------
(* Properties *)

\* A run fetches no page twice, however many pages lead to it and however the
\* file, the home page and the links overlap.
FetchedOncePerRun == \A p \in Pages : fetches[p] <= 1

\* Everything known in a run is on its way: answered 200 by this run or an
\* earlier one, waiting, running or fetched.  Unless the pool was halted,
\* nothing known is left unvisited when it is done.
KnownIsScheduled ==
    phase = "crawling" /\ state \in {"open", "shut"} =>
        \A p \in Pages : urlStatus[p] # "unknown" =>
            p \in pending \cup running \/ fetches[p] = 1 \/ csv[p] = "200"

\* The file is enough to resume: it names every page that a page it counts as
\* read leads to, whenever the run was halted and wherever the last one died.
FrontierSaved ==
    \A p \in saved : \A q \in Links[p] : csv[q] # "unknown"

\* sitemap.xml lists only pages that answered 200, and the file, when it is
\* written after it, agrees.
SitemapAgrees ==
    phase = "mapped" => \A p \in sitemap : urlStatus[p] = "200"

\* A page with status 200 in the file is not visited again.  Its links have
\* been recorded unless it answered 200 with a body that could not be read.
SkippedPagesWereRead ==
    \A p \in Pages : csv[p] = "200" => p \in saved

\* What the file knows is never lost by a later run, halted or killed.
FileOnlyGrows ==
    [][\A p \in Pages : csv[p] # "unknown" => csv'[p] # "unknown"]_vars

\* If from some moment on every page answers 200 and no run is killed, and if
\* no page ever answered 200 with a body that could not be read, re-running
\* the script leads to a file in which every page reachable from home has
\* status 200, whatever was halted or lost before.
Failing == \E p \in Pages : CrawlSucceeds(p, "other") \/ \E s \in Status : CrawlFails(p, s)
Reachable ==
    LET R[n \in 0..Cardinality(Pages)] ==
            IF n = 0 THEN {Home} ELSE R[n - 1] \cup UNION {Links[p] : p \in R[n - 1]}
    IN  R[Cardinality(Pages)]
Converges ==
    (<>[][~Failing /\ ~Killed]_vars) /\ []SkippedPagesWereRead
        => <>[](\A p \in Reachable : csv[p] = "200")

=============================================================================
