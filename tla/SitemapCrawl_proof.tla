------------------------- MODULE SitemapCrawl_proof -------------------------
(***************************************************************************)
(* The safety properties of SitemapCrawl, for every site, every home page, *)
(* every number of workers and any number of runs.  The inductive          *)
(* invariant says what a run in progress owes the file it started from     *)
(* (Kept, Frontier), the pool (Scheduled, ShutIsIdle) and its own tables   *)
(* (Fetched, Statuses).                                                    *)
(***************************************************************************)
EXTENDS SitemapCrawl, TLAPS

InRun == phase \in {"crawling", "mapped"}

\* What the file knew, the run knows.
Kept ==
    InRun => \A p \in Pages : csv[p] # "unknown" => urlStatus[p] # "unknown"

\* What an expanded page leads to is known.
Frontier ==
    InRun => \A p \in expanded : \A q \in Links[p] : urlStatus[q] # "unknown"

\* A page gets its SitemapUrl before it is queued, and is queued before it is
\* fetched.
Fetched ==
    phase = "crawling" =>
        /\ pending \subseteq crawledUrls /\ running \subseteq crawledUrls
        /\ \A p \in pending : fetches[p] = 0
        /\ \A p \in running : fetches[p] # 0
        /\ \A p \in Pages : fetches[p] # 0 => p \in crawledUrls

\* Known or seen means scheduled; KnownIsScheduled alone is not inductive,
\* because a link that is seen is not pushed again.
Scheduled ==
    phase = "crawling" /\ state \in {"open", "shut"} =>
        \A p \in Pages : urlStatus[p] # "unknown" \/ p \in crawledUrls =>
            p \in pending \cup running \/ fetches[p] = 1 \/ csv[p] = "200"

\* A pool that shut itself, or had nothing to do, is idle.
ShutIsIdle ==
    phase = "crawling" /\ state = "shut" => pending = {} /\ running = {}

\* A SitemapUrl with status 200 is one whose key has status 200.
Statuses ==
    /\ InRun => \A p \in Pages : statusCode[p] = "200" => urlStatus[p] = "200"
    /\ phase = "mapped" => sitemap \subseteq Listed

IInv ==
    /\ TypeOK /\ FetchedOncePerRun /\ FrontierSaved
    /\ Kept /\ Frontier /\ Fetched /\ Scheduled /\ ShutIsIdle /\ Statuses

-----------------------------------------------------------------------------

\* Loading the file forgets nothing it knew.
LEMMA LoadedKeeps ==
    ASSUME TypeOK
    PROVE  /\ Loaded \in [Pages -> Status]
           /\ \A p \in Pages : csv[p] # "unknown" => Loaded[p] # "unknown"
           /\ \A p \in Pages : csv[p] = "200" => Loaded[p] = "200"
           /\ \A p \in Pages : Loaded[p] # "unknown" => csv[p] # "unknown" \/ p = Home
  BY SitemapCrawlAssumption DEF TypeOK, Loaded, Pages, Status

\* Marking keeps what is known, and makes the links known.
LEMMA MarkedKeeps ==
    ASSUME TypeOK, NEW p \in Pages, NEW s \in Status, s # "unknown",
           NEW links \in SUBSET Pages
    PROVE  /\ Marked(p, s, links) \in [Pages -> Status]
           /\ Marked(p, s, links)[p] = s
           /\ \A q \in Pages : urlStatus[q] # "unknown" => Marked(p, s, links)[q] # "unknown"
           /\ \A q \in links : Marked(p, s, links)[q] # "unknown"
           /\ \A q \in Pages \ {p} : urlStatus[q] = "200" => Marked(p, s, links)[q] = "200"
           /\ \A q \in Pages : Marked(p, s, links)[q] # "unknown" =>
                 urlStatus[q] # "unknown" \/ q = p \/ q \in links
  BY DEF TypeOK, Marked, Status, Pages

LEMMA InitInv == Init => IInv
  BY SitemapCrawlAssumption
     DEF Init, IInv, TypeOK, FetchedOncePerRun, FrontierSaved, Kept, Frontier, Fetched,
         Scheduled, ShutIsIdle, Statuses, InRun, NothingKnown, Status, Pages

LEMMA StepInv == IInv /\ [Next]_vars => IInv'
  <1> SUFFICES ASSUME IInv, [Next]_vars PROVE IInv'
    OBVIOUS
  <1> USE SitemapCrawlAssumption DEF Pages
  <1>1. CASE StartRun
    <2>1. /\ Loaded \in [Pages -> Status]
          /\ \A p \in Pages : csv[p] # "unknown" => Loaded[p] # "unknown"
          /\ \A p \in Pages : csv[p] = "200" => Loaded[p] = "200"
          /\ \A p \in Pages : Loaded[p] # "unknown" => csv[p] # "unknown" \/ p = Home
      BY LoadedKeeps DEF IInv
    <2>2. TypeOK'
      BY <1>1, <2>1 DEF IInv, TypeOK, StartRun, FirstJobs, Status
    <2>3. FetchedOncePerRun' /\ FrontierSaved' /\ Kept' /\ Frontier'
      BY <1>1, <2>1 DEF IInv, TypeOK, StartRun, FetchedOncePerRun, FrontierSaved, Kept,
                        Frontier, InRun
    <2>4. Fetched' /\ ShutIsIdle'
      BY <1>1 DEF StartRun, Fetched, ShutIsIdle, FirstJobs
    <2>5. Scheduled'
      BY <1>1, <2>1 DEF IInv, TypeOK, StartRun, Scheduled, FirstJobs, ToQueue, Status
    <2>6. Statuses'
      BY <1>1, <2>1 DEF IInv, TypeOK, StartRun, Statuses, InRun, FirstJobs
    <2> QED BY <2>2, <2>3, <2>4, <2>5, <2>6 DEF IInv
  <1>2. CASE PoolDone
    BY <1>2 DEF IInv, TypeOK, FetchedOncePerRun, FrontierSaved, Kept, Frontier, Fetched,
                Scheduled, ShutIsIdle, Statuses, InRun, PoolDone, Finish, Listed
  <1>3. CASE WriteSitemap
    BY <1>3 DEF IInv, TypeOK, FetchedOncePerRun, FrontierSaved, Kept, Frontier, Fetched,
                Scheduled, ShutIsIdle, Statuses, InRun, WriteSitemap, Listed, runVars, poolVars
  <1>4. CASE WriteHalt
    BY <1>4 DEF IInv, TypeOK, FetchedOncePerRun, FrontierSaved, Kept, Frontier, Fetched,
                Scheduled, ShutIsIdle, Statuses, InRun, WriteHalt, Listed, runVars, poolVars
  <1>5. CASE Killed
    BY <1>5 DEF IInv, TypeOK, FetchedOncePerRun, FrontierSaved, Kept, Frontier, Fetched,
                Scheduled, ShutIsIdle, Statuses, InRun, Killed
  <1>6. ASSUME NEW p \in Pages, StartCrawl(p) PROVE IInv'
    <2>1. TypeOK' /\ FetchedOncePerRun'
      BY <1>6 DEF IInv, TypeOK, FetchedOncePerRun, Fetched, StartCrawl, Start
    <2>2. FrontierSaved' /\ Kept' /\ Frontier' /\ Statuses'
      BY <1>6 DEF IInv, FrontierSaved, Kept, Frontier, Statuses, InRun, StartCrawl, Listed
    <2>3. Fetched' /\ ShutIsIdle'
      BY <1>6 DEF IInv, TypeOK, Fetched, ShutIsIdle, StartCrawl, Start
    <2>4. Scheduled'
      BY <1>6 DEF IInv, TypeOK, Scheduled, Fetched, StartCrawl, Start
    <2> QED BY <2>1, <2>2, <2>3, <2>4 DEF IInv
  <1>7. ASSUME NEW p \in Pages, NEW s \in Status, CrawlSucceeds(p, s) PROVE IInv'
    <2> DEFINE new == Unseen(p)
               M == Marked(p, s, Links[p])
    <2>0. s \in {"200", "other"}
      BY <1>7 DEF CrawlSucceeds
    <2>1. /\ M \in [Pages -> Status] /\ M[p] = s
          /\ \A q \in Pages : urlStatus[q] # "unknown" => M[q] # "unknown"
          /\ \A q \in Links[p] : M[q] # "unknown"
          /\ \A q \in Pages \ {p} : urlStatus[q] = "200" => M[q] = "200"
          /\ \A q \in Pages : M[q] # "unknown" =>
                urlStatus[q] # "unknown" \/ q = p \/ q \in Links[p]
      BY <2>0, MarkedKeeps DEF IInv, Status
    <2>2. /\ phase = "crawling" /\ phase' = phase /\ p \in running
          /\ pending' = (IF state = "open" THEN pending \cup new ELSE pending)
          /\ running' = running \ {p}
          /\ state' = IF state = "open" /\ pending' = {} /\ running = {p} THEN "shut" ELSE state
          /\ urlStatus' = M /\ crawledUrls' = crawledUrls \cup {p} \cup new
          /\ statusCode' = [statusCode EXCEPT ![p] = s] /\ s \in {"200", "other"}
          /\ expanded' = expanded \cup {p}
          /\ UNCHANGED <<csv, sitemap, fetches, saved>>
          /\ new \subseteq Pages
      BY <1>7 DEF CrawlSucceeds, Settle, AcceptAll, IdleAfter, Unseen
    <2> HIDE DEF M
    <2>3. TypeOK' /\ FetchedOncePerRun' /\ FrontierSaved'
      BY <2>1, <2>2 DEF IInv, TypeOK, FetchedOncePerRun, FrontierSaved, Status
    <2>4. Kept' /\ Frontier'
      BY <2>1, <2>2 DEF IInv, TypeOK, Kept, Frontier, InRun
    <2>5. Statuses'
      BY <2>1, <2>2 DEF IInv, TypeOK, Statuses, InRun
    <2>6. Fetched' /\ ShutIsIdle'
      BY <2>2 DEF IInv, TypeOK, Fetched, ShutIsIdle, Unseen
    <2>7. Scheduled'
      <3> SUFFICES ASSUME state' \in {"open", "shut"}, NEW q \in Pages,
                          urlStatus'[q] # "unknown" \/ q \in crawledUrls'
                   PROVE  q \in pending' \cup running' \/ fetches'[q] = 1 \/ csv'[q] = "200"
        BY DEF Scheduled
      <3>1. state = "open" /\ fetches[p] = 1
        BY <2>2 DEF IInv, TypeOK, ShutIsIdle, Fetched, FetchedOncePerRun
      <3>2. urlStatus[q] # "unknown" \/ q \in crawledUrls \/ q = p \/ q \in new
        BY <2>1, <2>2 DEF Unseen
      <3>3. CASE q \in new
        BY <3>1, <3>3, <2>2
      <3>4. CASE q = p
        BY <3>1, <3>4, <2>2
      <3>5. CASE (urlStatus[q] # "unknown" \/ q \in crawledUrls) /\ q # p
        BY <3>1, <3>5, <2>2 DEF IInv, Scheduled
      <3> QED BY <3>2, <3>3, <3>4, <3>5
    <2> QED BY <2>3, <2>4, <2>5, <2>6, <2>7 DEF IInv
  <1>8. ASSUME NEW p \in Pages, NEW s \in Status, CrawlFails(p, s) PROVE IInv'
    <2> DEFINE M == Marked(p, s, {})
    <2>1. s # "unknown" /\ {} \in SUBSET Pages
      BY <1>8 DEF CrawlFails, Failures
    <2>2. /\ M \in [Pages -> Status] /\ M[p] = s
          /\ \A q \in Pages : urlStatus[q] # "unknown" => M[q] # "unknown"
          /\ \A q \in Pages \ {p} : urlStatus[q] = "200" => M[q] = "200"
          /\ \A q \in Pages : M[q] # "unknown" => urlStatus[q] # "unknown" \/ q = p
      BY <2>1, MarkedKeeps DEF IInv
    <2>3. /\ phase = "crawling" /\ phase' = phase /\ p \in running
          /\ pending' \subseteq pending
          /\ running' = running \ {p}
          /\ \/ /\ pending' = pending
                /\ state' = IF state = "open" /\ pending = {} /\ running = {p}
                            THEN "shut" ELSE state
             \/ state' = "halted"
          /\ urlStatus' = M
          /\ statusCode' = [statusCode EXCEPT ![p] = s]
          /\ UNCHANGED <<crawledUrls, csv, sitemap, fetches, expanded, saved>>
      BY <1>8 DEF CrawlFails, Settle, Halt, AcceptAll, IdleAfter
    <2> HIDE DEF M
    <2>4. TypeOK' /\ FetchedOncePerRun' /\ FrontierSaved'
      BY <2>1, <2>2, <2>3 DEF IInv, TypeOK, FetchedOncePerRun, FrontierSaved, Status
    <2>5. Kept' /\ Frontier'
      BY <2>2, <2>3 DEF IInv, TypeOK, Kept, Frontier, InRun
    <2>6. Statuses'
      BY <2>2, <2>3 DEF IInv, TypeOK, Statuses, InRun
    <2>7. Fetched' /\ ShutIsIdle'
      BY <2>3 DEF IInv, TypeOK, Fetched, ShutIsIdle
    <2>8. Scheduled'
      <3>1. fetches[p] = 1
        BY <2>3 DEF IInv, TypeOK, Fetched, FetchedOncePerRun
      <3> QED BY <3>1, <2>2, <2>3 DEF IInv, TypeOK, Scheduled, ShutIsIdle, Fetched
    <2> QED BY <2>4, <2>5, <2>6, <2>7, <2>8 DEF IInv
  <1>9. CASE UNCHANGED vars
    BY <1>9 DEF IInv, TypeOK, FetchedOncePerRun, FrontierSaved, Kept, Frontier, Fetched,
                Scheduled, ShutIsIdle, Statuses, InRun, Listed, vars, runVars, poolVars
  <1> QED BY <1>1, <1>2, <1>3, <1>4, <1>5, <1>6, <1>7, <1>8, <1>9 DEF Next

\* What the tables hold keeps its type, for any site.
THEOREM TypeCorrect == Spec => []TypeOK
  <1>1. Spec => []IInv
    BY InitInv, StepInv, PTL DEF Spec
  <1>2. IInv => TypeOK
    BY DEF IInv
  <1> QED BY <1>1, <1>2, PTL

\* makeCrawlJob: no page is fetched twice in a run.
THEOREM FetchedOnce == Spec => []FetchedOncePerRun
  <1>1. Spec => []IInv
    BY InitInv, StepInv, PTL DEF Spec
  <1>2. IInv => FetchedOncePerRun
    BY DEF IInv
  <1> QED BY <1>1, <1>2, PTL

\* writeSitemapHalt and loadSitemapHalt: the file names every page that the
\* pages it counts as read lead to, so a later run can go on from it.
THEOREM FrontierIsSaved == Spec => []FrontierSaved
  <1>1. Spec => []IInv
    BY InitInv, StepInv, PTL DEF Spec
  <1>2. IInv => FrontierSaved
    BY DEF IInv
  <1> QED BY <1>1, <1>2, PTL

\* main() and makeCrawlJob: what is known is queued, fetched or done with.
THEOREM NothingLeftOut == Spec => []KnownIsScheduled
  <1>1. Spec => []IInv
    BY InitInv, StepInv, PTL DEF Spec
  <1>2. IInv => KnownIsScheduled
    BY DEF IInv, Scheduled, KnownIsScheduled
  <1> QED BY <1>1, <1>2, PTL

\* writeSitemapXml: what is listed answered 200.
THEOREM ListedAnswered == Spec => []SitemapAgrees
  <1>1. Spec => []IInv
    BY InitInv, StepInv, PTL DEF Spec
  <1>2. IInv => SitemapAgrees
    BY DEF IInv, TypeOK, Statuses, InRun, SitemapAgrees, Listed
  <1> QED BY <1>1, <1>2, PTL

\* writeSitemapHalt overwrites the file only with a table that knows as much.
THEOREM FileNeverForgets == Spec => FileOnlyGrows
  <1>1. Spec => []IInv
    BY InitInv, StepInv, PTL DEF Spec
  <1>2. IInv /\ [Next]_vars => [\A p \in Pages : csv[p] # "unknown" => csv'[p] # "unknown"]_vars
    <2> SUFFICES ASSUME IInv, Next, NEW p \in Pages, csv[p] # "unknown"
                 PROVE  csv'[p] # "unknown"
      OBVIOUS
    <2>1. CASE WriteHalt
      BY <2>1 DEF IInv, Kept, InRun, WriteHalt
    <2>2. CASE ~WriteHalt
      BY <2>2 DEF Next, StartRun, PoolDone, WriteSitemap, Killed, StartCrawl, CrawlSucceeds,
                  CrawlFails
    <2> QED BY <2>1, <2>2
  <1> QED BY <1>1, <1>2, PTL DEF Spec, FileOnlyGrows

=============================================================================
