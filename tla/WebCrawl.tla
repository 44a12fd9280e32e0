------------------------------ MODULE WebCrawl ------------------------------
(***************************************************************************)
(* Crawl jobs, api/routers/web_search.py (_run_crawl), and what they run:  *)
(* the crawler and its frontier (search_engine/crawler) and the ingestor   *)
(* (search_engine/ingest) that writes each page to the table of vectors    *)
(* and to a BM25 index.  A job loads the collection's BM25 file when it    *)
(* starts and saves its copy when it ends, unless it raises; jobs run in   *)
(* threads.  The site is external: it does not change during a behaviour.  *)
(***************************************************************************)
EXTENDS Integers, Sequences, SequencesExt, FiniteSets

CONSTANTS
  Pages,
  Seeds,      \* the pages every job starts from
  Sites,      \* sites: links of a page, and its kind
  CrawlJobs,  \* bound: each job runs once
  MaxPages,   \* config.max_pages and config.max_depth
  MaxDepth,
  MaxCrashes  \* bound: process crashes

\* What fetching a page gives: a text of its own, one without a word of Latin letters or
\* digits, the text of a page seen before (all copies share one), too little text, an
\* error; or robots.txt or the host forbid it.
PageKinds == {"text", "wordless", "copy", "thin", "error", "robots", "foreign"}

ASSUME CrawlAssumption ==
  /\ Seeds \subseteq Pages
  /\ \A s \in Sites : s.links \in [Pages -> SUBSET Pages] /\ s.kind \in [Pages -> PageKinds]
  /\ MaxPages \in Nat /\ MaxDepth \in Nat /\ MaxCrashes \in Nat

VARIABLES
  site,      \* the site
  crawlPc,   \* crawlPc[j]: "new", "pick", "fetch", "ingest", "write", "ended", "failed"
  added,     \* added[j]: the pages in j's frontier, in the order they were added
  status,    \* status[j][p]: the row's status, "none" without a row
  depth,     \* depth[j][p]: the row's depth
  current,   \* current[j]: the page j works on
  crawled,   \* crawled[j]: pages_crawled
  copySeen,  \* copySeen[j]: the text of the copies is among j's fingerprints
  bm25,      \* bm25[j]: documents of j's BM25 index
  dense,     \* rows of the table of vectors
  sparse,    \* documents of the BM25 file, {} when it is missing or does not parse
  crashes,   \* crashes so far
  expanded,  \* history: expanded[j], pages whose links j followed
  fetches,   \* history: fetches[j][p], counted up to 2
  atRisk     \* history: rows whose BM25 entry a failed job or an overlapping one cost

crawlState == <<crawlPc, added, status, depth, current, crawled, copySeen, bm25, expanded, fetches>>
crawlVars == <<crawlState, site, dense, sparse, crashes, atRisk>>

CrawlInit ==
  /\ site \in Sites
  /\ crawlPc = [j \in CrawlJobs |-> "new"]
  /\ added = [j \in CrawlJobs |-> <<>>]
  /\ status = [j \in CrawlJobs |-> [p \in Pages |-> "none"]]
  /\ depth = [j \in CrawlJobs |-> [p \in Pages |-> 0]]
  /\ current = [j \in CrawlJobs |-> CHOOSE p \in Pages : TRUE]
  /\ crawled = [j \in CrawlJobs |-> 0]
  /\ copySeen = [j \in CrawlJobs |-> FALSE]
  /\ bm25 = [j \in CrawlJobs |-> {}]
  /\ dense = {} /\ sparse = {} /\ crashes = 0 /\ atRisk = {}
  /\ expanded = [j \in CrawlJobs |-> {}]
  /\ fetches = [j \in CrawlJobs |-> [p \in Pages |-> 0]]

Running(j) == crawlPc[j] \notin {"new", "ended", "failed"}

\* Pages whose text the BM25 index finds no token in.
Wordless == {p \in Pages : site.kind[p] = "wordless"}

-----------------------------------------------------------------------------
(* Frontier *)

\* Buggy variant: a page that failed is pending again.
SetStatusRetry(j, p, s) ==
  status' = [status EXCEPT ![j][p] = IF s = "failed" THEN "pending" ELSE s]

SetStatus(j, p, s) == status' = [status EXCEPT ![j][p] = s]

\* Buggy variant: a page that is there is enqueued again.
NewOnes(j, pages) == pages

\* add() ignores a page that has a row.
Unseen(j, pages) == {p \in pages : status[j][p] = "none"}

\* Buggy variant: the page whose links are added stays in progress.
AddPagesOnly(j, pages, d) ==
  LET new == Unseen(j, pages)
  IN /\ \E order \in SetToSeqs(new) : added' = [added EXCEPT ![j] = @ \o order]
     /\ status' = [status EXCEPT ![j] = [p \in Pages |-> IF p \in new THEN "pending" ELSE @[p]]]
     /\ depth' = [depth EXCEPT ![j] = [p \in Pages |-> IF p \in new THEN d ELSE @[p]]]

\* Pages are added in any order; the page whose links they are is done with before.
AddPages(j, pages, d) ==
  LET new == Unseen(j, pages)
  IN /\ \E order \in SetToSeqs(new) : added' = [added EXCEPT ![j] = @ \o order]
     /\ status' = [status EXCEPT ![j] =
          [p \in Pages |-> IF p \in new THEN "pending"
                           ELSE IF Running(j) /\ p = current[j] THEN "done" ELSE @[p]]]
     /\ depth' = [depth EXCEPT ![j] = [p \in Pages |-> IF p \in new THEN d ELSE @[p]]]

Priority(p) == IF p \in Seeds THEN 1 ELSE 0
Position(j, p) == CHOOSE i \in DOMAIN added[j] : added[j][i] = p

\* next() orders the pending rows by priority, then depth, then age.
Precedes(j, p, q) ==
  \/ Priority(p) > Priority(q)
  \/ /\ Priority(p) = Priority(q)
     /\ \/ depth[j][p] < depth[j][q]
        \/ depth[j][p] = depth[j][q] /\ Position(j, p) < Position(j, q)

Pending(j) == {p \in Pages : status[j][p] = "pending"}

-----------------------------------------------------------------------------
(* _run_crawl and Crawler.crawl *)

StartCrawl(j) ==
  /\ crawlPc[j] = "new"
  /\ AddPages(j, Seeds, 0)
  /\ bm25' = [bm25 EXCEPT ![j] = sparse]
  /\ crawlPc' = [crawlPc EXCEPT ![j] = "pick"]
  /\ UNCHANGED <<current, crawled, copySeen, expanded, fetches, site, dense, sparse, crashes, atRisk>>

\* A page that is too deep, on another host or forbidden is done with, unfetched.
Skipped(j, p) == depth[j][p] > MaxDepth \/ site.kind[p] \in {"foreign", "robots"}

Pick(j) ==
  /\ crawlPc[j] = "pick" /\ crawled[j] < MaxPages
  /\ \E p \in Pending(j) :
       /\ \A q \in Pending(j) \ {p} : Precedes(j, p, q)
       /\ IF Skipped(j, p) THEN SetStatus(j, p, "done") /\ UNCHANGED <<crawlPc, current>>
          ELSE /\ SetStatus(j, p, "in_progress")
               /\ current' = [current EXCEPT ![j] = p]
               /\ crawlPc' = [crawlPc EXCEPT ![j] = "fetch"]
  /\ UNCHANGED <<added, depth, crawled, copySeen, bm25, expanded, fetches, site, dense, sparse,
                 crashes, atRisk>>

\* The loop ends; then flush() opens, and thereby empties, the collection's BM25 file.
EndCrawl(j) ==
  /\ crawlPc[j] = "pick" /\ (crawled[j] >= MaxPages \/ Pending(j) = {})
  /\ sparse' = {}
  /\ crawlPc' = [crawlPc EXCEPT ![j] = "write"]
  /\ UNCHANGED <<added, status, depth, current, crawled, copySeen, bm25, expanded, fetches, site,
                 dense, crashes, atRisk>>

\* _enqueue_links: links to other hosts are left out.
Follow(j, p) ==
  /\ IF depth[j][p] + 1 > MaxDepth THEN AddPages(j, {}, 0)
     ELSE AddPages(j, {q \in site.links[p] : site.kind[q] # "foreign"}, depth[j][p] + 1)
  /\ expanded' = [expanded EXCEPT ![j] = @ \cup {p}]

\* An error, a page without much text (whose links count) and a copy are not ingested.
Fetch(j) ==
  LET p == current[j]
      known == site.kind[p] = "copy" /\ copySeen[j]
  IN /\ crawlPc[j] = "fetch"
     /\ fetches' = [fetches EXCEPT ![j][p] = IF @ = 2 THEN 2 ELSE @ + 1]
     /\ \/ /\ site.kind[p] = "error" /\ SetStatus(j, p, "failed")
           /\ UNCHANGED <<added, depth, expanded, copySeen>>
        \/ /\ site.kind[p] = "thin" /\ Follow(j, p)
           /\ UNCHANGED copySeen
        \/ /\ known /\ SetStatus(j, p, "done")
           /\ UNCHANGED <<added, depth, expanded, copySeen>>
        \/ /\ site.kind[p] \in {"text", "wordless", "copy"} /\ ~known
           /\ copySeen' = [copySeen EXCEPT ![j] = @ \/ site.kind[p] = "copy"]
           /\ UNCHANGED <<added, status, depth, expanded>>
     /\ crawlPc' = [crawlPc EXCEPT ![j] =
          IF site.kind[p] \in {"text", "wordless", "copy"} /\ ~known THEN "ingest" ELSE "pick"]
     /\ UNCHANGED <<current, crawled, bm25, site, dense, sparse, crashes, atRisk>>

\* Buggy variant: pages go to the table only.
IngestDense(j, p) == dense' = dense \cup {p} /\ UNCHANGED <<bm25, atRisk>>

\* ingest_page: the embedding may raise before anything is written; a row may be refused,
\* which goes unnoticed; add_document ignores a text without tokens.  The callback logs
\* exceptions, the page counts as crawled.
IngestPage(j, p) ==
  \/ /\ dense' \in {dense, dense \cup {p}}
     /\ bm25' = [bm25 EXCEPT ![j] = @ \cup ({p} \ Wordless)]
     /\ UNCHANGED atRisk
  \/ UNCHANGED <<dense, bm25, atRisk>>

Ingest(j) ==
  LET p == current[j]
  IN /\ crawlPc[j] = "ingest"
     /\ IngestPage(j, p)
     /\ crawled' = [crawled EXCEPT ![j] = @ + 1]
     /\ Follow(j, p)
     /\ crawlPc' = [crawlPc EXCEPT ![j] = "pick"]
     /\ UNCHANGED <<current, copySeen, fetches, site, sparse, crashes>>

\* BM25Index.save: the file becomes this job's copy.  What other jobs saved since this one
\* loaded is gone, and what it saves will go when one that runs now saves its own.
SaveSparse(j) ==
  /\ crawlPc[j] = "write"
  /\ sparse' = bm25[j]
  /\ crawlPc' = [crawlPc EXCEPT ![j] = "ended"]
  /\ atRisk' = atRisk \cup (IF \E i \in CrawlJobs \ {j} : Running(i) THEN bm25[j] ELSE {})
  /\ UNCHANGED <<added, status, depth, current, crawled, copySeen, bm25, expanded, fetches, site,
                 dense, crashes>>

\* A job raises, as on a link that urljoin rejects: it fails, its frontier and its copy of
\* the index are dropped and nothing is saved.  It may raise once its page is ingested.
JobRaises(j) ==
  /\ Running(j)
  /\ crawlPc' = [crawlPc EXCEPT ![j] = "failed"]
  /\ IF crawlPc[j] = "ingest" THEN \E S \in SUBSET {current[j]} :
       /\ dense' = dense \cup S
       /\ bm25' = [bm25 EXCEPT ![j] = @ \cup (S \ Wordless)]
     ELSE UNCHANGED <<dense, bm25>>
  /\ atRisk' = atRisk \cup (bm25'[j] \ sparse)
  /\ UNCHANGED <<added, status, depth, current, crawled, copySeen, expanded, fetches, site, sparse,
                 crashes>>

\* What the running jobs' copies of the index hold.
RunningCopies == UNION {bm25[j] : j \in {i \in CrawlJobs : Running(i)}}

\* The process dies: jobs and frontiers are in memory, rows and file stay as they are.
CrashCrawls ==
  /\ crashes < MaxCrashes
  /\ crashes' = crashes + 1
  /\ crawlPc' = [j \in CrawlJobs |-> IF Running(j) THEN "failed" ELSE crawlPc[j]]
  /\ atRisk' = atRisk \cup (RunningCopies \ sparse)
  /\ UNCHANGED <<added, status, depth, current, crawled, copySeen, bm25, expanded, fetches, site,
                 dense, sparse>>

CrawlStep(j) ==
  Pick(j) \/ EndCrawl(j) \/ Fetch(j) \/ Ingest(j) \/ SaveSparse(j)

CrawlNext ==
  \/ \E j \in CrawlJobs : StartCrawl(j) \/ CrawlStep(j) \/ JobRaises(j)
  \/ CrashCrawls

CrawlSpec == CrawlInit /\ [][CrawlNext]_crawlVars

\* A job's thread is scheduled and every fetch is answered or times out.
CrawlFairness == \A j \in CrawlJobs : WF_crawlVars(CrawlStep(j))

-----------------------------------------------------------------------------
(* Properties *)

\* The frontier explores breadth first: a page's depth is one more than that of the
\* shallowest followed page that links to it, so no page is cut off by max_depth that a
\* shorter way reaches; and no page is fetched twice.
CrawlIsBreadthFirst ==
  \A j \in CrawlJobs :
    /\ \A p \in Pages : fetches[j][p] <= 1
    /\ \A p \in expanded[j] : \A q \in site.links[p] :
         depth[j][p] < MaxDepth /\ site.kind[q] # "foreign"
           => status[j][q] # "none" /\ depth[j][q] <= depth[j][p] + 1
    /\ \A q \in Pages :
         status[j][q] = "none" \/ q \in Seeds
         \/ \E p \in expanded[j] : q \in site.links[p] /\ depth[j][q] = depth[j][p] + 1

\* A job that ends below max_pages without having failed has settled every page it can
\* reach within max_depth through pages it followed.
CrawlCovers ==
  \A j \in CrawlJobs :
    crawlPc[j] \in {"write", "ended"} /\ crawled[j] < MaxPages
      => \A p \in Pages : status[j][p] \in {"none", "done", "failed"}

\* When no job runs, every row has its entry in the BM25 file, unless its text has no
\* token, or its job failed, or one that ran beside another cost it.
RowsHaveSparseEntry ==
  (\A j \in CrawlJobs : ~Running(j)) => dense \subseteq sparse \cup atRisk \cup Wordless

\* Jobs that were started end or fail.
CrawlEnds == (\E j \in CrawlJobs : Running(j)) ~> (\A j \in CrawlJobs : ~Running(j))
=============================================================================
