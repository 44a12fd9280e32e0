-------------------------- MODULE Services_proofs ---------------------------
(***************************************************************************)
(* Proofs about the services that run jobs and threads, for any number of  *)
(* them: CdcConnector mirrors its table, WebCrawl goes breadth first and   *)
(* covers what it can reach, StreamingSearch tells every subscriber.       *)
(* Lists are those of Stores_proofs.                                       *)
(***************************************************************************)
EXTENDS WebCrawl, StreamingSearch, CdcConnector, Stores_proofs

-----------------------------------------------------------------------------
(* WebCrawl: the inductive invariant. *)

CrawlStages == {"new", "pick", "fetch", "ingest", "write", "ended", "failed"}
Statuses == {"none", "pending", "in_progress", "done", "failed"}

CrawlTypes ==
  /\ site \in Sites /\ crawlPc \in [CrawlJobs -> CrawlStages]
  /\ status \in [CrawlJobs -> [Pages -> Statuses]] /\ depth \in [CrawlJobs -> [Pages -> Nat]]
  /\ DOMAIN current = CrawlJobs /\ crawled \in [CrawlJobs -> Nat] /\ crashes \in Nat
  /\ expanded \in [CrawlJobs -> SUBSET Pages] /\ fetches \in [CrawlJobs -> [Pages -> Nat]]

AtPage(j) == crawlPc[j] \in {"fetch", "ingest"}
SettledPages(j) == {p \in Pages : status[j][p] \notin {"none", "pending"}}

\* The page a job is at is the only one in progress, unless it failed.
OneInProgress(j) ==
  /\ AtPage(j) => current[j] \in Pages /\ status[j][current[j]] = "in_progress"
  /\ \A p \in Pages : status[j][p] = "in_progress" =>
       (AtPage(j) /\ p = current[j]) \/ crawlPc[j] = "failed"

\* A job ends at its limit or with nothing pending.
EndsCovered(j) ==
  crawlPc[j] \in {"write", "ended"} => crawled[j] >= MaxPages \/ Pending(j) = {}

\* A page is fetched when it is the current one, and settled then.
FetchedOnce(j) ==
  /\ \A p \in Pages : fetches[j][p] <= 1
  /\ \A p \in Pages : fetches[j][p] # 0 => p \in SettledPages(j)
  /\ crawlPc[j] = "fetch" => fetches[j][current[j]] = 0

\* The front: what is settled is no deeper than what is pending, the pending pages are of
\* two depths at most, and the page a job is at is as deep as any that is settled.
FrontOrdered(j) ==
  /\ \A p \in SettledPages(j), q \in Pending(j) : depth[j][p] <= depth[j][q]
  /\ \A p, q \in Pending(j) : depth[j][p] <= depth[j][q] + 1
  /\ AtPage(j) =>
       /\ \A p \in SettledPages(j) : depth[j][p] <= depth[j][current[j]]
       /\ \A p \in Pending(j) : depth[j][p] <= depth[j][current[j]] + 1

\* Where depths come from.
Reached(j) ==
  /\ \A p \in Seeds : depth[j][p] = 0 /\ (crawlPc[j] # "new" => status[j][p] # "none")
  /\ crawlPc[j] = "new" => \A p \in Pages : status[j][p] = "none"
  /\ \A p \in expanded[j] : p \in SettledPages(j)
  /\ \A p \in expanded[j] : \A q \in site.links[p] :
       depth[j][p] < MaxDepth /\ site.kind[q] # "foreign"
         => status[j][q] # "none" /\ depth[j][q] <= depth[j][p] + 1
  /\ \A q \in Pages :
       status[j][q] = "none" \/ q \in Seeds
       \/ \E p \in expanded[j] : q \in site.links[p] /\ depth[j][q] = depth[j][p] + 1

JobInv(j) == OneInProgress(j) /\ EndsCovered(j) /\ FetchedOnce(j) /\ FrontOrdered(j) /\ Reached(j)

\* A row that should have an entry and has none in the file has one in the copy of a job
\* that will save it.
SparseKept ==
  /\ dense \subseteq sparse \cup atRisk \cup Wordless \cup UNION {bm25[j] : j \in {i \in CrawlJobs : Running(i)}}
  /\ \A j \in CrawlJobs : Running(j) => sparse \subseteq bm25[j] \cup atRisk
  /\ DOMAIN bm25 = CrawlJobs

CrawlInv == CrawlTypes /\ \A j \in CrawlJobs : JobInv(j)

LEMMA CrawlInvInit == CrawlInit => CrawlInv /\ SparseKept
<1> SUFFICES ASSUME CrawlInit PROVE CrawlInv /\ SparseKept
  OBVIOUS
<1> USE CrawlAssumption
<1>1. CrawlTypes
  BY DEF CrawlInit, CrawlTypes, CrawlStages, Statuses
<1>2. ASSUME NEW j \in CrawlJobs PROVE JobInv(j)
  <2>1. /\ crawlPc[j] = "new" /\ expanded[j] = {}
        /\ \A p \in Pages : status[j][p] = "none" /\ depth[j][p] = 0 /\ fetches[j][p] = 0
    BY DEF CrawlInit
  <2> QED
    BY <2>1 DEF JobInv, OneInProgress, EndsCovered, FetchedOnce, FrontOrdered, Reached, AtPage, SettledPages, Pending
<1>3. SparseKept
  BY DEF CrawlInit, SparseKept, Running
<1> QED
  BY <1>1, <1>2, <1>3 DEF CrawlInv

\* A job that a step does not concern.
SameJob(i) ==
  /\ crawlPc'[i] = crawlPc[i] /\ status'[i] = status[i] /\ depth'[i] = depth[i]
  /\ current'[i] = current[i] /\ crawled'[i] = crawled[i] /\ expanded'[i] = expanded[i]
  /\ fetches'[i] = fetches[i] /\ site' = site /\ crashes' = crashes

LEMMA OtherJob ==
  ASSUME NEW i \in CrawlJobs, JobInv(i), SameJob(i)
  PROVE  JobInv(i)'
<1>1. (OneInProgress(i) /\ EndsCovered(i) /\ FetchedOnce(i))'
  BY DEF JobInv, SameJob, OneInProgress, EndsCovered, FetchedOnce, AtPage, SettledPages, Pending
<1>2. FrontOrdered(i)'
  BY DEF JobInv, SameJob, FrontOrdered, AtPage, SettledPages, Pending
<1>3. Reached(i)'
  BY DEF JobInv, SameJob, Reached, SettledPages
<1> QED
  BY <1>1, <1>2, <1>3 DEF JobInv

\* What is written to the frontier.
LEMMA StatusSet ==
  ASSUME CrawlTypes, NEW j \in CrawlJobs, NEW p \in Pages, NEW s \in Statuses, SetStatus(j, p, s)
  PROVE  /\ status' \in [CrawlJobs -> [Pages -> Statuses]]
         /\ \A i \in CrawlJobs \ {j} : status'[i] = status[i]
         /\ status'[j][p] = s /\ \A q \in Pages \ {p} : status'[j][q] = status[j][q]
  BY DEF CrawlTypes, SetStatus

LEMMA PagesAdded ==
  ASSUME CrawlTypes, NEW j \in CrawlJobs, NEW S \in SUBSET Pages, NEW d \in Nat, AddPages(j, S, d)
  PROVE  /\ status' \in [CrawlJobs -> [Pages -> Statuses]] /\ depth' \in [CrawlJobs -> [Pages -> Nat]]
         /\ \A i \in CrawlJobs \ {j} : status'[i] = status[i] /\ depth'[i] = depth[i]
         /\ \A p \in Pages :
              IF p \in S /\ status[j][p] = "none" THEN status'[j][p] = "pending" /\ depth'[j][p] = d
              ELSE /\ depth'[j][p] = depth[j][p]
                   /\ status'[j][p] = IF Running(j) /\ p = current[j] THEN "done" ELSE status[j][p]
<1> DEFINE new == Unseen(j, S)
           row == [p \in Pages |-> IF p \in new THEN "pending"
                                  ELSE IF Running(j) /\ p = current[j] THEN "done" ELSE status[j][p]]
           deep == [p \in Pages |-> IF p \in new THEN d ELSE depth[j][p]]
<1>1. status' = [status EXCEPT ![j] = row] /\ depth' = [depth EXCEPT ![j] = deep]
  BY DEF AddPages
<1>2. row \in [Pages -> Statuses] /\ deep \in [Pages -> Nat]
  BY DEF CrawlTypes, Statuses
<1>3. \A p \in Pages : p \in new <=> p \in S /\ status[j][p] = "none"
  BY DEF Unseen
<1>4. \A p \in Pages :
        /\ row[p] = IF p \in new THEN "pending"
                    ELSE IF Running(j) /\ p = current[j] THEN "done" ELSE status[j][p]
        /\ deep[p] = IF p \in new THEN d ELSE depth[j][p]
  OBVIOUS
<1> HIDE DEF row, deep, new
<1>5. /\ status' \in [CrawlJobs -> [Pages -> Statuses]] /\ depth' \in [CrawlJobs -> [Pages -> Nat]]
      /\ \A i \in CrawlJobs \ {j} : status'[i] = status[i] /\ depth'[i] = depth[i]
      /\ status'[j] = row /\ depth'[j] = deep
  BY <1>1, <1>2 DEF CrawlTypes
<1> QED
  BY <1>3, <1>4, <1>5

\* The order in which pages are picked is by depth, for the pages of higher priority are the
\* seeds.
LEMMA PickedIsShallowest ==
  ASSUME CrawlInv, NEW j \in CrawlJobs, NEW p \in Pending(j),
         \A q \in Pending(j) \ {p} : Precedes(j, p, q)
  PROVE  \A q \in Pending(j) : depth[j][p] <= depth[j][q]
<1> SUFFICES ASSUME NEW q \in Pending(j), q # p PROVE depth[j][p] <= depth[j][q]
  BY DEF CrawlInv, CrawlTypes, Pending
<1>1. depth[j][p] \in Nat /\ depth[j][q] \in Nat
  BY DEF CrawlInv, CrawlTypes, Pending
<1>2. \A s \in Seeds : depth[j][s] = 0
  BY DEF CrawlInv, JobInv, Reached
<1>3. Precedes(j, p, q)
  OBVIOUS
<1>4. CASE Priority(p) > Priority(q)
  BY <1>1, <1>2, <1>4 DEF Priority
<1>5. CASE ~(Priority(p) > Priority(q))
  BY <1>1, <1>3, <1>5 DEF Precedes
<1> QED
  BY <1>4, <1>5

LEMMA StartCrawlKeeps ==
  ASSUME CrawlInv, NEW j \in CrawlJobs, StartCrawl(j)
  PROVE  CrawlInv'
<1> USE CrawlAssumption
<1>1. /\ crawlPc[j] = "new" /\ crawlPc' = [crawlPc EXCEPT ![j] = "pick"] /\ AddPages(j, Seeds, 0)
      /\ UNCHANGED <<current, crawled, expanded, fetches, site, crashes>>
  BY DEF StartCrawl
<1>2. CrawlTypes /\ JobInv(j)
  BY DEF CrawlInv
<1>3. /\ status' \in [CrawlJobs -> [Pages -> Statuses]] /\ depth' \in [CrawlJobs -> [Pages -> Nat]]
      /\ \A i \in CrawlJobs \ {j} : status'[i] = status[i] /\ depth'[i] = depth[i]
      /\ \A p \in Pages :
           IF p \in Seeds /\ status[j][p] = "none" THEN status'[j][p] = "pending" /\ depth'[j][p] = 0
           ELSE /\ depth'[j][p] = depth[j][p]
                /\ status'[j][p] = IF Running(j) /\ p = current[j] THEN "done" ELSE status[j][p]
  BY <1>1, <1>2, PagesAdded, ZenonT(40)
<1>4. CrawlTypes'
  BY <1>1, <1>2, <1>3 DEF CrawlTypes, CrawlStages
<1>5. /\ crawlPc'[j] = "pick"
      /\ \A p \in Pages : /\ p \in Seeds => status'[j][p] = "pending" /\ depth'[j][p] = 0
                          /\ p \notin Seeds => status'[j][p] = "none"
  BY <1>1, <1>2, <1>3 DEF CrawlTypes, JobInv, Reached, Running
<1>6. SettledPages(j) = {} /\ SettledPages(j)' = {} /\ Pending(j)' = Seeds
  BY <1>1, <1>2, <1>5 DEF SettledPages, Pending, JobInv, Reached
<1>7. expanded[j] = {} /\ \A p \in Pages : fetches[j][p] = 0
  BY <1>2, <1>6 DEF JobInv, Reached, FetchedOnce
<1>8. JobInv(j)'
  <2>1. (OneInProgress(j) /\ EndsCovered(j) /\ FetchedOnce(j) /\ FrontOrdered(j))'
    BY <1>1, <1>5, <1>6, <1>7 DEF OneInProgress, EndsCovered, FetchedOnce, FrontOrdered, AtPage
  <2>2. Reached(j)'
    BY <1>1, <1>5, <1>7 DEF Reached
  <2> QED
    BY <2>1, <2>2 DEF JobInv
<1>9. ASSUME NEW i \in CrawlJobs \ {j} PROVE JobInv(i)'
  <2>1. SameJob(i) /\ JobInv(i)
    BY <1>1, <1>2, <1>3 DEF SameJob, CrawlTypes, CrawlInv
  <2> QED
    BY <2>1, OtherJob
<1> QED
  BY <1>4, <1>8, <1>9 DEF CrawlInv

LEMMA PickKeeps ==
  ASSUME CrawlInv, NEW j \in CrawlJobs, Pick(j)
  PROVE  CrawlInv'
<1>1. CrawlTypes /\ JobInv(j) /\ crawlPc[j] = "pick"
  BY DEF CrawlInv, Pick
<1>2. PICK p \in Pending(j) :
        /\ \A q \in Pending(j) \ {p} : Precedes(j, p, q)
        /\ \/ SetStatus(j, p, "done") /\ UNCHANGED <<crawlPc, current>>
           \/ /\ SetStatus(j, p, "in_progress") /\ current' = [current EXCEPT ![j] = p]
              /\ crawlPc' = [crawlPc EXCEPT ![j] = "fetch"]
  BY DEF Pick
<1>3. UNCHANGED <<depth, crawled, expanded, fetches, site, crashes>>
  BY DEF Pick
<1>4. p \in Pages /\ status[j][p] = "pending" /\ \A q \in Pending(j) : depth[j][p] <= depth[j][q]
  BY <1>2, PickedIsShallowest DEF Pending
<1>5. /\ status' \in [CrawlJobs -> [Pages -> Statuses]]
      /\ \A i \in CrawlJobs \ {j} : status'[i] = status[i]
      /\ \A q \in Pages \ {p} : status'[j][q] = status[j][q]
      /\ \/ status'[j][p] = "done" /\ UNCHANGED <<crawlPc, current>>
         \/ /\ status'[j][p] = "in_progress" /\ current' = [current EXCEPT ![j] = p]
            /\ crawlPc' = [crawlPc EXCEPT ![j] = "fetch"]
  <2>1. CASE SetStatus(j, p, "done") /\ UNCHANGED <<crawlPc, current>>
    BY <1>1, <1>4, <2>1, StatusSet DEF Statuses
  <2>2. CASE /\ SetStatus(j, p, "in_progress") /\ current' = [current EXCEPT ![j] = p]
             /\ crawlPc' = [crawlPc EXCEPT ![j] = "fetch"]
    BY <1>1, <1>4, <2>2, StatusSet DEF Statuses
  <2> QED
    BY <1>2, <2>1, <2>2
<1>6. CrawlTypes'
  BY <1>1, <1>3, <1>5 DEF CrawlTypes, CrawlStages
<1>7. SettledPages(j)' = SettledPages(j) \cup {p} /\ Pending(j)' = Pending(j) \ {p}
  BY <1>4, <1>5 DEF SettledPages, Pending
<1>8. (crawlPc'[j] = "pick" /\ status'[j][p] = "done") \/ (crawlPc'[j] = "fetch" /\ current'[j] = p /\ status'[j][p] = "in_progress")
  BY <1>1, <1>5 DEF CrawlTypes
<1>9. JobInv(j)'
  <2>1. OneInProgress(j)'
    BY <1>1, <1>4, <1>5, <1>8 DEF JobInv, OneInProgress, AtPage
  <2>2. EndsCovered(j)'
    BY <1>8 DEF EndsCovered
  <2>3. FetchedOnce(j)'
    <3>1. fetches[j][p] = 0
      BY <1>1, <1>4 DEF JobInv, FetchedOnce, SettledPages
    <3> QED
      BY <1>1, <1>3, <1>7, <1>8, <3>1 DEF JobInv, FetchedOnce
  <2>4. FrontOrdered(j)'
    <3>1. FrontOrdered(j) /\ \A q \in Pages : depth[j][q] \in Nat
      BY <1>1 DEF JobInv, CrawlTypes
    <3>2. SettledPages(j) \subseteq Pages /\ Pending(j) \subseteq Pages
      BY DEF SettledPages, Pending
    <3> QED
      BY <1>2, <1>3, <1>4, <1>7, <1>8, <3>1, <3>2 DEF FrontOrdered, AtPage
  <2>5. Reached(j)'
    <3>1. \A q \in Pages : status'[j][q] = "none" <=> status[j][q] = "none"
      BY <1>4, <1>5
    <3>2. crawlPc'[j] # "new" /\ site \in Sites
      BY <1>1, <1>8 DEF CrawlTypes
    <3>3. expanded[j] \subseteq Pages /\ \A q \in Pages : site.links[q] \subseteq Pages
      BY <1>1, <3>2, CrawlAssumption DEF CrawlTypes
    <3>4. Reached(j) /\ UNCHANGED <<depth, expanded, site>> /\ Seeds \subseteq Pages /\ crawlPc[j] # "new"
      BY <1>1, <1>3, CrawlAssumption DEF JobInv
    <3> QED
      BY <1>7, <3>1, <3>2, <3>3, <3>4 DEF Reached
  <2> QED
    BY <2>1, <2>2, <2>3, <2>4, <2>5 DEF JobInv
<1>10. ASSUME NEW i \in CrawlJobs \ {j} PROVE JobInv(i)'
  <2>1. SameJob(i) /\ JobInv(i)
    BY <1>1, <1>3, <1>5 DEF SameJob, CrawlTypes, CrawlInv
  <2> QED
    BY <2>1, OtherJob
<1> QED
  BY <1>6, <1>9, <1>10 DEF CrawlInv

\* The page a job is at, and the links of it that are new.
NewLinks(j) ==
  {q \in site.links[current[j]] :
     depth[j][current[j]] + 1 <= MaxDepth /\ site.kind[q] # "foreign" /\ status[j][q] = "none"}

LEMMA Followed ==
  ASSUME CrawlInv, NEW j \in CrawlJobs, AtPage(j), Follow(j, current[j])
  PROVE  /\ status' \in [CrawlJobs -> [Pages -> Statuses]] /\ depth' \in [CrawlJobs -> [Pages -> Nat]]
         /\ \A i \in CrawlJobs \ {j} : status'[i] = status[i] /\ depth'[i] = depth[i]
         /\ status'[j][current[j]] = "done" /\ NewLinks(j) \subseteq Pages
         /\ \A q \in Pages :
              IF q \in NewLinks(j) THEN status'[j][q] = "pending" /\ depth'[j][q] = depth[j][current[j]] + 1
              ELSE depth'[j][q] = depth[j][q] /\ (q # current[j] => status'[j][q] = status[j][q])
         /\ expanded' = [expanded EXCEPT ![j] = @ \cup {current[j]}]
<1> DEFINE p == current[j]  d == depth[j][p]
           S == IF d + 1 > MaxDepth THEN {} ELSE {q \in site.links[p] : site.kind[q] # "foreign"}
           e == IF d + 1 > MaxDepth THEN 0 ELSE d + 1
<1>1. /\ CrawlTypes /\ p \in Pages /\ status[j][p] = "in_progress" /\ Running(j)
      /\ site.links \in [Pages -> SUBSET Pages] /\ d \in Nat /\ MaxDepth \in Nat
  BY CrawlAssumption DEF CrawlInv, JobInv, OneInProgress, AtPage, Running, CrawlTypes
<1>2. AddPages(j, S, e) /\ expanded' = [expanded EXCEPT ![j] = @ \cup {p}]
  BY DEF Follow
<1>3. S \in SUBSET Pages /\ e \in Nat
  BY <1>1
<1>4. \A q \in Pages : q \in S /\ status[j][q] = "none" <=> q \in NewLinks(j)
  BY <1>1 DEF NewLinks
<1>5. NewLinks(j) # {} => e = d + 1
  BY <1>1 DEF NewLinks
<1>6. NewLinks(j) \subseteq Pages /\ p \notin NewLinks(j)
  BY <1>1 DEF NewLinks
<1> HIDE DEF S, e
<1>7. /\ status' \in [CrawlJobs -> [Pages -> Statuses]] /\ depth' \in [CrawlJobs -> [Pages -> Nat]]
      /\ \A i \in CrawlJobs \ {j} : status'[i] = status[i] /\ depth'[i] = depth[i]
      /\ \A q \in Pages :
           IF q \in S /\ status[j][q] = "none" THEN status'[j][q] = "pending" /\ depth'[j][q] = e
           ELSE /\ depth'[j][q] = depth[j][q]
                /\ status'[j][q] = IF Running(j) /\ q = current[j] THEN "done" ELSE status[j][q]
  BY <1>1, <1>2, <1>3, PagesAdded
<1> QED
  BY <1>1, <1>2, <1>4, <1>5, <1>6, <1>7

\* A page whose links are followed is done with.
LEMMA FollowKeeps ==
  ASSUME CrawlInv, NEW j \in CrawlJobs, AtPage(j), Follow(j, current[j]), crawlPc'[j] = "pick",
         UNCHANGED <<site, crashes>>,
         \A p \in Pages : fetches'[j][p] <= 1 /\ (fetches'[j][p] # 0 => p \in SettledPages(j))
  PROVE  JobInv(j)'
<1> DEFINE p == current[j]  d == depth[j][p]  N == NewLinks(j)
<1>1. /\ CrawlTypes /\ JobInv(j) /\ p \in Pages /\ status[j][p] = "in_progress" /\ d \in Nat
      /\ \A q \in Pages : depth[j][q] \in Nat
      /\ \A q \in Pages : site.links[q] \subseteq Pages
  BY CrawlAssumption DEF CrawlInv, JobInv, OneInProgress, CrawlTypes
<1>2. /\ \A q \in Pages :
           IF q \in N THEN status'[j][q] = "pending" /\ depth'[j][q] = d + 1
           ELSE depth'[j][q] = depth[j][q] /\ (q # p => status'[j][q] = status[j][q])
      /\ status'[j][p] = "done" /\ N \subseteq Pages
      /\ expanded' = [expanded EXCEPT ![j] = @ \cup {p}]
  BY Followed
<1>3. \A q \in N : status[j][q] = "none"
  BY DEF NewLinks
<1>4. SettledPages(j)' = SettledPages(j) /\ Pending(j)' = Pending(j) \cup N
  BY <1>1, <1>2, <1>3 DEF SettledPages, Pending
<1>5. \A q \in SettledPages(j) \cup Pending(j) : depth'[j][q] = depth[j][q] /\ q \in Pages
  BY <1>2, <1>3 DEF SettledPages, Pending
<1>6. OneInProgress(j)'
  BY <1>1, <1>2, <1>3 DEF JobInv, OneInProgress, AtPage
<1>7. EndsCovered(j)' /\ FetchedOnce(j)'
  BY <1>4 DEF EndsCovered, FetchedOnce
<1>8. FrontOrdered(j)'
  <2>1. /\ \A x \in SettledPages(j), y \in Pending(j) : depth[j][x] <= depth[j][y]
        /\ \A x, y \in Pending(j) : depth[j][x] <= depth[j][y] + 1
        /\ \A x \in SettledPages(j) : depth[j][x] <= d
        /\ \A x \in Pending(j) : depth[j][x] <= d + 1
    BY <1>1 DEF JobInv, FrontOrdered
  <2>2. p \in SettledPages(j)
    BY <1>1 DEF SettledPages
  <2>3. \A x \in Pending(j) : d <= depth[j][x]
    BY <2>1, <2>2
  <2>4. \A x \in N : depth'[j][x] = d + 1
    BY <1>2
  <2>5. \A x \in SettledPages(j)', y \in Pending(j)' : depth'[j][x] <= depth'[j][y]
    BY <1>1, <1>4, <1>5, <2>1, <2>4
  <2>6. \A x, y \in Pending(j)' : depth'[j][x] <= depth'[j][y] + 1
    BY <1>1, <1>4, <1>5, <2>1, <2>3, <2>4
  <2> QED
    BY <2>5, <2>6 DEF FrontOrdered, AtPage
<1>9. Reached(j)'
  <2>1. Reached(j) /\ crawlPc[j] # "new" /\ expanded[j] \subseteq Pages /\ Seeds \subseteq Pages
    BY <1>1, CrawlAssumption DEF JobInv, AtPage, CrawlTypes
  <2>2. \A q \in Pages : status[j][q] # "none" => status'[j][q] # "none" /\ depth'[j][q] = depth[j][q]
    BY <1>2, <1>3
  <2>3. expanded'[j] = expanded[j] \cup {p} /\ p \in SettledPages(j)
    BY <1>1, <1>2 DEF CrawlTypes, SettledPages
  <2>4. \A q \in Pages : status[j][q] # "none" => depth[j][q] <= d + 1
    <3> SUFFICES ASSUME NEW q \in Pages, status[j][q] # "none" PROVE depth[j][q] <= d + 1
      OBVIOUS
    <3>1. q \in SettledPages(j) \/ q \in Pending(j)
      BY DEF SettledPages, Pending
    <3> QED
      BY <1>1, <3>1 DEF JobInv, FrontOrdered
  <2>5. \A x \in Seeds : depth'[j][x] = 0
    <3>1. \A x \in Seeds : depth[j][x] = 0 /\ x \notin N
      BY <2>1, <1>3 DEF Reached
    <3> QED
      BY <1>2, <2>1, <3>1
  <2>6. \A x \in Seeds : status'[j][x] # "none"
    BY <2>1, <2>2 DEF Reached
  <2>7. \A x \in expanded'[j] : x \in SettledPages(j)'
    BY <1>4, <2>1, <2>3 DEF Reached
  <2>8. ASSUME NEW x \in expanded'[j], NEW q \in site.links[x], depth'[j][x] < MaxDepth, site.kind[q] # "foreign"
        PROVE  status'[j][q] # "none" /\ depth'[j][q] <= depth'[j][x] + 1
    <3>1. x \in Pages /\ q \in Pages /\ x \in SettledPages(j) /\ depth'[j][x] = depth[j][x]
      BY <1>1, <1>4, <1>5, <2>7
    <3>2. CASE x # p
      <4>1. status[j][q] # "none" /\ depth[j][q] <= depth[j][x] + 1
        BY <2>1, <2>3, <2>8, <3>1, <3>2 DEF Reached
      <4> QED
        BY <2>2, <3>1, <4>1
    <3>3. CASE x = p /\ q \in N
      BY <1>2, <3>1, <3>3, <1>1
    <3>4. CASE x = p /\ q \notin N
      <4>1. d + 1 <= MaxDepth
        BY <1>1, <2>8, <3>1, <3>4, CrawlAssumption
      <4>2. status[j][q] # "none"
        BY <2>8, <3>4, <4>1 DEF NewLinks
      <4> QED
        BY <2>2, <2>4, <3>1, <3>4, <4>2
    <3> QED
      BY <3>2, <3>3, <3>4
  <2>9. ASSUME NEW q \in Pages, status'[j][q] # "none", q \notin Seeds
        PROVE  \E x \in expanded'[j] : q \in site.links[x] /\ depth'[j][q] = depth'[j][x] + 1
    <3>1. CASE q \in N
      <4>1. q \in site.links[p] /\ depth'[j][q] = d + 1 /\ depth'[j][p] = d /\ p \in expanded'[j]
        BY <1>2, <1>5, <2>3, <3>1 DEF NewLinks
      <4> QED
        BY <4>1
    <3>2. CASE q \notin N
      <4>1. status[j][q] # "none"
        BY <1>1, <1>2, <2>9, <3>2
      <4>2. PICK x \in expanded[j] : q \in site.links[x] /\ depth[j][q] = depth[j][x] + 1
        BY <2>1, <2>9, <4>1 DEF Reached
      <4>3. x \in SettledPages(j) /\ x \in expanded'[j]
        BY <2>1, <2>3 DEF Reached
      <4> QED
        BY <1>5, <2>2, <4>1, <4>2, <4>3
    <3> QED
      BY <3>1, <3>2
  <2>10. crawlPc'[j] # "new" /\ site' = site
    OBVIOUS
  <2> QED
    BY <2>5, <2>6, <2>7, <2>8, <2>9, <2>10 DEF Reached
<1> QED
  BY <1>6, <1>7, <1>8, <1>9 DEF JobInv

\* A page that is settled without its links.
LEMMA SettledKeeps ==
  ASSUME CrawlInv, NEW j \in CrawlJobs, AtPage(j), NEW s \in {"done", "failed"}, SetStatus(j, current[j], s),
         crawlPc'[j] = "pick", UNCHANGED <<site, crashes, depth, expanded>>,
         \A p \in Pages : fetches'[j][p] <= 1 /\ (fetches'[j][p] # 0 => p \in SettledPages(j))
  PROVE  JobInv(j)'
<1> DEFINE p == current[j]
<1>1. CrawlTypes /\ JobInv(j) /\ p \in Pages /\ status[j][p] = "in_progress"
  BY DEF CrawlInv, JobInv, OneInProgress
<1>2. status'[j][p] = s /\ \A q \in Pages \ {p} : status'[j][q] = status[j][q]
  BY <1>1, StatusSet DEF Statuses
<1>3. SettledPages(j)' = SettledPages(j) /\ Pending(j)' = Pending(j)
  BY <1>1, <1>2 DEF SettledPages, Pending
<1>4. OneInProgress(j)'
  BY <1>1, <1>2 DEF JobInv, OneInProgress, AtPage
<1>5. EndsCovered(j)' /\ FetchedOnce(j)'
  BY <1>3 DEF EndsCovered, FetchedOnce
<1>6. FrontOrdered(j)'
  BY <1>1, <1>3 DEF JobInv, FrontOrdered, AtPage
<1>7. Reached(j)'
  <2>1. \A q \in Pages : status'[j][q] = "none" <=> status[j][q] = "none"
    BY <1>1, <1>2
  <2>2. expanded[j] \subseteq Pages /\ (\A q \in Pages : site.links[q] \subseteq Pages) /\ Seeds \subseteq Pages
    BY <1>1, CrawlAssumption DEF CrawlTypes
  <2>3. Reached(j) /\ crawlPc[j] # "new"
    BY <1>1 DEF JobInv, AtPage
  <2> QED
    BY <1>3, <2>1, <2>2, <2>3 DEF Reached
<1> QED
  BY <1>4, <1>5, <1>6, <1>7 DEF JobInv

LEMMA FetchKeeps ==
  ASSUME CrawlInv, NEW j \in CrawlJobs, Fetch(j)
  PROVE  CrawlInv'
<1> DEFINE p == current[j]
           known == site.kind[p] = "copy" /\ copySeen[j]
           text == site.kind[p] \in {"text", "wordless", "copy"} /\ ~known
<1>1. /\ crawlPc[j] = "fetch" /\ CrawlTypes /\ JobInv(j) /\ p \in Pages /\ status[j][p] = "in_progress"
      /\ fetches[j][p] = 0
  BY DEF CrawlInv, JobInv, OneInProgress, FetchedOnce, AtPage, Fetch
<1>2. /\ fetches' = [fetches EXCEPT ![j][p] = IF @ = 2 THEN 2 ELSE @ + 1]
      /\ UNCHANGED <<current, crawled, site, crashes>>
      /\ crawlPc' = [crawlPc EXCEPT ![j] = IF text THEN "ingest" ELSE "pick"]
  BY DEF Fetch
<1>3. \/ site.kind[p] = "error" /\ SetStatus(j, p, "failed") /\ UNCHANGED <<depth, expanded>>
      \/ site.kind[p] = "thin" /\ Follow(j, p)
      \/ known /\ SetStatus(j, p, "done") /\ UNCHANGED <<depth, expanded>>
      \/ text /\ UNCHANGED <<status, depth, expanded>>
  BY DEF Fetch
<1>4. /\ fetches' \in [CrawlJobs -> [Pages -> Nat]] /\ fetches'[j][p] = 1
      /\ \A q \in Pages \ {p} : fetches'[j][q] = fetches[j][q]
      /\ \A i \in CrawlJobs \ {j} : fetches'[i] = fetches[i]
  BY <1>1, <1>2 DEF CrawlTypes
<1>5. \A q \in Pages : fetches'[j][q] <= 1 /\ (fetches'[j][q] # 0 => q \in SettledPages(j))
  BY <1>1, <1>4 DEF JobInv, FetchedOnce, SettledPages
<1>6. AtPage(j) /\ crawlPc' \in [CrawlJobs -> CrawlStages] /\ crawlPc'[j] = (IF text THEN "ingest" ELSE "pick")
      /\ \A i \in CrawlJobs \ {j} : crawlPc'[i] = crawlPc[i]
  BY <1>1, <1>2 DEF CrawlTypes, CrawlStages, AtPage
<1>7. /\ JobInv(j)' /\ status' \in [CrawlJobs -> [Pages -> Statuses]] /\ depth' \in [CrawlJobs -> [Pages -> Nat]]
      /\ expanded' \in [CrawlJobs -> SUBSET Pages]
      /\ \A i \in CrawlJobs \ {j} : status'[i] = status[i] /\ depth'[i] = depth[i] /\ expanded'[i] = expanded[i]
  <2>1. CASE site.kind[p] = "error" /\ SetStatus(j, p, "failed") /\ UNCHANGED <<depth, expanded>>
    <3>1. JobInv(j)'
      BY <1>2, <1>5, <1>6, <2>1, SettledKeeps
    <3> QED
      BY <1>1, <2>1, <3>1, StatusSet DEF CrawlTypes, Statuses
  <2>2. CASE known /\ SetStatus(j, p, "done") /\ UNCHANGED <<depth, expanded>>
    <3>1. JobInv(j)'
      BY <1>2, <1>5, <1>6, <2>2, SettledKeeps
    <3> QED
      BY <1>1, <2>2, <3>1, StatusSet DEF CrawlTypes, Statuses
  <2>3. CASE site.kind[p] = "thin" /\ Follow(j, p)
    <3>1. JobInv(j)'
      BY <1>2, <1>5, <1>6, <2>3, FollowKeeps
    <3> QED
      BY <1>1, <1>6, <2>3, <3>1, Followed DEF CrawlTypes
  <2>4. CASE text /\ UNCHANGED <<status, depth, expanded>>
    <3>1. crawlPc'[j] = "ingest" /\ SettledPages(j)' = SettledPages(j) /\ Pending(j)' = Pending(j)
      BY <1>6, <2>4 DEF SettledPages, Pending
    <3>2. OneInProgress(j)' /\ EndsCovered(j)' /\ FetchedOnce(j)'
      BY <1>1, <1>2, <1>5, <2>4, <3>1 DEF JobInv, OneInProgress, EndsCovered, FetchedOnce, AtPage
    <3>3. FrontOrdered(j)' /\ Reached(j)'
      BY <1>1, <1>2, <2>4, <3>1 DEF JobInv, FrontOrdered, AtPage, Reached
    <3> QED
      BY <1>1, <2>4, <3>2, <3>3 DEF JobInv, CrawlTypes
  <2> QED
    BY <1>3, <2>1, <2>2, <2>3, <2>4
<1>8. CrawlTypes'
  BY <1>1, <1>2, <1>4, <1>6, <1>7 DEF CrawlTypes
<1>9. ASSUME NEW i \in CrawlJobs \ {j} PROVE JobInv(i)'
  <2>1. SameJob(i) /\ JobInv(i)
    BY <1>2, <1>4, <1>6, <1>7 DEF SameJob, CrawlInv
  <2> QED
    BY <2>1, OtherJob
<1> QED
  BY <1>7, <1>8, <1>9 DEF CrawlInv

LEMMA IngestKeeps ==
  ASSUME CrawlInv, NEW j \in CrawlJobs, Ingest(j)
  PROVE  CrawlInv'
<1>1. /\ crawlPc[j] = "ingest" /\ CrawlTypes /\ JobInv(j) /\ Follow(j, current[j])
      /\ crawled' = [crawled EXCEPT ![j] = @ + 1] /\ crawlPc' = [crawlPc EXCEPT ![j] = "pick"]
      /\ UNCHANGED <<current, fetches, site, crashes>>
  BY DEF CrawlInv, Ingest
<1>2. /\ AtPage(j) /\ crawlPc'[j] = "pick" /\ current[j] \in Pages
      /\ \A p \in Pages : fetches'[j][p] <= 1 /\ (fetches'[j][p] # 0 => p \in SettledPages(j))
  BY <1>1 DEF AtPage, JobInv, FetchedOnce, OneInProgress, CrawlTypes
<1>3. JobInv(j)'
  BY <1>1, <1>2, FollowKeeps
<1>4. /\ status' \in [CrawlJobs -> [Pages -> Statuses]] /\ depth' \in [CrawlJobs -> [Pages -> Nat]]
      /\ \A i \in CrawlJobs \ {j} : status'[i] = status[i] /\ depth'[i] = depth[i]
      /\ expanded' = [expanded EXCEPT ![j] = @ \cup {current[j]}]
  BY <1>1, <1>2, Followed
<1>5. CrawlTypes'
  BY <1>1, <1>2, <1>4 DEF CrawlTypes, CrawlStages
<1>6. ASSUME NEW i \in CrawlJobs \ {j} PROVE JobInv(i)'
  <2>1. SameJob(i) /\ JobInv(i)
    BY <1>1, <1>4 DEF SameJob, CrawlInv, CrawlTypes
  <2> QED
    BY <2>1, OtherJob
<1> QED
  BY <1>3, <1>5, <1>6 DEF CrawlInv

\* The end of a job, its save, its failure and a crash: the frontiers stay as they are.
LEMMA StopKeeps ==
  ASSUME CrawlInv, UNCHANGED <<status, depth, current, crawled, expanded, fetches, site>>,
         crawlPc' \in [CrawlJobs -> CrawlStages], crashes' \in Nat,
         \A j \in CrawlJobs :
           \/ crawlPc'[j] = crawlPc[j]
           \/ crawlPc[j] = "pick" /\ crawlPc'[j] = "write" /\ (crawled[j] >= MaxPages \/ Pending(j) = {})
           \/ crawlPc[j] = "write" /\ crawlPc'[j] = "ended"
           \/ crawlPc[j] # "new" /\ crawlPc'[j] = "failed"
  PROVE  CrawlInv'
<1>1. CrawlTypes'
  BY DEF CrawlInv, CrawlTypes
<1>2. ASSUME NEW j \in CrawlJobs PROVE JobInv(j)'
  <2>1. JobInv(j) /\ CrawlTypes
    BY DEF CrawlInv
  <2>2. SettledPages(j)' = SettledPages(j) /\ Pending(j)' = Pending(j)
    BY DEF SettledPages, Pending
  <2>3. crawlPc'[j] # "new" <=> crawlPc[j] # "new"
    BY DEF CrawlStages
  <2>4. AtPage(j)' => crawlPc'[j] = crawlPc[j]
    BY DEF AtPage
  <2>5. OneInProgress(j)'
    BY <2>1, <2>4 DEF JobInv, OneInProgress, AtPage, CrawlTypes
  <2>6. EndsCovered(j)' /\ FetchedOnce(j)'
    BY <2>1, <2>2, <2>4 DEF JobInv, EndsCovered, FetchedOnce, AtPage, CrawlTypes
  <2>7. FrontOrdered(j)'
    BY <2>1, <2>2, <2>4 DEF JobInv, FrontOrdered, AtPage
  <2>8. Reached(j)'
    BY <2>1, <2>2, <2>3 DEF JobInv, Reached
  <2> QED
    BY <2>5, <2>6, <2>7, <2>8 DEF JobInv
<1> QED
  BY <1>1, <1>2 DEF CrawlInv

LEMMA CrawlInvStep == CrawlInv /\ [CrawlNext]_crawlVars => CrawlInv'
<1> SUFFICES ASSUME CrawlInv, [CrawlNext]_crawlVars PROVE CrawlInv'
  OBVIOUS
<1>0. crawlPc \in [CrawlJobs -> CrawlStages] /\ crashes \in Nat
  BY DEF CrawlInv, CrawlTypes
<1>1. ASSUME NEW j \in CrawlJobs, StartCrawl(j) \/ Pick(j) \/ Fetch(j) \/ Ingest(j) PROVE CrawlInv'
  BY <1>1, StartCrawlKeeps, PickKeeps, FetchKeeps, IngestKeeps
<1>2. ASSUME NEW j \in CrawlJobs, EndCrawl(j) PROVE CrawlInv'
  BY <1>0, <1>2, StopKeeps DEF EndCrawl, CrawlStages
<1>3. ASSUME NEW j \in CrawlJobs, SaveSparse(j) PROVE CrawlInv'
  BY <1>0, <1>3, StopKeeps DEF SaveSparse, CrawlStages
<1>4. CASE CrashCrawls
  BY <1>0, <1>4, StopKeeps DEF CrashCrawls, CrawlStages, Running
<1>6. ASSUME NEW j \in CrawlJobs, JobRaises(j) PROVE CrawlInv'
  <2>1. /\ crawlPc[j] # "new" /\ crawlPc' = [crawlPc EXCEPT ![j] = "failed"]
        /\ UNCHANGED <<status, depth, current, crawled, expanded, fetches, site, crashes>>
    BY <1>6 DEF JobRaises, Running
  <2> QED
    BY <1>0, <2>1, StopKeeps DEF CrawlStages
<1>5. CASE UNCHANGED crawlVars
  BY <1>0, <1>5, StopKeeps DEF crawlVars, crawlState
<1> QED
  BY <1>1, <1>2, <1>3, <1>4, <1>5, <1>6 DEF CrawlNext, CrawlStep

\* The rows and the file, over the steps of jobs that write them.
LEMMA SparseKeptStep == SparseKept /\ CrawlInv /\ [CrawlNext]_crawlVars => SparseKept'
<1> SUFFICES ASSUME SparseKept, CrawlInv, [CrawlNext]_crawlVars PROVE SparseKept'
  OBVIOUS
<1>0. DOMAIN crawlPc = CrawlJobs /\ DOMAIN bm25 = CrawlJobs
  BY DEF CrawlInv, CrawlTypes, SparseKept
<1>9. Wordless' = Wordless
  BY DEF CrawlNext, CrawlStep, StartCrawl, Pick, EndCrawl, Fetch, Ingest, SaveSparse, JobRaises,
         CrashCrawls, crawlVars, Wordless
<1>1. ASSUME NEW j \in CrawlJobs, StartCrawl(j) PROVE SparseKept'
  BY <1>0, <1>1, <1>9 DEF StartCrawl, SparseKept, Running
<1>2. ASSUME NEW j \in CrawlJobs, Pick(j) PROVE SparseKept'
  <2>1. UNCHANGED <<dense, sparse, bm25, atRisk>> /\ \A i \in CrawlJobs : Running(i)' <=> Running(i)
    BY <1>0, <1>2 DEF Pick, Running
  <2> QED
    BY <1>9, <2>1 DEF SparseKept
<1>3. ASSUME NEW j \in CrawlJobs, EndCrawl(j) PROVE SparseKept'
  <2>1. sparse' = {} /\ UNCHANGED <<dense, bm25, atRisk>> /\ Running(j) /\ \A i \in CrawlJobs : Running(i)' <=> Running(i)
    BY <1>0, <1>3 DEF EndCrawl, Running
  <2> QED
    BY <1>9, <2>1 DEF SparseKept
<1>4. ASSUME NEW j \in CrawlJobs, Fetch(j) PROVE SparseKept'
  <2>1. UNCHANGED <<dense, sparse, bm25, atRisk>> /\ \A i \in CrawlJobs : Running(i)' <=> Running(i)
    BY <1>0, <1>4 DEF Fetch, Running
  <2> QED
    BY <1>9, <2>1 DEF SparseKept
<1>5. ASSUME NEW j \in CrawlJobs, Ingest(j) PROVE SparseKept'
  <2>1. Running(j) /\ sparse' = sparse /\ \A i \in CrawlJobs : Running(i)' <=> Running(i)
    BY <1>0, <1>5 DEF Ingest, Running
  <2>2. IngestPage(j, current[j])
    BY <1>5 DEF Ingest
  <2>3. /\ atRisk' = atRisk /\ DOMAIN bm25' = CrawlJobs
        /\ \A i \in CrawlJobs : bm25[i] \subseteq bm25'[i]
        /\ \A x \in dense' : x \in dense \/ x \in bm25'[j] \/ x \in Wordless
    BY <1>0, <2>2 DEF IngestPage
  <2> QED
    BY <1>9, <2>1, <2>3 DEF SparseKept
<1>6. ASSUME NEW j \in CrawlJobs, SaveSparse(j) PROVE SparseKept'
  <2>1. /\ sparse' = bm25[j] /\ UNCHANGED <<dense, bm25>> /\ Running(j) /\ ~Running(j)'
        /\ \A i \in CrawlJobs \ {j} : Running(i)' <=> Running(i)
        /\ atRisk \subseteq atRisk' /\ \A i \in CrawlJobs \ {j} : Running(i) => bm25[j] \subseteq atRisk'
    BY <1>0, <1>6 DEF SaveSparse, Running
  <2>2. sparse \subseteq bm25[j] \cup atRisk
    BY <2>1 DEF SparseKept
  <2> QED
    BY <1>9, <2>1, <2>2 DEF SparseKept
<1>7. CASE CrashCrawls
  <2>1. UNCHANGED <<dense, sparse, bm25>> /\ \A i \in CrawlJobs : ~Running(i)'
    BY <1>7 DEF CrashCrawls, Running
  <2>2. atRisk' = atRisk \cup (RunningCopies \ sparse)
    BY <1>7 DEF CrashCrawls
  <2>3. \A i \in CrawlJobs : Running(i) => bm25[i] \subseteq RunningCopies
    BY DEF RunningCopies
  <2>4. DOMAIN bm25' = CrawlJobs
    BY <1>0, <2>1
  <2>5. dense' \subseteq sparse' \cup atRisk' \cup Wordless
    <3>1. \A x \in dense : x \in sparse \/ x \in atRisk \/ x \in Wordless \/ \E i \in CrawlJobs : Running(i) /\ x \in bm25[i]
      BY DEF SparseKept
    <3>2. \A x \in dense : x \in sparse \/ x \in atRisk \/ x \in Wordless \/ x \in RunningCopies
      BY <2>3, <3>1
    <3> QED
      BY <2>1, <2>2, <3>2
  <2> QED
    BY <1>9, <2>1, <2>4, <2>5 DEF SparseKept
<1>8. CASE UNCHANGED crawlVars
  BY <1>8, <1>9 DEF crawlVars, crawlState, SparseKept, Running
<1>10. ASSUME NEW j \in CrawlJobs, JobRaises(j) PROVE SparseKept'
  <2>1. /\ sparse' = sparse /\ Running(j) /\ ~Running(j)' /\ DOMAIN bm25' = CrawlJobs
        /\ \A i \in CrawlJobs \ {j} : (Running(i)' <=> Running(i)) /\ bm25'[i] = bm25[i]
        /\ bm25[j] \subseteq bm25'[j] /\ atRisk' = atRisk \cup (bm25'[j] \ sparse)
        /\ \A x \in dense' : x \in dense \/ x \in bm25'[j] \/ x \in Wordless
    BY <1>0, <1>10 DEF JobRaises, Running
  <2>2. \A x \in bm25'[j] : x \in sparse \/ x \in atRisk'
    BY <2>1
  <2>3. \A x \in dense' : x \in sparse \/ x \in atRisk' \/ x \in Wordless
                          \/ \E i \in CrawlJobs : Running(i)' /\ x \in bm25'[i]
    BY <2>1, <2>2 DEF SparseKept
  <2>4. \A i \in CrawlJobs : Running(i)' => sparse \subseteq bm25'[i] \cup atRisk'
    BY <2>1 DEF SparseKept
  <2> QED
    BY <1>9, <2>1, <2>3, <2>4 DEF SparseKept
<1> QED
  BY <1>1, <1>2, <1>3, <1>4, <1>5, <1>6, <1>7, <1>8, <1>10 DEF CrawlNext, CrawlStep

LEMMA CrawlInvBreadthFirst == CrawlInv => CrawlIsBreadthFirst
<1> SUFFICES ASSUME CrawlInv, NEW j \in CrawlJobs PROVE FetchedOnce(j) /\ Reached(j)
  BY DEF CrawlIsBreadthFirst, FetchedOnce, Reached
<1> QED
  BY DEF CrawlInv, JobInv

LEMMA CrawlInvCovers == CrawlInv => CrawlCovers
<1> SUFFICES ASSUME CrawlInv, NEW j \in CrawlJobs, crawlPc[j] \in {"write", "ended"}, crawled[j] < MaxPages,
                    NEW p \in Pages
             PROVE  status[j][p] \in {"none", "done", "failed"}
  BY DEF CrawlCovers
<1>1. status[j][p] \in Statuses /\ crawled[j] \in Nat /\ MaxPages \in Nat
  BY CrawlAssumption DEF CrawlInv, CrawlTypes
<1>2. Pending(j) = {} /\ status[j][p] # "in_progress"
  BY <1>1 DEF CrawlInv, JobInv, EndsCovered, OneInProgress, AtPage
<1> QED
  BY <1>1, <1>2 DEF Statuses, Pending

\* CrawlIsBreadthFirst: on any site, from any seeds, with any limits and number of jobs and
\* crashes, the frontier gives every page its shortest depth and no page is fetched twice.
THEOREM CrawlsBreadthFirst == CrawlSpec => []CrawlIsBreadthFirst
  BY CrawlInvInit, CrawlInvStep, CrawlInvBreadthFirst, PTL DEF CrawlSpec

\* CrawlCovers: a job that ends below its limit, not failing, leaves nothing pending.
THEOREM CrawlsCover == CrawlSpec => []CrawlCovers
  BY CrawlInvInit, CrawlInvStep, CrawlInvCovers, PTL DEF CrawlSpec

\* RowsHaveSparseEntry: what a job reads of the file when it starts it also writes when it ends,
\* so rows with words lose their entries to overlapping jobs and failed ones only.
THEOREM RowsKeepSparseEntry == CrawlSpec => []RowsHaveSparseEntry
<1>1. SparseKept => RowsHaveSparseEntry
  BY DEF SparseKept, RowsHaveSparseEntry
<1> QED
  BY <1>1, CrawlInvInit, CrawlInvStep, SparseKeptStep, PTL DEF CrawlSpec

-----------------------------------------------------------------------------
(* StreamingSearch: a subscription has got a vector, or a thread that evaluates it has  *)
(* the subscription still before it.                                                    *)

Held(s) == ToSet(Got(s))
Evaluating(e) == evalPc[e] # "idle"

StreamTypes ==
  /\ registered \in Seq(Subscribers) /\ NoRepeat(registered)
  /\ active \in [Subscribers -> BOOLEAN]
  /\ subPc \in [Subscribers -> {"new", "open", "closing", "closed"}]
  /\ inbox \in [Subscribers -> Seq(Nat)] /\ streamed \in [Subscribers -> Seq(Nat)]
  /\ evalPc \in [Evaluators -> {"idle", "next", "fire"}]
  /\ evalVector \in [Evaluators -> Nat] /\ todo \in [Evaluators -> Seq(Subscribers)]
  /\ evaluated \in 0 .. MaxEvaluated /\ finished \subseteq 1 .. evaluated
  /\ audience \in [1 .. MaxEvaluated -> SUBSET Subscribers]

\* A subscription is in the table from its registration until it is taken off, and active
\* until it is closed.
SubStates ==
  \A s \in Subscribers :
    /\ s \in ToSet(registered) <=> subPc[s] = "open"
    /\ active[s] <=> subPc[s] \in {"open", "closing"}
    /\ \A v \in 1 .. MaxEvaluated : s \in audience[v] => subPc[s] # "new"

\* A thread looks at each subscription that was there when its evaluation began, once.
ThreadInv(e) ==
  Evaluating(e) => /\ evalVector[e] \in 1 .. evaluated /\ evalVector[e] \notin finished
                   /\ NoRepeat(todo[e]) /\ ToSet(todo[e]) \subseteq audience[evalVector[e]]
ThreadsSound == \A e \in Evaluators : ThreadInv(e)

\* No two threads evaluate the same vector.
OneEach ==
  \A e, f \in Evaluators :
    Evaluating(e) /\ Evaluating(f) /\ evalVector[e] = evalVector[f] => e = f

\* What a subscription holds: vectors that match it, each once, and none of those whose
\* thread has still to look at it.
HeldInv ==
  \A s \in Subscribers :
    /\ NoRepeat(Got(s)) /\ Held(s) \subseteq Wanted[s] \cap 1 .. evaluated
    /\ \A e \in Evaluators : Evaluating(e) /\ s \in ToSet(todo[e]) => evalVector[e] \notin Held(s)

\* What it should hold.
Due(s, v) == s \in audience[v] /\ active[s] /\ v \in Wanted[s]
DueInv ==
  \A s \in Subscribers :
    /\ \A v \in finished : Due(s, v) => v \in Held(s)
    /\ \A e \in Evaluators :
         Evaluating(e) /\ Due(s, evalVector[e]) => evalVector[e] \in Held(s) \/ s \in ToSet(todo[e])

StreamInv == StreamTypes /\ SubStates /\ ThreadsSound /\ OneEach /\ HeldInv /\ DueInv

LEMMA StreamInvInit == StreamInit => StreamInv
<1> SUFFICES ASSUME StreamInit PROVE StreamInv
  OBVIOUS
<1>1. StreamTypes
  BY StreamAssumption DEF StreamInit, StreamTypes, NoRepeat
<1>2. SubStates
  BY DEF StreamInit, SubStates, ToSet
<1>3. ThreadsSound /\ OneEach
  BY DEF StreamInit, ThreadsSound, ThreadInv, OneEach, Evaluating
<1>4. \A s \in Subscribers : Got(s) = <<>>
  BY DEF StreamInit, Got
<1>5. HeldInv
  BY <1>4 DEF StreamInit, HeldInv, Held, ToSet, NoRepeat, Evaluating
<1>6. DueInv
  BY DEF StreamInit, DueInv, Evaluating
<1> QED
  BY <1>1, <1>2, <1>3, <1>4, <1>5, <1>6 DEF StreamInv

\* The threads of a state, and what the subscriptions hold, are as they were.
Undisturbed ==
  /\ UNCHANGED <<inbox, streamed>>
  /\ UNCHANGED <<evalPc, evalVector, todo, evaluated, finished, audience>>

LEMMA UndisturbedKeeps ==
  ASSUME StreamInv, Undisturbed
  PROVE  ThreadsSound' /\ OneEach' /\ HeldInv'
<1>1. \A s \in Subscribers : Got(s)' = Got(s) /\ Held(s)' = Held(s)
  BY DEF Undisturbed, Got, Held
<1>2. \A e : Evaluating(e)' <=> Evaluating(e)
  BY DEF Undisturbed, Evaluating
<1>3. ThreadsSound' /\ OneEach'
  BY <1>2 DEF Undisturbed, StreamInv, ThreadsSound, ThreadInv, OneEach
<1>4. HeldInv'
  BY <1>1, <1>2 DEF Undisturbed, StreamInv, HeldInv
<1> QED
  BY <1>3, <1>4

\* What is due stays due, or is not any more, when no subscription that an evaluation was
\* for becomes active.
LEMMA UndisturbedDue ==
  ASSUME StreamInv, Undisturbed,
         \A s \in Subscribers, v \in 1 .. MaxEvaluated : Due(s, v)' => Due(s, v)
  PROVE  DueInv'
<1>1. \A s \in Subscribers : Held(s)' = Held(s)
  BY DEF Undisturbed, Got, Held
<1>2. \A e : Evaluating(e)' <=> Evaluating(e)
  BY DEF Undisturbed, Evaluating
<1>3. finished \subseteq 1 .. MaxEvaluated /\ \A e \in Evaluators : Evaluating(e) => evalVector[e] \in 1 .. MaxEvaluated
  BY StreamAssumption DEF StreamInv, StreamTypes, ThreadsSound, ThreadInv
<1>4. evalVector' = evalVector /\ finished' = finished /\ todo' = todo
  BY DEF Undisturbed
<1>5. ASSUME NEW s \in Subscribers, NEW v \in finished', Due(s, v)' PROVE v \in Held(s)'
  <2>1. v \in finished /\ Due(s, v)
    BY <1>3, <1>4, <1>5
  <2> QED
    BY <1>1, <2>1 DEF StreamInv, DueInv
<1>6. ASSUME NEW s \in Subscribers, NEW e \in Evaluators, Evaluating(e)', Due(s, evalVector[e])'
      PROVE  evalVector'[e] \in Held(s)' \/ s \in ToSet(todo'[e])
  <2>1. Evaluating(e) /\ evalVector[e] \in 1 .. MaxEvaluated
    BY <1>2, <1>3, <1>6
  <2>2. PICK v \in 1 .. MaxEvaluated : v = evalVector[e]
    BY <2>1
  <2>3. Due(s, v)'
    BY <1>4, <1>6, <2>2 DEF Due
  <2>4. Due(s, evalVector[e])
    BY <2>2, <2>3
  <2> QED
    BY <1>1, <1>4, <2>1, <2>4 DEF StreamInv, DueInv
<1> QED
  BY <1>5, <1>6 DEF DueInv

LEMMA RegisterKeeps ==
  ASSUME StreamInv, NEW s \in Subscribers, RegisterSub(s)
  PROVE  StreamInv'
<1>1. Undisturbed
  BY DEF RegisterSub, Undisturbed
<1>2. /\ registered' = Append(registered, s) /\ subPc[s] = "new" /\ s \notin ToSet(registered)
      /\ active' = [active EXCEPT ![s] = TRUE] /\ subPc' = [subPc EXCEPT ![s] = "open"]
      /\ UNCHANGED audience
  BY DEF RegisterSub, StreamInv, SubStates
<1>3. /\ registered' \in Seq(Subscribers) /\ NoRepeat(registered')
      /\ ToSet(registered') = ToSet(registered) \cup {s}
  BY <1>2, Appended DEF StreamInv, StreamTypes
<1>4. StreamTypes'
  BY <1>1, <1>2, <1>3 DEF StreamInv, StreamTypes, Undisturbed
<1>5. SubStates'
  BY <1>2, <1>3 DEF StreamInv, StreamTypes, SubStates
<1>6. ASSUME NEW r \in Subscribers, NEW v \in 1 .. MaxEvaluated, Due(r, v)' PROVE Due(r, v)
  <2>1. r \in audience[v]
    BY <1>2, <1>6 DEF Due
  <2>2. r # s
    BY <1>2, <2>1 DEF StreamInv, SubStates
  <2> QED
    BY <1>2, <1>6, <2>2 DEF Due, StreamInv, StreamTypes
<1>7. DueInv'
  BY <1>1, <1>6, UndisturbedDue
<1> QED
  BY <1>1, <1>4, <1>5, <1>7, UndisturbedKeeps DEF StreamInv

LEMMA UnregisterKeeps ==
  ASSUME StreamInv, NEW s \in Subscribers, Unregister(s)
  PROVE  StreamInv'
<1>1. Undisturbed
  BY DEF Unregister, Undisturbed
<1>2. /\ registered' = RemoveFirst(registered, s) /\ subPc[s] = "open"
      /\ UNCHANGED <<active, audience>> /\ subPc' = [subPc EXCEPT ![s] = "closing"]
  BY DEF Unregister
<1>3. /\ registered' \in Seq(Subscribers) /\ NoRepeat(registered')
      /\ ToSet(registered') = ToSet(registered) \ {s}
  BY <1>2, FirstRemoved DEF StreamInv, StreamTypes
<1>4. StreamTypes'
  BY <1>1, <1>2, <1>3 DEF StreamInv, StreamTypes, Undisturbed
<1>5. SubStates'
  BY <1>2, <1>3 DEF StreamInv, StreamTypes, SubStates
<1>6. \A r \in Subscribers, v \in 1 .. MaxEvaluated : Due(r, v)' => Due(r, v)
  BY <1>2 DEF Due
<1>7. DueInv'
  BY <1>1, <1>6, UndisturbedDue
<1> QED
  BY <1>1, <1>4, <1>5, <1>7, UndisturbedKeeps DEF StreamInv

LEMMA CloseKeeps ==
  ASSUME StreamInv, NEW s \in Subscribers, CloseSub(s)
  PROVE  StreamInv'
<1>1. Undisturbed
  BY DEF CloseSub, Undisturbed
<1>2. /\ UNCHANGED <<registered, audience>> /\ subPc[s] = "closing"
      /\ active' = [active EXCEPT ![s] = FALSE] /\ subPc' = [subPc EXCEPT ![s] = "closed"]
  BY DEF CloseSub
<1>3. StreamTypes'
  BY <1>1, <1>2 DEF StreamInv, StreamTypes, Undisturbed
<1>4. SubStates'
  BY <1>2 DEF StreamInv, StreamTypes, SubStates
<1>5. \A r \in Subscribers, v \in 1 .. MaxEvaluated : Due(r, v)' => Due(r, v)
  BY <1>2 DEF Due, StreamInv, StreamTypes
<1>6. DueInv'
  BY <1>1, <1>5, UndisturbedDue
<1> QED
  BY <1>1, <1>3, <1>4, <1>6, UndisturbedKeeps DEF StreamInv

\* What a stream sends its client has still got.
LEMMA StreamItemKeeps ==
  ASSUME StreamInv, NEW s \in Subscribers, StreamItem(s)
  PROVE  StreamInv'
<1>1. /\ inbox[s] # <<>> /\ inbox[s] \in Seq(Nat) /\ streamed[s] \in Seq(Nat)
      /\ streamed' = [streamed EXCEPT ![s] = Append(@, Head(inbox[s]))]
      /\ inbox' = [inbox EXCEPT ![s] = Tail(@)]
      /\ UNCHANGED <<registered, active, subPc>>
      /\ UNCHANGED <<evalPc, evalVector, todo, evaluated, finished, audience>>
  BY DEF StreamItem, StreamInv, StreamTypes, subVars
<1>2. Head(inbox[s]) \in Nat /\ Tail(inbox[s]) \in Seq(Nat) /\ Append(streamed[s], Head(inbox[s])) \in Seq(Nat)
  BY <1>1, HeadTailProperties
<1>3. inbox' \in [Subscribers -> Seq(Nat)] /\ streamed' \in [Subscribers -> Seq(Nat)]
  BY <1>1, <1>2 DEF StreamInv, StreamTypes
<1>4. ASSUME NEW r \in Subscribers PROVE Got(r)' = Got(r)
  <2>1. CASE r # s
    BY <1>1, <2>1 DEF Got, StreamInv, StreamTypes
  <2>2. CASE r = s
    <3>1. streamed'[s] = Append(streamed[s], Head(inbox[s])) /\ inbox'[s] = Tail(inbox[s])
      BY <1>1 DEF StreamInv, StreamTypes
    <3>2. Append(streamed[s], Head(inbox[s])) \o Tail(inbox[s]) = streamed[s] \o inbox[s]
      BY <1>1, MovedOver
    <3> QED
      BY <2>2, <3>1, <3>2 DEF Got
  <2> QED
    BY <2>1, <2>2
<1>5. \A r \in Subscribers : Got(r)' = Got(r) /\ Held(r)' = Held(r)
  BY <1>4 DEF Held
<1>6. \A e : Evaluating(e)' <=> Evaluating(e)
  BY <1>1 DEF Evaluating
<1>7. StreamTypes'
  BY <1>1, <1>3 DEF StreamInv, StreamTypes
<1>8. SubStates'
  BY <1>1 DEF StreamInv, SubStates
<1>9. ThreadsSound' /\ OneEach'
  BY <1>1, <1>6 DEF StreamInv, ThreadsSound, ThreadInv, OneEach
<1>10. HeldInv'
  BY <1>1, <1>5, <1>6 DEF StreamInv, HeldInv
<1>11. DueInv'
  BY <1>1, <1>5, <1>6 DEF StreamInv, DueInv, Due
<1> QED
  BY <1>7, <1>8, <1>9, <1>10, <1>11 DEF StreamInv

LEMMA BeginKeeps ==
  ASSUME StreamInv, NEW e \in Evaluators, BeginEvaluation(e)
  PROVE  StreamInv'
<1> DEFINE v == evaluated + 1
<1>1. /\ evalPc[e] = "idle" /\ v \in 1 .. MaxEvaluated /\ evaluated \in Nat /\ evaluated' = v
      /\ evalVector' = [evalVector EXCEPT ![e] = v] /\ todo' = [todo EXCEPT ![e] = registered]
      /\ evalPc' = [evalPc EXCEPT ![e] = "next"]
      /\ audience' = [audience EXCEPT ![v] = ToSet(registered)]
      /\ UNCHANGED <<registered, active, subPc>> /\ UNCHANGED <<inbox, streamed, finished>>
  BY StreamAssumption DEF BeginEvaluation, StreamInv, StreamTypes, subVars
<1>2. v = evaluated + 1
  OBVIOUS
<1> HIDE DEF v
<1>3. ToSet(registered) \subseteq Subscribers
  BY DEF StreamInv, StreamTypes, ToSet
<1>4. StreamTypes'
  BY <1>1, <1>2, <1>3 DEF StreamInv, StreamTypes
<1>5. /\ \A r \in Subscribers : Got(r)' = Got(r) /\ Held(r)' = Held(r)
      /\ \A f \in Evaluators : f # e => (Evaluating(f)' <=> Evaluating(f)) /\ evalVector'[f] = evalVector[f]
                                        /\ todo'[f] = todo[f]
      /\ evalVector'[e] = v /\ todo'[e] = registered /\ ~Evaluating(e)
      /\ audience'[v] = ToSet(registered)
      /\ \A w \in 1 .. evaluated : audience'[w] = audience[w]
  BY <1>1, <1>2 DEF StreamInv, StreamTypes, Got, Held, Evaluating
<1>6. SubStates'
  BY <1>1, <1>5 DEF StreamInv, StreamTypes, SubStates
<1>7. \A f \in Evaluators : Evaluating(f) => evalVector[f] \in 1 .. evaluated
  BY DEF StreamInv, ThreadsSound, ThreadInv
<1>8. ThreadsSound'
  <2> SUFFICES ASSUME NEW f \in Evaluators PROVE ThreadInv(f)'
    BY DEF ThreadsSound
  <2>1. CASE f = e
    BY <1>1, <1>2, <1>5, <2>1 DEF StreamInv, StreamTypes, ThreadInv
  <2>2. CASE f # e
    BY <1>1, <1>2, <1>5, <1>7, <2>2 DEF StreamInv, ThreadsSound, ThreadInv
  <2> QED
    BY <2>1, <2>2
<1>9. OneEach'
  BY <1>1, <1>2, <1>5, <1>7 DEF StreamInv, OneEach
<1>10. \A r \in Subscribers : Held(r) \subseteq 1 .. evaluated
  BY DEF StreamInv, HeldInv
<1>11. HeldInv'
  BY <1>1, <1>2, <1>5, <1>10 DEF StreamInv, HeldInv
<1>12. finished \subseteq 1 .. evaluated
  BY DEF StreamInv, StreamTypes
<1>13. ASSUME NEW r \in Subscribers, NEW w \in finished', Due(r, w)' PROVE w \in Held(r)'
  BY <1>1, <1>5, <1>12, <1>13 DEF StreamInv, DueInv, Due
<1>14. ASSUME NEW r \in Subscribers, NEW f \in Evaluators, Evaluating(f)', Due(r, evalVector[f])'
       PROVE  evalVector'[f] \in Held(r)' \/ r \in ToSet(todo'[f])
  <2>1. CASE f = e
    BY <1>5, <1>14, <2>1 DEF Due
  <2>2. CASE f # e
    BY <1>1, <1>5, <1>7, <1>14, <2>2 DEF StreamInv, DueInv, Due
  <2> QED
    BY <2>1, <2>2
<1> QED
  BY <1>4, <1>6, <1>8, <1>9, <1>11, <1>13, <1>14 DEF StreamInv, DueInv

\* A turn of the loop over subscription s by a thread that evaluates v; m: it matches.
Turn(e, s, v, m) ==
  /\ evalPc[e] = "next" /\ todo[e] # <<>> /\ s = Head(todo[e]) /\ v = evalVector[e]
  /\ m <=> active[s] /\ v \in Wanted[s]
  /\ inbox' = (IF m THEN [inbox EXCEPT ![s] = Append(@, v)] ELSE inbox)
  /\ evalPc' = [evalPc EXCEPT ![e] = IF m /\ s \in Webhooks THEN "fire" ELSE "next"]
  /\ todo' = [todo EXCEPT ![e] = Tail(@)]
  /\ UNCHANGED <<registered, active, subPc>>
  /\ UNCHANGED <<streamed, evalVector, evaluated, finished, audience>>

LEMMA NotifyIsTurn ==
  ASSUME StreamInv, NEW e \in Evaluators, Notify(e)
  PROVE  \E s, v : \E m \in BOOLEAN : Turn(e, s, v, m)
<1>1. PICK s : s = Head(todo[e])
  OBVIOUS
<1>2. PICK v : v = evalVector[e]
  OBVIOUS
<1>3. PICK m \in BOOLEAN : m <=> active[s] /\ v \in Wanted[s]
  <2>1. CASE active[s] /\ v \in Wanted[s]
    BY <2>1
  <2>2. CASE ~(active[s] /\ v \in Wanted[s])
    BY <2>2
  <2> QED
    BY <2>1, <2>2
<1>4. Turn(e, s, v, m)
  BY <1>1, <1>2, <1>3 DEF Turn, Notify, subVars
<1> QED
  BY <1>4

\* What a turn does to what the subscriptions hold, and to what the thread has to do.
TurnEffect(e, s, v, m) ==
  /\ s \in Subscribers /\ v \in 1 .. evaluated /\ Evaluating(e) /\ evalVector[e] = v
  /\ m <=> active[s] /\ v \in Wanted[s]
  /\ s \in ToSet(todo[e]) /\ s \notin ToSet(todo'[e]) /\ NoRepeat(todo'[e])
  /\ ToSet(todo[e]) = ToSet(todo'[e]) \cup {s}
  /\ \A f \in Evaluators : f # e => todo'[f] = todo[f]
  /\ \A f \in Evaluators : Evaluating(f)' <=> Evaluating(f)
  /\ \A r \in Subscribers : NoRepeat(Got(r)') /\ Held(r)' = Held(r) \cup IF r = s /\ m THEN {v} ELSE {}

LEMMA TurnDoes ==
  ASSUME StreamInv, NEW e \in Evaluators, NEW s, NEW v, NEW m \in BOOLEAN, Turn(e, s, v, m)
  PROVE  StreamTypes' /\ TurnEffect(e, s, v, m)
<1>1. /\ todo[e] \in Seq(Subscribers) /\ todo[e] # <<>> /\ s = Head(todo[e])
      /\ Evaluating(e) /\ evalVector[e] = v /\ evalPc[e] = "next"
  BY DEF Turn, Evaluating, StreamInv, StreamTypes
<1>2. v \in 1 .. evaluated /\ v \in Nat /\ NoRepeat(todo[e])
  BY <1>1 DEF StreamInv, StreamTypes, ThreadsSound, ThreadInv
<1>3. /\ s \in Subscribers /\ Tail(todo[e]) \in Seq(Subscribers) /\ NoRepeat(Tail(todo[e]))
      /\ ToSet(todo[e]) = ToSet(Tail(todo[e])) \cup {s} /\ s \notin ToSet(Tail(todo[e]))
  BY <1>1, <1>2, Shortened
<1>4. todo'[e] = Tail(todo[e]) /\ todo' \in [Evaluators -> Seq(Subscribers)]
      /\ \A f \in Evaluators : f # e => todo'[f] = todo[f]
  BY <1>3 DEF Turn, StreamInv, StreamTypes
<1>5. /\ v \notin Held(s) /\ NoRepeat(Got(s))
      /\ inbox[s] \in Seq(Nat) /\ streamed[s] \in Seq(Nat)
  BY <1>1, <1>3 DEF StreamInv, StreamTypes, HeldInv
<1>6. Append(inbox[s], v) \in Seq(Nat) /\ Got(s) \in Seq(Nat)
  BY <1>2, <1>5 DEF Got
<1>7. inbox' \in [Subscribers -> Seq(Nat)]
  <2>1. CASE m
    BY <1>6, <2>1 DEF Turn, StreamInv, StreamTypes
  <2>2. CASE ~m
    BY <2>2 DEF Turn, StreamInv, StreamTypes
  <2> QED
    BY <2>1, <2>2
<1>8. evalPc' \in [Evaluators -> {"idle", "next", "fire"}]
  BY DEF Turn, StreamInv, StreamTypes
<1>9. \A f \in Evaluators : Evaluating(f)' <=> Evaluating(f)
  <2> SUFFICES ASSUME NEW f \in Evaluators PROVE Evaluating(f)' <=> Evaluating(f)
    OBVIOUS
  <2>1. CASE f = e
    <3>1. evalPc'[e] # "idle"
      BY DEF Turn, StreamInv, StreamTypes
    <3> QED
      BY <1>1, <2>1, <3>1 DEF Evaluating
  <2>2. CASE f # e
    BY <2>2 DEF Turn, Evaluating, StreamInv, StreamTypes
  <2> QED
    BY <2>1, <2>2
<1>10. StreamTypes'
  BY <1>4, <1>7, <1>8 DEF Turn, StreamInv, StreamTypes
<1>11. ASSUME NEW r \in Subscribers
       PROVE  NoRepeat(Got(r)') /\ Held(r)' = Held(r) \cup IF r = s /\ m THEN {v} ELSE {}
  <2>1. CASE r = s /\ m
    <3>1. inbox'[s] = Append(inbox[s], v) /\ streamed'[s] = streamed[s]
      BY <1>3, <2>1 DEF Turn, StreamInv, StreamTypes
    <3>2. Got(s)' = Append(Got(s), v)
      <4>1. \A a, b \in Seq(Nat) : \A k \in Nat : a \o Append(b, k) = Append(a \o b, k)
        BY AppendedAfter
      <4>2. streamed[s] \o Append(inbox[s], v) = Append(streamed[s] \o inbox[s], v)
        BY <1>2, <1>5, <4>1
      <4> QED
        BY <3>1, <4>2 DEF Got
    <3>3. v \notin ToSet(Got(s))
      BY <1>5 DEF Held
    <3>4. ToSet(Append(Got(s), v)) = ToSet(Got(s)) \cup {v} /\ NoRepeat(Append(Got(s), v))
      BY <1>2, <1>5, <1>6, <3>3, Appended
    <3> QED
      BY <2>1, <3>2, <3>4 DEF Held
  <2>2. CASE ~(r = s /\ m)
    <3>1. inbox'[r] = inbox[r] /\ streamed'[r] = streamed[r]
      BY <2>2 DEF Turn, StreamInv, StreamTypes
    <3>2. Got(r)' = Got(r) /\ NoRepeat(Got(r))
      BY <3>1 DEF Got, StreamInv, HeldInv
    <3> QED
      BY <2>2, <3>2 DEF Held
  <2> QED
    BY <2>1, <2>2
<1> QED
  BY <1>1, <1>2, <1>3, <1>4, <1>9, <1>10, <1>11 DEF TurnEffect, Turn

LEMMA TurnKeeps ==
  ASSUME StreamInv, NEW e \in Evaluators, NEW s, NEW v, NEW m \in BOOLEAN, Turn(e, s, v, m)
  PROVE  StreamInv'
<1>1. StreamTypes' /\ TurnEffect(e, s, v, m)
  BY TurnDoes
<1>2. UNCHANGED <<registered, active, subPc, evalVector, evaluated, finished, audience>>
  BY DEF Turn
<1>3. SubStates'
  BY <1>2 DEF StreamInv, SubStates
<1>4. ThreadsSound'
  <2> SUFFICES ASSUME NEW f \in Evaluators PROVE ThreadInv(f)'
    BY DEF ThreadsSound
  <2>1. ToSet(todo'[f]) \subseteq ToSet(todo[f]) /\ (NoRepeat(todo[f]) => NoRepeat(todo'[f]))
    BY <1>1 DEF TurnEffect
  <2> QED
    BY <1>1, <1>2, <2>1 DEF TurnEffect, StreamInv, ThreadsSound, ThreadInv
<1>5. OneEach'
  BY <1>1, <1>2 DEF TurnEffect, StreamInv, OneEach
<1>6. ASSUME NEW r \in Subscribers
      PROVE  /\ NoRepeat(Got(r)') /\ Held(r)' \subseteq Wanted[r] \cap 1 .. evaluated'
             /\ \A f \in Evaluators :
                  Evaluating(f)' /\ r \in ToSet(todo'[f]) => evalVector'[f] \notin Held(r)'
  <2>1. NoRepeat(Got(r)') /\ Held(r)' \subseteq Wanted[r] \cap 1 .. evaluated'
    BY <1>1, <1>2 DEF TurnEffect, StreamInv, HeldInv
  <2>2. ASSUME NEW f \in Evaluators, Evaluating(f)', r \in ToSet(todo'[f])
        PROVE  evalVector'[f] \notin Held(r)'
    <3>1. Evaluating(f) /\ r \in ToSet(todo[f])
      BY <1>1, <2>2 DEF TurnEffect
    <3>2. evalVector[f] \notin Held(r)
      BY <3>1 DEF StreamInv, HeldInv
    <3>3. r = s => evalVector[f] # v
      BY <1>1, <2>2, <3>1 DEF TurnEffect, StreamInv, OneEach
    <3> QED
      BY <1>1, <1>2, <3>2, <3>3 DEF TurnEffect
  <2> QED
    BY <2>1, <2>2
<1>7. \A r \in Subscribers : \A w : Due(r, w)' <=> Due(r, w)
  BY <1>2 DEF Due
<1>8. ASSUME NEW r \in Subscribers
      PROVE  /\ \A w \in finished' : Due(r, w)' => w \in Held(r)'
             /\ \A f \in Evaluators :
                  Evaluating(f)' /\ Due(r, evalVector[f])'
                    => evalVector'[f] \in Held(r)' \/ r \in ToSet(todo'[f])
  <2>1. Held(r) \subseteq Held(r)'
    BY <1>1 DEF TurnEffect
  <2>2. ASSUME NEW w \in finished', Due(r, w)' PROVE w \in Held(r)'
    BY <1>2, <1>7, <2>1, <2>2 DEF StreamInv, DueInv
  <2>3. ASSUME NEW f \in Evaluators, Evaluating(f)', Due(r, evalVector[f])'
        PROVE  evalVector'[f] \in Held(r)' \/ r \in ToSet(todo'[f])
    <3>1. Due(r, evalVector[f])
      BY <1>2, <2>3 DEF Due
    <3>2. Evaluating(f)
      BY <1>1, <2>3 DEF TurnEffect
    <3>3. evalVector[f] \in Held(r) \/ r \in ToSet(todo[f])
      BY <3>1, <3>2 DEF StreamInv, DueInv
    <3>4. CASE f = e /\ r = s
      <4>1. m
        BY <1>1, <3>1, <3>4 DEF TurnEffect, Due
      <4> QED
        BY <1>1, <1>2, <3>4, <4>1 DEF TurnEffect
    <3>5. CASE ~(f = e /\ r = s)
      BY <1>1, <1>2, <2>1, <3>3, <3>5 DEF TurnEffect
    <3> QED
      BY <3>4, <3>5
  <2> QED
    BY <2>2, <2>3
<1>9. HeldInv'
  BY <1>6 DEF HeldInv
<1>10. DueInv'
  BY <1>8 DEF DueInv
<1> QED
  BY <1>1, <1>3, <1>4, <1>5, <1>9, <1>10 DEF StreamInv

\* A webhook that was called leaves the thread at the next subscription, or ends it early:
\* the vector is then never counted as evaluated.
LEMMA FireKeeps ==
  ASSUME StreamInv, NEW e \in Evaluators, FireWebhook(e)
  PROVE  StreamInv'
<1>1. /\ evalPc[e] = "fire" /\ \E next \in {"next", "idle"} : evalPc' = [evalPc EXCEPT ![e] = next]
      /\ UNCHANGED <<registered, active, subPc, inbox, streamed>>
      /\ UNCHANGED <<evalVector, todo, evaluated, finished, audience>>
  BY DEF FireWebhook, subVars
<1>2. StreamTypes'
  BY <1>1 DEF StreamInv, StreamTypes
<1>3. \A f \in Evaluators : Evaluating(f)' => Evaluating(f)
  BY <1>1 DEF Evaluating, StreamInv, StreamTypes
<1>4. \A r \in Subscribers : Got(r)' = Got(r) /\ Held(r)' = Held(r)
  BY <1>1 DEF Got, Held
<1>5. SubStates'
  BY <1>1 DEF StreamInv, SubStates
<1>6. ThreadsSound' /\ OneEach'
  BY <1>1, <1>3 DEF StreamInv, ThreadsSound, ThreadInv, OneEach
<1>7. HeldInv'
  BY <1>1, <1>3, <1>4 DEF StreamInv, HeldInv
<1>8. DueInv'
  BY <1>1, <1>3, <1>4 DEF StreamInv, DueInv, Due
<1> QED
  BY <1>2, <1>5, <1>6, <1>7, <1>8 DEF StreamInv

LEMMA EndKeeps ==
  ASSUME StreamInv, NEW e \in Evaluators, EndEvaluation(e)
  PROVE  StreamInv'
<1>1. /\ evalPc[e] = "next" /\ todo[e] = <<>> /\ evalPc' = [evalPc EXCEPT ![e] = "idle"]
      /\ finished' = finished \cup {evalVector[e]}
      /\ UNCHANGED <<registered, active, subPc, inbox, streamed>>
      /\ UNCHANGED <<evalVector, todo, evaluated, audience>>
  BY DEF EndEvaluation, subVars
<1>2. Evaluating(e) /\ evalVector[e] \in 1 .. evaluated
  BY <1>1 DEF Evaluating, StreamInv, ThreadsSound, ThreadInv
<1>3. StreamTypes'
  BY <1>1, <1>2 DEF StreamInv, StreamTypes
<1>4. \A f \in Evaluators : Evaluating(f)' <=> Evaluating(f) /\ f # e
  BY <1>1 DEF Evaluating, StreamInv, StreamTypes
<1>5. \A r \in Subscribers : Got(r)' = Got(r) /\ Held(r)' = Held(r)
  BY <1>1 DEF Got, Held
<1>6. SubStates'
  BY <1>1 DEF StreamInv, SubStates
<1>7. ThreadsSound' /\ OneEach'
  BY <1>1, <1>2, <1>4 DEF StreamInv, ThreadsSound, ThreadInv, OneEach
<1>8. HeldInv'
  BY <1>1, <1>4, <1>5 DEF StreamInv, HeldInv
<1>9. DueInv'
  <2>1. \A r \in Subscribers : \A w : Due(r, w)' <=> Due(r, w)
    BY <1>1 DEF Due
  <2>2. ToSet(todo[e]) = {}
    BY <1>1 DEF ToSet
  <2>3. ASSUME NEW r \in Subscribers, NEW w \in finished', Due(r, w)' PROVE w \in Held(r)'
    BY <1>1, <1>2, <1>5, <2>1, <2>2, <2>3 DEF StreamInv, DueInv
  <2>4. ASSUME NEW r \in Subscribers, NEW f \in Evaluators, Evaluating(f)', Due(r, evalVector[f])'
        PROVE  evalVector'[f] \in Held(r)' \/ r \in ToSet(todo'[f])
    BY <1>1, <1>4, <1>5, <2>4 DEF StreamInv, DueInv, Due
  <2> QED
    BY <2>3, <2>4 DEF DueInv
<1> QED
  BY <1>3, <1>6, <1>7, <1>8, <1>9 DEF StreamInv

LEMMA StreamInvStep == StreamInv /\ [StreamNext]_streamVars => StreamInv'
<1> SUFFICES ASSUME StreamInv, [StreamNext]_streamVars PROVE StreamInv'
  OBVIOUS
<1>1. ASSUME NEW s \in Subscribers, RegisterSub(s) \/ Unregister(s) \/ CloseSub(s) \/ StreamItem(s)
      PROVE  StreamInv'
  BY <1>1, RegisterKeeps, UnregisterKeeps, CloseKeeps, StreamItemKeeps
<1>2. ASSUME NEW e \in Evaluators, BeginEvaluation(e) \/ FireWebhook(e) \/ EndEvaluation(e)
      PROVE  StreamInv'
  BY <1>2, BeginKeeps, FireKeeps, EndKeeps
<1>3. ASSUME NEW e \in Evaluators, Notify(e) PROVE StreamInv'
  <2>1. \E s, v : \E m \in BOOLEAN : Turn(e, s, v, m)
    BY <1>3, NotifyIsTurn
  <2> QED
    BY <2>1, TurnKeeps
<1>4. CASE UNCHANGED streamVars
  <2>1. Undisturbed /\ UNCHANGED <<registered, active, subPc>>
    BY <1>4 DEF streamVars, Undisturbed
  <2>2. StreamTypes' /\ SubStates'
    BY <2>1 DEF StreamInv, StreamTypes, SubStates, Undisturbed
  <2>3. \A s, v : Due(s, v)' => Due(s, v)
    BY <2>1 DEF Undisturbed, Due
  <2>4. DueInv'
    BY <2>1, <2>3, UndisturbedDue
  <2> QED
    BY <2>1, <2>2, <2>4, UndisturbedKeeps DEF StreamInv
<1> QED
  BY <1>1, <1>2, <1>3, <1>4 DEF StreamNext

\* Whoever subscribes, leaves or fails while vectors are evaluated, a subscription that was
\* there when an evaluation began and still is has got a matching vector exactly once when
\* the evaluation returned (evaluate_and_notify, and the queue its stream reads).
THEOREM MatchesReach == StreamSpec => []MatchesReachSubscribers
<1>1. StreamInv => MatchesReachSubscribers
  <2> SUFFICES ASSUME StreamInv, NEW s \in Subscribers, NEW v \in 1 .. MaxEvaluated
               PROVE  /\ Copies(s, v) <= (IF v \in Wanted[s] THEN 1 ELSE 0)
                      /\ v \in finished /\ Due(s, v) => Copies(s, v) = 1
    BY DEF MatchesReachSubscribers, Due
  <2>1. Got(s) \in Seq(Nat) /\ NoRepeat(Got(s)) /\ Held(s) \subseteq Wanted[s]
    BY DEF StreamInv, StreamTypes, HeldInv, Got
  <2>2. Copies(s, v) = IF v \in Held(s) THEN 1 ELSE 0
    BY <2>1, HeldOnce DEF Copies, Held
  <2>3. v \in finished /\ Due(s, v) => v \in Held(s)
    BY DEF StreamInv, DueInv
  <2> QED
    BY <2>1, <2>2, <2>3
<1> QED
  BY <1>1, StreamInvInit, StreamInvStep, PTL DEF StreamSpec

-----------------------------------------------------------------------------
(* CdcConnector: the inductive invariant. *)

Flushing == {"store", "embed", "apply"}

CdcTypes ==
  /\ cdcBuffer \in Seq(Event) /\ cdcBatch \in [Threads -> SUBSET Event]
  /\ DOMAIN cdcPc = Threads /\ starts \in Nat /\ emitted \in 0 .. MaxEvents
  /\ handled \in [1 .. MaxEvents -> Nat] /\ DOMAIN mirror = Rows
  /\ latest \in [Rows -> [num : Nat, row : Rows, op : {"upsert", "blank", "delete"}]]
  /\ \A r \in Rows : latest[r].row = r
  /\ \A c \in Consumers : c > starts => cdcPc[c] = "off"
  /\ \A t \in Threads : cdcPc[t] \notin Flushing => cdcBatch[t] = {}

\* The events a thread embeds or applies; they have left the buffer.
AtWork(t) == IF cdcPc[t] \in {"embed", "apply"} THEN cdcBatch[t] ELSE {}
Queued == ToSet(cdcBuffer)
Unfinished == Queued \cup UNION {AtWork(t) : t \in Threads}

Ascending(s) == \A i, j \in DOMAIN s : i < j => s[i].num < s[j].num
UnfinishedKnown == \A e \in Unfinished : e.num <= emitted /\ e.num <= latest[e.row].num

\* An event is in one place, and those taken are older than those that wait.
TakenBefore == \A t \in Threads : \A e \in AtWork(t), f \in Queued : e.num < f.num
OneHolder ==
  \A t, u \in Threads : \A e \in AtWork(t), f \in AtWork(u) : e.num = f.num => t = u /\ e = f
CountedOnce ==
  \A n \in 1 .. MaxEvents :
    handled[n] = IF n <= emitted /\ (\A e \in Unfinished : e.num # n) THEN 1 ELSE 0

\* What is applied now is older than what else there is for its row.
DeleteAndUpsert(e, f) == e.op = "delete" /\ f.op = "upsert"
InTurn ==
  \A t \in Threads : cdcPc[t] = "apply" =>
    \A e \in AtWork(t) :
      /\ e.op # "blank"
      /\ e.row \notin spoiled =>
           /\ \A f \in AtWork(t) : f.row = e.row /\ DeleteAndUpsert(e, f) => f.num < e.num
           /\ \A u \in Threads \ {t} : \A f \in AtWork(u) :
                f.row = e.row => cdcPc[u] = "embed" /\ e.num < f.num

\* The last event of a row is unfinished, or the row's vector is up to date.
Owed ==
  \A r \in Rows \ spoiled :
    \/ latest[r] \in Unfinished
    \/ /\ \A e \in Unfinished : e.row # r
       /\ mirror[r] = IF latest[r].op = "delete" THEN 0 ELSE latest[r].num

Places == Ascending(cdcBuffer) /\ UnfinishedKnown /\ TakenBefore /\ OneHolder /\ CountedOnce
CdcInv == CdcTypes /\ (~raced => Places /\ InTurn /\ Owed)

-----------------------------------------------------------------------------
LEMMA CdcInvInit == CdcInit => CdcInv
<1> SUFFICES ASSUME CdcInit PROVE CdcInv
  OBVIOUS
<1>0. MaxEvents \in Nat /\ MaxStarts \in Nat
  BY CdcAssumption
<1>1. CdcTypes
  <2>1. cdcBuffer \in Seq(Event) /\ cdcBatch \in [Threads -> SUBSET Event] /\ DOMAIN cdcPc = Threads
    BY DEF CdcInit
  <2>2. starts \in Nat /\ emitted \in 0 .. MaxEvents /\ handled \in [1 .. MaxEvents -> Nat]
    BY <1>0 DEF CdcInit
  <2>3. /\ DOMAIN mirror = Rows /\ latest \in [Rows -> [num : Nat, row : Rows, op : {"upsert", "blank", "delete"}]]
        /\ \A r \in Rows : latest[r].row = r
    BY DEF CdcInit
  <2>4. /\ \A c \in Consumers : c > starts => cdcPc[c] = "off"
        /\ \A t \in Threads : cdcPc[t] \notin Flushing => cdcBatch[t] = {}
    BY DEF CdcInit, Threads
  <2> QED
    BY <2>1, <2>2, <2>3, <2>4 DEF CdcTypes
<1>2. Unfinished = {}
  BY DEF CdcInit, Unfinished, Queued, AtWork, ToSet
<1>3. Places
  BY <1>0, <1>2 DEF CdcInit, Places, Ascending, UnfinishedKnown, TakenBefore, OneHolder, CountedOnce,
     Queued, AtWork, ToSet
<1>4. InTurn
  BY DEF CdcInit, InTurn
<1>5. Owed
  BY <1>2 DEF CdcInit, Owed
<1> QED
  BY <1>1, <1>3, <1>4, <1>5 DEF CdcInv

-----------------------------------------------------------------------------
(* The buffer. *)

\* What comes after all others.
LEMMA AscendingAppend ==
  ASSUME NEW s \in Seq(Event), NEW e \in Event, Ascending(s), \A f \in ToSet(s) : f.num < e.num
  PROVE  Append(s, e) \in Seq(Event) /\ Ascending(Append(s, e)) /\ ToSet(Append(s, e)) = ToSet(s) \cup {e}
<1> DEFINE a == Append(s, e)
<1>1. a \in Seq(Event) /\ ToSet(a) = ToSet(s) \cup {e}
  BY Appended
<1>2. /\ Len(a) = Len(s) + 1 /\ a[Len(s) + 1] = e /\ \A i \in 1 .. Len(s) : a[i] = s[i]
  BY AppendProperties
<1> HIDE DEF a
<1>3. DOMAIN s = 1 .. Len(s) /\ DOMAIN a = 1 .. Len(s) + 1 /\ Len(s) \in Nat
  BY <1>1, <1>2
<1>4. \A i \in 1 .. Len(s) : s[i].num < e.num
  BY <1>3 DEF ToSet
<1>5. Ascending(a)
  BY <1>2, <1>3, <1>4 DEF Ascending
<1> QED
  BY <1>1, <1>5 DEF a

\* The batch and the rest.
LEMMA CutInTwo ==
  ASSUME NEW s \in Seq(Event), NEW n \in Nat \ {0}
  PROVE  /\ First(s, n) \in Seq(Event) /\ SubSeq(s, n + 1, Len(s)) \in Seq(Event)
         /\ ToSet(s) = ToSet(First(s, n)) \cup ToSet(SubSeq(s, n + 1, Len(s)))
         /\ Ascending(s) =>
              /\ Ascending(SubSeq(s, n + 1, Len(s)))
              /\ \A e \in ToSet(First(s, n)), f \in ToSet(SubSeq(s, n + 1, Len(s))) : e.num < f.num
<1>0. PICK k \in Nat : k = Len(s)
  OBVIOUS
<1> DEFINE a == First(s, n)  b == SubSeq(s, n + 1, k)  m == IF k <= n THEN k ELSE n
<1>1. DOMAIN s = 1 .. k /\ n \in Nat /\ k \in Nat /\ m \in Nat /\ m <= k
  BY <1>0
<1>2. a \in Seq(Event) /\ Len(a) = m /\ \A i \in 1 .. m : a[i] = s[i]
  <2>1. CASE k <= n
    BY <1>0, <2>1 DEF First
  <2>2. CASE ~(k <= n)
    BY <1>0, <2>2 DEF First
  <2> QED
    BY <2>1, <2>2
<1>3. b \in Seq(Event) /\ Len(b) = k - m /\ \A i \in 1 .. k - m : b[i] = s[m + i]
  <2>1. CASE k <= n
    <3>1. m = k /\ b = <<>>
      BY <1>0, <2>1
    <3> HIDE DEF b, m
    <3>2. b \in Seq(Event) /\ Len(b) = 0
      BY <3>1
    <3> QED
      BY <1>1, <3>1, <3>2
  <2>2. CASE ~(k <= n)
    <3>1. m = n
      BY <2>2
    <3> HIDE DEF m
    <3>2. n + 1 \in 1 .. k /\ k \in 1 .. k
      BY <2>2
    <3> QED
      BY <1>0, <3>1, <3>2
  <2> QED
    BY <2>1, <2>2
<1> HIDE DEF a, b, m
<1>4. DOMAIN a = 1 .. m /\ DOMAIN b = 1 .. k - m
  BY <1>1, <1>2, <1>3
<1>5. ToSet(a) \subseteq ToSet(s) /\ ToSet(b) \subseteq ToSet(s)
  <2>1. ASSUME NEW i \in DOMAIN a PROVE a[i] \in ToSet(s)
    BY <1>1, <1>2, <1>4 DEF ToSet
  <2>2. ASSUME NEW i \in DOMAIN b PROVE b[i] \in ToSet(s)
    <3>1. b[i] = s[m + i] /\ m + i \in DOMAIN s
      BY <1>1, <1>3, <1>4
    <3> QED
      BY <3>1 DEF ToSet
  <2> QED
    BY <2>1, <2>2 DEF ToSet
<1>6. ASSUME NEW i \in DOMAIN s PROVE s[i] \in ToSet(a) \cup ToSet(b)
  <2>1. CASE i <= m
    BY <1>1, <1>2, <1>4, <2>1 DEF ToSet
  <2>2. CASE i > m
    <3>1. i - m \in DOMAIN b /\ b[i - m] = s[m + (i - m)] /\ m + (i - m) = i
      BY <1>1, <1>3, <1>4, <2>2
    <3> QED
      BY <3>1 DEF ToSet
  <2> QED
    BY <1>1, <2>1, <2>2
<1>7. ToSet(s) = ToSet(a) \cup ToSet(b)
  BY <1>5, <1>6 DEF ToSet
<1>8. ASSUME Ascending(s) PROVE Ascending(b)
  <2>1. ASSUME NEW i \in DOMAIN b, NEW j \in DOMAIN b, i < j PROVE b[i].num < b[j].num
    <3>1. /\ b[i] = s[m + i] /\ b[j] = s[m + j] /\ m + i \in DOMAIN s /\ m + j \in DOMAIN s
          /\ m + i < m + j
      BY <1>1, <1>3, <1>4, <2>1
    <3> QED
      BY <1>8, <3>1 DEF Ascending
  <2> QED
    BY <2>1 DEF Ascending
<1>9. ASSUME Ascending(s), NEW e \in ToSet(a), NEW f \in ToSet(b) PROVE e.num < f.num
  <2>1. PICK i \in 1 .. m : e = a[i]
    BY <1>4, <1>9 DEF ToSet
  <2>2. PICK j \in 1 .. k - m : f = b[j]
    BY <1>4, <1>9 DEF ToSet
  <2>3. e = s[i] /\ f = s[m + j] /\ i < m + j /\ i \in DOMAIN s /\ m + j \in DOMAIN s
    BY <1>1, <1>2, <1>3, <2>1, <2>2
  <2> QED
    BY <1>9, <2>3 DEF Ascending
<1> QED
  BY <1>0, <1>2, <1>3, <1>7, <1>8, <1>9 DEF a, b

-----------------------------------------------------------------------------
(* The steps keep the types. *)

\* A thread that is elsewhere than in a flush, or begins one with a batch of events.
LEMMA CdcTypesStep == CdcTypes /\ CdcNext => CdcTypes'
<1> SUFFICES ASSUME CdcTypes, CdcNext PROVE CdcTypes'
  OBVIOUS
<1>0. MaxStarts \in Nat /\ MaxEvents \in Nat /\ BatchSize \in Nat \ {0} /\ Changes \subseteq {"upsert", "blank", "delete"}
  BY CdcAssumption
<1> USE DEF Flushing, Goto
<1>1. ASSUME NEW t \in Threads, CheckBuffer(t) PROVE CdcTypes'
  BY <1>1 DEF CdcTypes, CheckBuffer, After, Threads
<1>2. ASSUME NEW t \in Threads, TakeBatch(t) PROVE CdcTypes'
  <2>1. First(cdcBuffer, BatchSize) \in Seq(Event)
    BY <1>0, CutInTwo DEF CdcTypes
  <2>2. ToSet(First(cdcBuffer, BatchSize)) \subseteq Event
    BY <2>1 DEF ToSet
  <2> HIDE DEF First
  <2> QED
    BY <1>2, <2>2 DEF CdcTypes, TakeBatch, Threads
<1>3. ASSUME NEW t \in Threads, StoreRest(t) PROVE CdcTypes'
  <2>1. SubSeq(cdcBuffer, BatchSize + 1, Len(cdcBuffer)) \in Seq(Event)
    BY <1>0, CutInTwo DEF CdcTypes
  <2> QED
    BY <1>3, <2>1 DEF CdcTypes, StoreRest, Threads
<1>10. ASSUME NEW S PROVE Counted(S) \in [1 .. MaxEvents -> Nat]
  BY DEF CdcTypes, Counted
<1>4. ASSUME NEW t \in Threads, EmbedFails(t) PROVE CdcTypes'
  BY <1>4, <1>10 DEF CdcTypes, EmbedFails, After, Threads
<1>5. ASSUME NEW t \in Threads, Embed(t) PROVE CdcTypes'
  BY <1>5, <1>10 DEF CdcTypes, Embed, After, Threads
<1>6. ASSUME NEW t \in Threads, ApplyEvent(t) PROVE CdcTypes'
  BY <1>6, <1>10 DEF CdcTypes, ApplyEvent, After, Threads
<1>7. ASSUME NEW t \in Threads, FullBuffer(t) \/ ConsumerLoop(t) PROVE CdcTypes'
  BY <1>7 DEF CdcTypes, FullBuffer, ConsumerLoop, Threads
<1>8. ASSUME NEW t \in Feeders, NEW row \in Rows, NEW op \in Changes, Enqueue(t, row, op) PROVE CdcTypes'
  <2>1. [num |-> emitted + 1, row |-> row, op |-> op] \in Event
    BY <1>0, <1>8 DEF CdcTypes, Enqueue, Event
  <2> QED
    BY <1>0, <1>8, <2>1 DEF CdcTypes, Enqueue, Threads
<1>9. ASSUME StartConnector PROVE CdcTypes'
  <2>1. starts + 1 \in Consumers /\ starts + 1 > starts /\ Consumers \subseteq Threads
    BY <1>0, <1>9 DEF CdcTypes, StartConnector, Consumers, Threads
  <2>2. cdcPc[starts + 1] = "off" /\ cdcPc' = [cdcPc EXCEPT ![starts + 1] = "loop"]
    BY <1>9, <2>1 DEF CdcTypes, StartConnector
  <2>3. cdcBatch' = cdcBatch /\ \A t \in Threads : cdcPc'[t] \notin Flushing => cdcBatch'[t] = {}
    BY <1>9, <2>2 DEF CdcTypes, StartConnector
  <2>4. starts' = starts + 1 /\ \A c \in Consumers : c > starts' => cdcPc'[c] = "off"
    BY <1>9, <2>1, <2>2 DEF CdcTypes, StartConnector, Consumers
  <2> QED
    BY <1>9, <2>2, <2>3, <2>4 DEF CdcTypes, StartConnector
<1>11. ASSUME StopConnector PROVE CdcTypes'
  <2>1. Stopper \in Threads
    BY DEF Threads
  <2> QED
    BY <1>11, <2>1 DEF CdcTypes, StopConnector
<1> QED
  BY <1>1, <1>2, <1>3, <1>4, <1>5, <1>6, <1>7, <1>8, <1>9, <1>11 DEF CdcNext, CdcThread, Flush

-----------------------------------------------------------------------------
(* The steps keep every event in its place. *)

\* A step that moves no event.
Still ==
  /\ UNCHANGED <<cdcBuffer, mirror, latest, emitted, handled, spoiled>>
  /\ \A t \in Threads : /\ AtWork(t)' = AtWork(t)
                        /\ (cdcPc'[t] = "apply" <=> cdcPc[t] = "apply")
                        /\ (cdcPc'[t] = "embed" <=> cdcPc[t] = "embed")

LEMMA StillKeeps ==
  ASSUME Places, InTurn, Owed, Still
  PROVE  Places' /\ InTurn' /\ Owed'
<1>1. Unfinished' = Unfinished /\ Queued' = Queued
  BY DEF Still, Unfinished, Queued
<1>2. Ascending(cdcBuffer)' /\ UnfinishedKnown' /\ CountedOnce'
  BY <1>1 DEF Still, Places, Ascending, UnfinishedKnown, CountedOnce
<1>3. TakenBefore' /\ OneHolder'
  BY <1>1 DEF Still, Places, TakenBefore, OneHolder
<1>4. InTurn'
  BY DEF Still, InTurn, DeleteAndUpsert
<1>5. Owed'
  BY <1>1 DEF Still, Owed
<1> QED
  BY <1>2, <1>3, <1>4, <1>5 DEF Places

\* A thread is through with some of its events.
ThroughWith(t, D) ==
  /\ D \subseteq AtWork(t) /\ AtWork(t)' = AtWork(t) \ D
  /\ \A u \in Threads \ {t} : AtWork(u)' = AtWork(u) /\ cdcPc'[u] = cdcPc[u]
  /\ UNCHANGED <<cdcBuffer, latest, emitted>> /\ handled' = Counted(D)

LEMMA ThroughKeeps ==
  ASSUME CdcTypes, Places, NEW t \in Threads, NEW D, ThroughWith(t, D)
  PROVE  Places' /\ Unfinished' = Unfinished \ D
<1>1. Queued' = Queued /\ \A u \in Threads : AtWork(u)' \subseteq AtWork(u)
  BY DEF ThroughWith, Queued
<1>2. \A e \in D : e \in Unfinished /\ \A f \in Unfinished : f.num = e.num => f = e
  <2> SUFFICES ASSUME NEW e \in D, NEW f \in Unfinished, f.num = e.num PROVE e \in Unfinished /\ f = e
    BY DEF ThroughWith, Unfinished
  <2>1. e \in AtWork(t) /\ e \in Unfinished
    BY DEF ThroughWith, Unfinished
  <2>2. e.num \in Nat
    BY <2>1 DEF CdcTypes, AtWork, Event
  <2>3. f \notin Queued
    BY <2>1, <2>2 DEF Places, TakenBefore
  <2> QED
    BY <2>1, <2>3 DEF Places, OneHolder, Unfinished
<1>3. \A e \in D : e \notin Queued /\ \A u \in Threads \ {t} : e \notin AtWork(u)
  <2> SUFFICES ASSUME NEW e \in D PROVE e \notin Queued /\ \A u \in Threads \ {t} : e \notin AtWork(u)
    OBVIOUS
  <2>1. e \in AtWork(t) /\ e.num \in Nat
    BY DEF ThroughWith, CdcTypes, AtWork, Event
  <2> QED
    BY <2>1 DEF Places, TakenBefore, OneHolder
<1>4. Unfinished' = Unfinished \ D
  BY <1>1, <1>3 DEF ThroughWith, Unfinished
<1>5. Ascending(cdcBuffer)' /\ UnfinishedKnown'
  BY <1>4 DEF ThroughWith, Places, Ascending, UnfinishedKnown
<1>6. TakenBefore' /\ OneHolder'
  BY <1>1 DEF Places, TakenBefore, OneHolder
<1>7. ASSUME NEW n \in 1 .. MaxEvents
      PROVE  handled'[n] = IF n <= emitted' /\ (\A e \in Unfinished' : e.num # n) THEN 1 ELSE 0
  <2>1. handled'[n] = handled[n] + (IF \E e \in D : e.num = n THEN 1 ELSE 0) /\ emitted' = emitted
    BY DEF ThroughWith, Counted, CdcTypes
  <2>2. handled[n] = IF n <= emitted /\ (\A e \in Unfinished : e.num # n) THEN 1 ELSE 0
    BY DEF Places, CountedOnce
  <2>3. CASE \E e \in D : e.num = n
    <3>1. PICK e \in D : e.num = n
      BY <2>3
    <3>2. e \in Unfinished /\ n <= emitted /\ \A f \in Unfinished' : f.num # n
      BY <1>2, <1>4, <3>1 DEF Places, UnfinishedKnown
    <3> QED
      BY <2>1, <2>2, <2>3, <3>1, <3>2
  <2>4. CASE ~\E e \in D : e.num = n
    <3>1. (\A e \in Unfinished' : e.num # n) <=> (\A e \in Unfinished : e.num # n)
      BY <1>4, <2>4
    <3> QED
      BY <2>1, <2>2, <2>4, <3>1
  <2> QED
    BY <2>3, <2>4
<1>8. CountedOnce'
  BY <1>7 DEF CountedOnce
<1> QED
  BY <1>4, <1>5, <1>6, <1>8 DEF Places

\* Less work and more rows given up leave what is applied in turn.
LEMMA TurnsRemain ==
  ASSUME InTurn, spoiled \subseteq spoiled',
         \A u \in Threads : /\ AtWork(u)' \subseteq AtWork(u)
                            /\ cdcPc'[u] = "apply" => cdcPc[u] = "apply"
                            /\ AtWork(u)' # {} /\ cdcPc[u] = "embed" => cdcPc'[u] = "embed"
  PROVE  InTurn'
<1> SUFFICES ASSUME NEW t \in Threads, cdcPc'[t] = "apply", NEW e \in AtWork(t)'
             PROVE /\ e.op # "blank"
                   /\ e.row \notin spoiled' =>
                        /\ \A f \in AtWork(t)' : f.row = e.row /\ DeleteAndUpsert(e, f) => f.num < e.num
                        /\ \A u \in Threads \ {t} : \A f \in AtWork(u)' :
                             f.row = e.row => cdcPc'[u] = "embed" /\ e.num < f.num
  BY DEF InTurn, DeleteAndUpsert
<1>1. cdcPc[t] = "apply" /\ e \in AtWork(t)
  OBVIOUS
<1> QED
  BY <1>1 DEF InTurn

\* A row whose unfinished events are given up is spoiled.
LEMMA OwedWithout ==
  ASSUME CdcTypes, Owed, NEW D, Unfinished' = Unfinished \ D, UNCHANGED <<latest, mirror>>,
         spoiled \subseteq spoiled', RowsOf(D) \subseteq spoiled'
  PROVE  Owed'
<1> SUFFICES ASSUME NEW r \in Rows \ spoiled'
             PROVE  (\/ latest[r] \in Unfinished
                     \/ /\ \A e \in Unfinished : e.row # r
                        /\ mirror[r] = IF latest[r].op = "delete" THEN 0 ELSE latest[r].num)'
  BY DEF Owed
<1>1. \A e \in D : e.row # r
  BY DEF RowsOf
<1>2. latest[r] \notin D
  BY <1>1 DEF CdcTypes
<1> QED
  BY <1>2 DEF Owed

LEMMA OnlyTakes ==
  ASSUME CdcTypes, NEW t \in Threads,
         CheckBuffer(t) \/ TakeBatch(t) \/ FullBuffer(t) \/ ConsumerLoop(t)
  PROVE  Still
<1>1. UNCHANGED <<cdcBuffer, mirror, latest, emitted, handled, spoiled>>
  BY DEF CheckBuffer, TakeBatch, FullBuffer, ConsumerLoop
<1>2. /\ cdcPc[t] \notin {"embed", "apply"} /\ cdcPc'[t] \notin {"embed", "apply"}
      /\ \A u \in Threads \ {t} : cdcPc'[u] = cdcPc[u] /\ cdcBatch'[u] = cdcBatch[u]
  BY DEF CdcTypes, CheckBuffer, TakeBatch, FullBuffer, ConsumerLoop, Goto, After
<1> QED
  BY <1>1, <1>2 DEF Still, AtWork

LEMMA OnlyStarts ==
  ASSUME CdcTypes, StartConnector \/ StopConnector
  PROVE  Still
<1>1. UNCHANGED <<cdcBuffer, mirror, latest, emitted, handled, spoiled>>
  BY DEF StartConnector, StopConnector
<1>2. PICK t \in Threads : cdcPc[t] \in {"off", "idle"} /\ \E pc \in {"loop", "check"} : Goto(t, pc)
  <2>1. CASE StartConnector
    <3>1. starts + 1 \in Consumers /\ starts + 1 > starts
      BY <2>1, CdcAssumption DEF CdcTypes, StartConnector, Consumers
    <3> QED
      BY <2>1, <3>1 DEF CdcTypes, StartConnector, Threads
  <2>2. CASE StopConnector
    BY <2>2 DEF StopConnector, Threads
  <2> QED
    BY <2>1, <2>2
<1>3. /\ cdcPc[t] \notin {"embed", "apply"} /\ cdcPc'[t] \notin {"embed", "apply"}
      /\ \A u \in Threads \ {t} : cdcPc'[u] = cdcPc[u]
  BY <1>2 DEF CdcTypes, Goto
<1>4. cdcBatch' = cdcBatch
  BY DEF StartConnector, StopConnector
<1> QED
  BY <1>1, <1>3, <1>4 DEF Still, AtWork

\* The batch leaves the buffer: its events are older than the rest.
LEMMA StoreRestKeeps ==
  ASSUME CdcTypes, Places, InTurn, Owed, NEW t \in Threads, StoreRest(t), ~raced'
  PROVE  Places' /\ InTurn' /\ Owed'
<1> DEFINE batch == cdcBatch[t]
<1>1. ToSet(First(cdcBuffer, BatchSize)) = batch /\ AtWork(t) = {} /\ AtWork(t)' = batch
  BY DEF StoreRest, CdcTypes, AtWork, Goto
<1>2. \A u \in Threads \ {t} : AtWork(u)' = AtWork(u) /\ cdcPc'[u] = cdcPc[u]
  BY DEF StoreRest, CdcTypes, AtWork, Goto
<1>3. /\ Queued = batch \cup Queued' /\ Ascending(cdcBuffer)'
      /\ \A e \in batch, f \in Queued' : e.num < f.num
  <2>1. BatchSize \in Nat \ {0} /\ cdcBuffer \in Seq(Event) /\ Ascending(cdcBuffer)
    BY CdcAssumption DEF CdcTypes, Places
  <2>2. cdcBuffer' = SubSeq(cdcBuffer, BatchSize + 1, Len(cdcBuffer))
    BY DEF StoreRest
  <2>3. PICK old : old = cdcBuffer
    OBVIOUS
  <2>4. PICK new : new = cdcBuffer'
    OBVIOUS
  <2>5. PICK n \in Nat \ {0} : n = BatchSize
    BY <2>1
  <2>6. old \in Seq(Event) /\ Ascending(old) /\ new = SubSeq(old, n + 1, Len(old))
    BY <2>1, <2>2, <2>3, <2>4, <2>5
  <2>7. /\ ToSet(old) = ToSet(First(old, n)) \cup ToSet(new) /\ Ascending(new)
        /\ \A e \in ToSet(First(old, n)), f \in ToSet(new) : e.num < f.num
    BY <2>6, CutInTwo
  <2> HIDE DEF batch
  <2> QED
    BY <1>1, <2>3, <2>4, <2>5, <2>7 DEF Queued
<1>4. UNCHANGED <<latest, emitted, handled, mirror, spoiled>> /\ cdcPc'[t] = "embed" /\ cdcPc[t] = "store"
  BY DEF StoreRest, CdcTypes, Goto
<1>5. Unfinished' = Unfinished
  BY <1>1, <1>2, <1>3 DEF Unfinished
<1>6. UnfinishedKnown' /\ CountedOnce' /\ Owed'
  BY <1>4, <1>5 DEF Places, UnfinishedKnown, CountedOnce, Owed
<1>7. TakenBefore'
  BY <1>1, <1>2, <1>3 DEF Places, TakenBefore
<1>8. \A u \in Threads \ {t} : \A e \in AtWork(u), f \in batch : e.num < f.num /\ e.num # f.num
  <2> SUFFICES ASSUME NEW u \in Threads \ {t}, NEW e \in AtWork(u), NEW f \in batch
               PROVE  e.num < f.num /\ e.num # f.num
    OBVIOUS
  <2>1. e.num < f.num
    BY <1>3 DEF Places, TakenBefore
  <2>2. e.num \in Nat /\ f.num \in Nat
    BY DEF CdcTypes, AtWork, Event
  <2> QED
    BY <2>1, <2>2
<1>9. \A e, f \in batch : e.num = f.num => e = f
  <2> SUFFICES ASSUME NEW e \in batch, NEW f \in batch, e.num = f.num PROVE e = f
    OBVIOUS
  <2>1. PICK i \in DOMAIN cdcBuffer : e = cdcBuffer[i]
    BY <1>3 DEF Queued, ToSet
  <2>2. PICK j \in DOMAIN cdcBuffer : f = cdcBuffer[j]
    BY <1>3 DEF Queued, ToSet
  <2>3. e.num \in Nat /\ f.num \in Nat /\ i \in Nat /\ j \in Nat
    BY <2>1, <2>2 DEF CdcTypes, Event
  <2>4. ~(i < j) /\ ~(j < i)
    BY <2>1, <2>2, <2>3 DEF Places, Ascending
  <2> QED
    BY <2>1, <2>2, <2>3, <2>4
<1>10. OneHolder'
  <2> SUFFICES ASSUME NEW u \in Threads, NEW v \in Threads, NEW e \in AtWork(u)', NEW f \in AtWork(v)',
                      e.num = f.num
               PROVE  u = v /\ e = f
    BY DEF OneHolder
  <2>1. CASE u = t /\ v = t
    BY <1>1, <1>9, <2>1
  <2>2. CASE u = t /\ v # t
    BY <1>1, <1>2, <1>8, <2>2
  <2>3. CASE u # t /\ v = t
    BY <1>1, <1>2, <1>8, <2>3
  <2>4. CASE u # t /\ v # t
    BY <1>2, <2>4 DEF Places, OneHolder
  <2> QED
    BY <2>1, <2>2, <2>3, <2>4
<1>11. InTurn'
  <2> SUFFICES ASSUME NEW u \in Threads, cdcPc'[u] = "apply", NEW e \in AtWork(u)'
               PROVE /\ e.op # "blank"
                     /\ e.row \notin spoiled' =>
                          /\ \A f \in AtWork(u)' : f.row = e.row /\ DeleteAndUpsert(e, f) => f.num < e.num
                          /\ \A v \in Threads \ {u} : \A f \in AtWork(v)' :
                               f.row = e.row => cdcPc'[v] = "embed" /\ e.num < f.num
    BY DEF InTurn, DeleteAndUpsert
  <2>1. u # t /\ cdcPc[u] = "apply" /\ e \in AtWork(u)
    BY <1>2, <1>4
  <2>2. /\ e.op # "blank"
        /\ e.row \notin spoiled =>
             /\ \A f \in AtWork(u) : f.row = e.row /\ DeleteAndUpsert(e, f) => f.num < e.num
             /\ \A v \in Threads \ {u} : \A f \in AtWork(v) :
                  f.row = e.row => cdcPc[v] = "embed" /\ e.num < f.num
    BY <2>1 DEF InTurn
  <2> QED
    BY <1>1, <1>2, <1>4, <1>8, <2>1, <2>2
<1> QED
  BY <1>3, <1>6, <1>7, <1>10, <1>11 DEF Places

\* A new event is the last one.
LEMMA EnqueueKeeps ==
  ASSUME CdcTypes, Places, InTurn, Owed, NEW t \in Feeders, NEW row \in Rows, NEW op \in Changes,
         Enqueue(t, row, op)
  PROVE  Places' /\ InTurn' /\ Owed'
<1>1. PICK e \in Event : /\ e.num = emitted + 1 /\ e.row = row /\ cdcBuffer' = Append(cdcBuffer, e)
                         /\ latest' = [latest EXCEPT ![row] = e]
  <2>1. [num |-> emitted + 1, row |-> row, op |-> op] \in Event
    BY CdcAssumption DEF Enqueue, CdcTypes, Event
  <2> QED
    BY <2>1 DEF Enqueue
<1>2. emitted' = emitted + 1 /\ UNCHANGED <<mirror, handled, spoiled>> /\ emitted \in Nat
  BY CdcAssumption DEF Enqueue, CdcTypes
<1>3. \A u \in Threads : /\ AtWork(u)' = AtWork(u)
                         /\ (cdcPc'[u] = "apply" <=> cdcPc[u] = "apply")
                         /\ (cdcPc'[u] = "embed" <=> cdcPc[u] = "embed")
  BY DEF Enqueue, CdcTypes, AtWork, Goto
<1>4. \A f \in Unfinished : f \in Event /\ f.num \in Nat /\ f.num <= emitted /\ f.num <= latest[f.row].num
  <2>1. \A f \in Unfinished : f \in Event
    BY DEF CdcTypes, Unfinished, Queued, AtWork, ToSet
  <2> QED
    BY <2>1 DEF Places, UnfinishedKnown, Event
<1>5. \A f \in Queued : f.num < e.num
  BY <1>1, <1>2, <1>4 DEF Unfinished
<1>6. Ascending(cdcBuffer)' /\ Queued' = Queued \cup {e}
  <2>1. cdcBuffer \in Seq(Event) /\ Ascending(cdcBuffer)
    BY DEF CdcTypes, Places
  <2> QED
    BY <1>1, <1>5, <2>1, AscendingAppend DEF Queued
<1>7. Unfinished' = Unfinished \cup {e}
  BY <1>3, <1>6 DEF Unfinished
<1>8. UnfinishedKnown'
  <2> SUFFICES ASSUME NEW f \in Unfinished' PROVE f.num <= emitted' /\ f.num <= latest'[f.row].num
    BY DEF UnfinishedKnown
  <2>1. CASE f = e
    BY <1>1, <1>2, <2>1 DEF CdcTypes
  <2>2. CASE f \in Unfinished
    <3>1. f.row \in Rows /\ f.num <= emitted /\ f.num \in Nat /\ f.num <= latest[f.row].num
      BY <1>4, <2>2 DEF Event
    <3> QED
      BY <1>1, <1>2, <3>1 DEF CdcTypes
  <2> QED
    BY <1>7, <2>1, <2>2
<1>9. TakenBefore'
  <2>1. \A u \in Threads : \A f \in AtWork(u) : f.num < e.num
    BY <1>1, <1>2, <1>4 DEF Unfinished
  <2> QED
    BY <1>3, <1>6, <2>1 DEF Places, TakenBefore
<1>10. OneHolder' /\ InTurn'
  BY <1>2, <1>3 DEF Places, OneHolder, InTurn, DeleteAndUpsert
<1>11. CountedOnce'
  <2> SUFFICES ASSUME NEW n \in 1 .. MaxEvents
               PROVE  handled'[n] = IF n <= emitted' /\ (\A f \in Unfinished' : f.num # n) THEN 1 ELSE 0
    BY DEF CountedOnce
  <2>1. handled'[n] = IF n <= emitted /\ (\A f \in Unfinished : f.num # n) THEN 1 ELSE 0
    BY <1>2 DEF Places, CountedOnce
  <2>2. CASE n = emitted + 1
    BY <1>1, <1>2, <1>7, <2>1, <2>2
  <2>3. CASE n # emitted + 1
    <3>1. (n <= emitted' <=> n <= emitted) /\ e.num # n
      BY <1>1, <1>2, <2>3
    <3> QED
      BY <1>7, <2>1, <3>1
  <2> QED
    BY <2>2, <2>3
<1>12. Owed'
  <2> SUFFICES ASSUME NEW r \in Rows \ spoiled'
               PROVE  (\/ latest[r] \in Unfinished
                       \/ /\ \A f \in Unfinished : f.row # r
                          /\ mirror[r] = IF latest[r].op = "delete" THEN 0 ELSE latest[r].num)'
    BY DEF Owed
  <2>1. CASE r = row
    BY <1>1, <1>7, <2>1 DEF CdcTypes
  <2>2. CASE r # row
    BY <1>1, <1>2, <1>7, <2>2 DEF Owed, CdcTypes
  <2> QED
    BY <2>1, <2>2
<1> QED
  BY <1>6, <1>8, <1>9, <1>10, <1>11, <1>12 DEF Places

LEMMA EmbedFailsKeeps ==
  ASSUME CdcTypes, Places, InTurn, Owed, NEW t \in Threads, EmbedFails(t)
  PROVE  Places' /\ InTurn' /\ Owed'
<1> DEFINE D == cdcBatch[t]
<1>1. /\ AtWork(t) = D /\ AtWork(t)' = {} /\ cdcPc'[t] # "apply"
      /\ \A u \in Threads \ {t} : AtWork(u)' = AtWork(u) /\ cdcPc'[u] = cdcPc[u]
  BY DEF EmbedFails, CdcTypes, AtWork, Goto, After
<1>2. handled' = Counted(D) /\ spoiled' = spoiled \cup RowsOf(D) /\ UNCHANGED <<cdcBuffer, latest, emitted, mirror>>
  BY DEF EmbedFails
<1> HIDE DEF D
<1>3. ThroughWith(t, D)
  BY <1>1, <1>2 DEF ThroughWith
<1>4. Places' /\ Unfinished' = Unfinished \ D
  BY <1>3, ThroughKeeps
<1>5. InTurn'
  BY <1>1, <1>2, TurnsRemain
<1>6. Owed'
  BY <1>2, <1>4, OwedWithout
<1> QED
  BY <1>4, <1>5, <1>6

\* The rows whose events would be applied out of turn are spoiled.
LEMMA EmbedKeeps ==
  ASSUME CdcTypes, Places, InTurn, Owed, NEW t \in Threads, Embed(t)
  PROVE  Places' /\ InTurn' /\ Owed'
<1> DEFINE D == Of(cdcBatch[t], "blank")
<1>1. /\ AtWork(t) = cdcBatch[t] /\ AtWork(t)' = cdcBatch[t] \ D
      /\ cdcPc[t] = "embed" /\ cdcPc'[t] # "embed"
      /\ \A u \in Threads \ {t} : AtWork(u)' = AtWork(u) /\ cdcPc'[u] = cdcPc[u]
  <2>1. /\ cdcPc[t] = "embed" /\ cdcPc' = [cdcPc EXCEPT ![t] = IF cdcBatch[t] = D THEN After(t) ELSE "apply"]
        /\ cdcBatch' = [cdcBatch EXCEPT ![t] = @ \ D] /\ D \subseteq cdcBatch[t]
    BY DEF Embed, Goto, Of
  <2> HIDE DEF D
  <2>2. AtWork(t) = cdcBatch[t] /\ cdcBatch'[t] = cdcBatch[t] \ D
    BY <2>1 DEF CdcTypes, AtWork
  <2>3. CASE cdcBatch[t] = D
    BY <2>1, <2>2, <2>3 DEF CdcTypes, AtWork, After
  <2>4. CASE cdcBatch[t] # D
    BY <2>1, <2>2, <2>4 DEF CdcTypes, AtWork
  <2> QED
    BY <2>3, <2>4
<1>2. /\ handled' = Counted(D) /\ spoiled' = spoiled \cup Disordered(t) \cup RowsOf(D)
      /\ UNCHANGED <<cdcBuffer, latest, emitted, mirror>>
  BY DEF Embed
<1>3. D \subseteq cdcBatch[t] /\ \A e \in cdcBatch[t] \ D : e.op # "blank"
  BY DEF Of
<1>4. \A e, f \in cdcBatch[t] : e.row \notin Disordered(t) /\ e.row = f.row /\ DeleteAndUpsert(e, f) => ~(f.num > e.num)
  BY DEF Disordered, Of, DeleteAndUpsert
<1>5. \A u \in Threads \ {t} : \A e \in cdcBatch[t], f \in cdcBatch[u] : e.row = f.row => e.row \in Disordered(t)
  BY DEF Disordered, RowsOf
<1> HIDE DEF D
<1>6. ThroughWith(t, D)
  BY <1>1, <1>2, <1>3 DEF ThroughWith
<1>7. Places' /\ Unfinished' = Unfinished \ D
  BY <1>6, ThroughKeeps
<1>8. Owed'
  BY <1>2, <1>7, OwedWithout
<1>9. InTurn'
  <2> SUFFICES ASSUME NEW u \in Threads, cdcPc'[u] = "apply", NEW e \in AtWork(u)'
               PROVE /\ e.op # "blank"
                     /\ e.row \notin spoiled' =>
                          /\ \A f \in AtWork(u)' : f.row = e.row /\ DeleteAndUpsert(e, f) => f.num < e.num
                          /\ \A v \in Threads \ {u} : \A f \in AtWork(v)' :
                               f.row = e.row => cdcPc'[v] = "embed" /\ e.num < f.num
    BY DEF InTurn, DeleteAndUpsert
  <2>1. \A v \in Threads : AtWork(v)' \subseteq AtWork(v) /\ AtWork(v) \subseteq cdcBatch[v]
    BY <1>1 DEF AtWork
  <2>2. CASE u = t
    <3>1. e \in cdcBatch[t] /\ e.op # "blank"
      BY <1>1, <1>3, <2>2
    <3>2. ASSUME e.row \notin spoiled', NEW f \in AtWork(t)', f.row = e.row, DeleteAndUpsert(e, f) PROVE f.num < e.num
      <4>1. f \in cdcBatch[t] /\ ~(f.num > e.num) /\ e # f
        BY <1>2, <1>4, <2>1, <3>1, <3>2 DEF DeleteAndUpsert
      <4>2. e.num # f.num
        BY <1>1, <3>1, <4>1 DEF Places, OneHolder
      <4>3. e.num \in Nat /\ f.num \in Nat
        BY <3>1, <4>1 DEF CdcTypes, Event
      <4> QED
        BY <4>1, <4>2, <4>3
    <3>3. ASSUME e.row \notin spoiled', NEW v \in Threads \ {t}, NEW f \in AtWork(v)', f.row = e.row PROVE FALSE
      BY <1>2, <1>5, <2>1, <3>1, <3>3
    <3> QED
      BY <2>2, <3>1, <3>2, <3>3
  <2>3. CASE u # t
    <3>1. cdcPc[u] = "apply" /\ e \in AtWork(u) /\ AtWork(u)' = AtWork(u)
      BY <1>1, <2>3
    <3>2. /\ e.op # "blank"
          /\ e.row \notin spoiled =>
               /\ \A f \in AtWork(u) : f.row = e.row /\ DeleteAndUpsert(e, f) => f.num < e.num
               /\ \A v \in Threads \ {u} : \A f \in AtWork(v) :
                    f.row = e.row => cdcPc[v] = "embed" /\ e.num < f.num
      BY <3>1 DEF InTurn
    <3>3. ASSUME e.row \notin spoiled', NEW f \in AtWork(t)', f.row = e.row PROVE FALSE
      <4>1. f \in cdcBatch[t] /\ e \in cdcBatch[u]
        BY <2>1, <3>1
      <4> QED
        BY <1>2, <1>5, <2>3, <3>3, <4>1
    <3> QED
      BY <1>1, <1>2, <2>1, <3>1, <3>2, <3>3
  <2> QED
    BY <2>2, <2>3
<1> QED
  BY <1>7, <1>8, <1>9

\* An event that is applied is the oldest of its row.
LEMMA ApplyKeeps ==
  ASSUME CdcTypes, Places, InTurn, Owed, NEW t \in Threads, ApplyEvent(t)
  PROVE  Places' /\ InTurn' /\ Owed'
<1>1. PICK e \in cdcBatch[t] :
        /\ \A f \in cdcBatch[t] \ {e} : DoneBefore(e, f)
        /\ \/ /\ mirror' = [mirror EXCEPT ![e.row] = IF e.op = "delete" THEN 0 ELSE e.num]
              /\ UNCHANGED spoiled
           \/ /\ spoiled' = spoiled \cup {e.row}
              /\ UNCHANGED mirror
        /\ handled' = Counted({e})
        /\ cdcBatch' = [cdcBatch EXCEPT ![t] = @ \ {e}]
        /\ Goto(t, IF cdcBatch[t] = {e} THEN After(t) ELSE "apply")
  BY DEF ApplyEvent
<1>2. cdcPc[t] = "apply" /\ UNCHANGED <<cdcBuffer, latest, emitted>> /\ e \in AtWork(t) /\ e \in Unfinished
  BY DEF ApplyEvent, AtWork, Unfinished
<1>3. /\ AtWork(t) = cdcBatch[t] /\ AtWork(t)' = AtWork(t) \ {e} /\ cdcPc'[t] # "embed"
      /\ \A u \in Threads \ {t} : AtWork(u)' = AtWork(u) /\ cdcPc'[u] = cdcPc[u]
  <2>1. AtWork(t) = cdcBatch[t] /\ cdcBatch'[t] = cdcBatch[t] \ {e}
    BY <1>1, <1>2 DEF CdcTypes, AtWork
  <2>2. CASE cdcBatch[t] = {e}
    BY <1>1, <1>2, <2>1, <2>2 DEF CdcTypes, AtWork, After, Goto
  <2>3. CASE cdcBatch[t] # {e}
    BY <1>1, <1>2, <2>1, <2>3 DEF CdcTypes, AtWork, Goto
  <2> QED
    BY <2>2, <2>3
<1>4. ThroughWith(t, {e})
  BY <1>1, <1>2, <1>3 DEF ThroughWith
<1>5. Places' /\ Unfinished' = Unfinished \ {e}
  BY <1>4, ThroughKeeps
<1>6. InTurn'
  <2>1. spoiled \subseteq spoiled'
    BY <1>1
  <2> QED
    BY <1>2, <1>3, <2>1, TurnsRemain
<1>7. CASE spoiled' = spoiled \cup {e.row} /\ UNCHANGED mirror
  <2>1. RowsOf({e}) = {e.row}
    BY DEF RowsOf
  <2>2. Owed'
    BY <1>2, <1>5, <1>7, <2>1, OwedWithout
  <2> QED
    BY <1>5, <1>6, <2>2
<1>8. CASE mirror' = [mirror EXCEPT ![e.row] = IF e.op = "delete" THEN 0 ELSE e.num] /\ UNCHANGED spoiled
  <2>1. \A f \in Unfinished : f \in Event /\ f.num \in Nat /\ f.num <= latest[f.row].num
    <3>1. \A f \in Unfinished : f \in Event
      BY DEF CdcTypes, Unfinished, Queued, AtWork, ToSet
    <3> QED
      BY <3>1 DEF Places, UnfinishedKnown, Event
  <2>2. ASSUME e.row \notin spoiled, NEW f \in Unfinished, f # e, f.row = e.row PROVE e.num < f.num
    <3>1. e.op # "blank" /\ e.op \in Changes /\ f.op \in Changes /\ Changes \subseteq {"upsert", "blank", "delete"}
      BY <1>2, <2>1, CdcAssumption DEF InTurn, Event
    <3>2. CASE f \in AtWork(t)
      <4>1. DoneBefore(e, f) /\ f.op # "blank" /\ (DeleteAndUpsert(f, e) => e.num < f.num)
        BY <1>1, <1>2, <1>3, <2>2, <3>2 DEF InTurn
      <4> QED
        BY <3>1, <4>1 DEF DoneBefore, DeleteAndUpsert
    <3>3. CASE f \in Queued
      BY <1>2, <3>3 DEF Places, TakenBefore
    <3>4. ASSUME NEW u \in Threads \ {t}, f \in AtWork(u) PROVE e.num < f.num
      BY <1>2, <2>2, <3>4 DEF InTurn
    <3> QED
      BY <3>2, <3>3, <3>4 DEF Unfinished
  <2>3. Owed'
    <3> SUFFICES ASSUME NEW r \in Rows \ spoiled'
                 PROVE  (\/ latest[r] \in Unfinished
                         \/ /\ \A f \in Unfinished : f.row # r
                            /\ mirror[r] = IF latest[r].op = "delete" THEN 0 ELSE latest[r].num)'
      BY DEF Owed
    <3>1. latest[r].row = r /\ latest' = latest /\ r \in Rows \ spoiled
      BY <1>2, <1>8 DEF CdcTypes
    <3>2. CASE r # e.row
      BY <1>5, <1>8, <3>1, <3>2 DEF Owed, CdcTypes
    <3>3. CASE r = e.row /\ latest[r] = e
      <4>1. \A f \in Unfinished' : f.row # r
        <5> SUFFICES ASSUME NEW f \in Unfinished, f # e, f.row = e.row PROVE FALSE
          BY <1>5, <3>3
        <5>1. e.num < f.num /\ f.num <= latest[r].num /\ e.num \in Nat /\ f.num \in Nat
          BY <1>2, <2>1, <2>2, <3>1, <3>3
        <5> QED
          BY <3>3, <5>1
      <4>2. mirror'[r] = IF e.op = "delete" THEN 0 ELSE e.num
        BY <1>8, <3>1, <3>3 DEF CdcTypes
      <4> QED
        BY <3>1, <3>3, <4>1, <4>2
    <3>4. CASE r = e.row /\ latest[r] # e
      BY <1>2, <1>5, <3>1, <3>4 DEF Owed
    <3> QED
      BY <3>2, <3>3, <3>4
  <2> QED
    BY <1>5, <1>6, <2>3
<1> QED
  BY <1>1, <1>7, <1>8

LEMMA CdcInvStep == CdcInv /\ [CdcNext]_cdcVars => CdcInv'
<1> SUFFICES ASSUME CdcInv, [CdcNext]_cdcVars PROVE CdcInv'
  OBVIOUS
<1>1. CASE UNCHANGED cdcVars
  <2>1. UNCHANGED <<cdcBuffer, cdcPc, cdcBatch, starts, mirror, latest, emitted, handled, raced, spoiled>>
    BY <1>1 DEF cdcVars
  <2>2. CdcTypes' = CdcTypes /\ Still
    BY <2>1 DEF CdcTypes, Still, AtWork
  <2> QED
    BY <2>1, <2>2, StillKeeps DEF CdcInv
<1>2. CASE CdcNext
  <2>1. CdcTypes /\ CdcTypes'
    BY <1>2, CdcTypesStep DEF CdcInv
  <2> SUFFICES ASSUME ~raced' PROVE Places' /\ InTurn' /\ Owed'
    BY <2>1 DEF CdcInv
  <2>2. ~raced
    BY <1>2 DEF CdcNext, CdcThread, Flush, CheckBuffer, TakeBatch, StoreRest, EmbedFails, Embed, ApplyEvent,
       FullBuffer, ConsumerLoop, Enqueue, StartConnector, StopConnector
  <2>3. Places /\ InTurn /\ Owed
    BY <2>2 DEF CdcInv
  <2>4. ASSUME NEW t \in Threads, CheckBuffer(t) \/ TakeBatch(t) \/ FullBuffer(t) \/ ConsumerLoop(t)
        PROVE  Places' /\ InTurn' /\ Owed'
    BY <2>1, <2>3, <2>4, OnlyTakes, StillKeeps
  <2>5. ASSUME NEW t \in Threads, StoreRest(t) PROVE Places' /\ InTurn' /\ Owed'
    BY <2>1, <2>3, <2>5, StoreRestKeeps
  <2>6. ASSUME NEW t \in Threads, EmbedFails(t) PROVE Places' /\ InTurn' /\ Owed'
    BY <2>1, <2>3, <2>6, EmbedFailsKeeps
  <2>7. ASSUME NEW t \in Threads, Embed(t) PROVE Places' /\ InTurn' /\ Owed'
    BY <2>1, <2>3, <2>7, EmbedKeeps
  <2>8. ASSUME NEW t \in Threads, ApplyEvent(t) PROVE Places' /\ InTurn' /\ Owed'
    BY <2>1, <2>3, <2>8, ApplyKeeps
  <2>9. ASSUME NEW t \in Feeders, NEW row \in Rows, NEW op \in Changes, Enqueue(t, row, op)
        PROVE  Places' /\ InTurn' /\ Owed'
    BY <2>1, <2>3, <2>9, EnqueueKeeps
  <2>10. ASSUME StartConnector \/ StopConnector PROVE Places' /\ InTurn' /\ Owed'
    BY <2>1, <2>3, <2>10, OnlyStarts, StillKeeps
  <2> QED
    BY <1>2, <2>4, <2>5, <2>6, <2>7, <2>8, <2>9, <2>10 DEF CdcNext, CdcThread, Flush
<1> QED
  BY <1>1, <1>2

-----------------------------------------------------------------------------
(* What the invariant gives. *)

LEMMA PlacesCount == CdcTypes /\ Places => \A n \in 1 .. emitted : Waits(n) + Cardinality(Holders(n)) + handled[n] = 1
<1> SUFFICES ASSUME CdcTypes, Places, NEW n \in 1 .. emitted
             PROVE  Waits(n) + Cardinality(Holders(n)) + handled[n] = 1
  OBVIOUS
<1> DEFINE W == {i \in DOMAIN cdcBuffer : cdcBuffer[i].num = n}  H == Holders(n)
<1>1. handled[n] = IF \A e \in Unfinished : e.num # n THEN 1 ELSE 0
  BY CdcAssumption DEF CdcTypes, Places, CountedOnce
<1>2. \A i, j \in W : i = j
  <2> SUFFICES ASSUME NEW i \in W, NEW j \in W PROVE i = j
    OBVIOUS
  <2>1. i \in DOMAIN cdcBuffer /\ j \in DOMAIN cdcBuffer /\ cdcBuffer[i].num = cdcBuffer[j].num
    OBVIOUS
  <2>3. cdcBuffer \in Seq(Event) /\ \A e \in Event : e.num \in Nat
    BY DEF CdcTypes, Event
  <2>4. i \in Nat /\ j \in Nat /\ cdcBuffer[i].num \in Nat
    BY <2>1, <2>3
  <2>2. ~(i < j) /\ ~(j < i)
    BY <2>1, <2>4 DEF Places, Ascending
  <2> QED
    BY <2>2, <2>4
<1>3. \A t, u \in H : t = u
  BY DEF Holders, Places, OneHolder, AtWork
<1>4. \A i \in W, t \in H : FALSE
  <2> SUFFICES ASSUME NEW i \in W, NEW t \in H PROVE FALSE
    OBVIOUS
  <2>1. PICK e \in AtWork(t) : e.num = n
    BY DEF Holders, AtWork
  <2>2. cdcBuffer[i] \in Queued /\ cdcBuffer[i].num = n /\ t \in Threads
    BY DEF Queued, ToSet, Holders
  <2> QED
    BY <2>1, <2>2 DEF Places, TakenBefore
<1>5. (\A e \in Unfinished : e.num # n) <=> W = {} /\ H = {}
  <2>1. W = {} <=> \A e \in Queued : e.num # n
    BY DEF Queued, ToSet
  <2>2. H = {} <=> \A t \in Threads : \A e \in AtWork(t) : e.num # n
    BY DEF Holders, AtWork
  <2> HIDE DEF W, H
  <2> QED
    BY <2>1, <2>2 DEF Unfinished
<1>6. Waits(n) = Cardinality(W)
  BY DEF Waits
<1> HIDE DEF W, H
<1>7. W = {} \/ \E i : W = {i}
  BY <1>2
<1>8. H = {} \/ \E t : H = {t}
  BY <1>3
<1>9. Cardinality({}) = 0 /\ \A x : Cardinality({x}) = 1
  BY FS_EmptySet, FS_Singleton
<1>10. CASE W = {} /\ H = {}
  BY <1>1, <1>5, <1>6, <1>9, <1>10 DEF H
<1>11. CASE W = {} /\ H # {}
  <2>1. Cardinality(W) = 0 /\ Cardinality(H) = 1 /\ handled[n] = 0
    BY <1>1, <1>5, <1>8, <1>9, <1>11
  <2> QED
    BY <1>6, <2>1 DEF H
<1>12. CASE W # {} /\ H = {}
  <2>1. Cardinality(W) = 1 /\ Cardinality(H) = 0 /\ handled[n] = 0
    BY <1>1, <1>5, <1>7, <1>9, <1>12
  <2> QED
    BY <1>6, <2>1 DEF H
<1>13. ~(W # {} /\ H # {})
  BY <1>4
<1> QED
  BY <1>10, <1>11, <1>12, <1>13

\* Unless two threads meet in the middle of a flush, an event waits, or is in the hands of
\* one thread, or was applied or given up once, for any number of threads and events.
THEOREM CdcNothingLost == CdcSpec => []CdcEventsInOnePlace
<1>1. CdcInv => CdcEventsInOnePlace
  BY PlacesCount DEF CdcInv, CdcEventsInOnePlace
<1> QED
  BY <1>1, CdcInvInit, CdcInvStep, PTL DEF CdcSpec

\* When nothing waits and no thread has work, every row's vector is that of its last event,
\* unless one failed or was applied out of order.
THEOREM CdcMirrors == CdcSpec => []CdcMirrorsSource
<1>1. CdcInv => CdcMirrorsSource
  <2> SUFFICES ASSUME CdcInv, ~raced, cdcBuffer = <<>>, \A t \in Threads : cdcBatch[t] = {},
                      NEW r \in Rows \ spoiled
               PROVE  mirror[r] = IF latest[r].op = "delete" THEN 0 ELSE latest[r].num
    BY DEF CdcMirrorsSource
  <2>1. Unfinished = {}
    BY DEF Unfinished, Queued, AtWork, ToSet
  <2> QED
    BY <2>1 DEF CdcInv, Owed
<1> QED
  BY <1>1, CdcInvInit, CdcInvStep, PTL DEF CdcSpec
=============================================================================
