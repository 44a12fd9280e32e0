---------------------------- MODULE MCServices ----------------------------
(***************************************************************************)
(* Instances of the services that run threads of their own: change data    *)
(* capture, crawl jobs and distributed queries.  They share no state, so a *)
(* behaviour follows one of them, chosen at the start.                     *)
(***************************************************************************)
EXTENDS CdcConnector, WebCrawl, ShardQuery

VARIABLE focus

servicesVars == <<cdcVars, crawlVars, shardVars, focus>>

(* Sites: three levels and cycles, and a chain longer than MaxDepth. *)

Site(links, kind) == [links |-> links, kind |-> kind]
Wide == <<{2, 3}, {1, 4}, {2}, {5}, {}>>
Deep == <<{2}, {1, 3, 5}, {4}, {5}, {}>>

MCSites == {
  Site(Wide, <<"thin", "error", "text", "text", "thin">>),
  Site(Wide, <<"thin", "robots", "copy", "copy", "text">>),
  Site(Deep, <<"text", "thin", "foreign", "text", "error">>),
  Site(Deep, <<"thin", "text", "wordless", "thin", "thin">>)}

MCSeeds == {1}

(* Shards that hold ids at different distances, some of them equal. *)

Hit(id, dist) == [id |-> id, dist |-> dist]
Hold(x, y, z) == [s1 |-> x, s2 |-> y, s3 |-> z]
MCVectorIds == {"a", "b", "c"}
MCShards == <<"s1", "s2", "s3">>
MCHoldings == {
  Hold(<<Hit("a", 1), Hit("b", 2), Hit("c", 3)>>, <<Hit("c", 1), Hit("b", 2), Hit("a", 3)>>, <<Hit("c", 2)>>)}

ServicesInit ==
  /\ CdcInit /\ CrawlInit /\ ShardInit
  /\ focus \in {"cdc", "crawl", "shards"}
  /\ focus # "crawl" => site = CHOOSE s \in Sites : TRUE
  /\ focus # "shards" => holds = CHOOSE h \in Holdings : TRUE

ServicesNext ==
  \/ focus = "cdc" /\ CdcNext /\ UNCHANGED <<crawlVars, shardVars, focus>>
  \/ focus = "crawl" /\ CrawlNext /\ UNCHANGED <<cdcVars, shardVars, focus>>
  \/ focus = "shards" /\ ShardNext /\ UNCHANGED <<cdcVars, crawlVars, focus>>

\* What the fairness of a component speaks of is not enabled while another is followed.
ServicesSpec ==
  /\ ServicesInit /\ [][ServicesNext]_servicesVars
  /\ CdcFairness /\ CrawlFairness /\ ShardFairness
=============================================================================
