------------------------------- MODULE Crawl --------------------------------
(* crawl::crawl (net/crawl.cpp): one thread follows a site's links from a seed,*)
(* breadth first, under robots.txt, with the options every caller leaves as    *)
(* they are (same_host, obey_robots) and a visitor that never stops it.  Any   *)
(* request may fail; what the site answers otherwise is the constant Served.   *)
(* Only urls of the seed's host enter the queue, so the tests for one that     *)
(* cannot be split or is of another host, when it leaves, never succeed.       *)
EXTENDS Integers, FiniteSets, SequencesExt, Robots, Links

CONSTANTS
    Seed,           \* the url the crawl starts from
    Served,         \* url -> [body, html]: the page behind it after redirects
    Redirects,      \* url -> the urls its request is sent on to, in order
    Anchors,        \* body -> its anchors in document order, [href, paginates]
    RobotsTexts,    \* what /robots.txt may hold
    MaxPages,       \* Options::max_pages
    MaxDepth,       \* Options::max_depth
    MaxLinks,       \* Options::max_links_per_page
    QueuePerPage    \* urls ever queued per page allowed (8 in the code)

ASSUME SeedAssumption == Seed.host # ""
ASSUME OptionsAssumption ==
    MaxPages \in Nat /\ MaxDepth \in Nat /\ MaxLinks \in Nat /\ QueuePerPage \in Nat

\* Redirects, anchors, the lines of a robots.txt and its paths are sequences.
ASSUME SiteAssumption ==
    /\ \A url \in DOMAIN Redirects : Redirects[url] \in Seq(ToSet(Redirects[url]))
    /\ \A url \in DOMAIN Served : LET anchors == Anchors[Served[url].body] IN
          Served[url].html => anchors \in Seq(ToSet(anchors))
    /\ \A lines \in RobotsTexts :
          /\ lines \in Seq(ToSet(lines))
          /\ \A line \in ToSet(lines) :
                line.key \in {"allow", "disallow"} => line.value \in Seq(ToSet(line.value))

VARIABLES
    pc,             \* "robots", "crawl" or "done"
    text,           \* the lines of the robots.txt that was served (history)
    robots,         \* the record that governs us
    queue,          \* [url, depth], first in first out
    queued,         \* every url that ever entered the queue
    bodies,         \* body_hashes
    handed,         \* the pages given to the visitor, in order (history)
    asked,          \* the urls of the queue that were asked for (history)
    requested,      \* those, and where redirects led the requests (history)
    refused,        \* the urls robots kept us from (history)
    stats           \* Stats

vars == <<pc, text, robots, queue, queued, bodies, handed, asked, requested, refused,
          stats>>

Init ==
    /\ pc = "robots" /\ text = <<>> /\ robots = AllowAll
    /\ queue = <<[url |-> Seed, depth |-> 0]>>
    /\ queued = {Seed}
    /\ bodies = {} /\ handed = <<>> /\ asked = {} /\ requested = {} /\ refused = {}
    /\ stats = [fetched |-> 0, duplicate |-> 0, robots |-> 0, failed |-> 0]

\* robots.txt is read once; a site that does not serve one is crawled freely.
LoadRobots ==
    /\ pc = "robots" /\ pc' = "crawl"
    /\ \/ \E lines \in RobotsTexts : text' = lines /\ robots' = Parse(lines)
       \/ UNCHANGED <<text, robots>>
    /\ UNCHANGED <<queue, queued, bodies, handed, asked, requested, refused, stats>>

Turning == pc = "crawl" /\ queue # <<>> /\ stats.fetched < MaxPages
Url == Head(queue).url
Depth == Head(queue).depth

\* Mutant: a refused url stays at the head of the queue.
RefuseStays ==
    /\ Turning /\ ~Allowed(robots.rules, PathText(Url))
    /\ refused' = refused \union {Url}
    /\ UNCHANGED <<pc, text, robots, queue, queued, bodies, handed, asked, requested, stats>>

Refuse ==
    /\ Turning /\ ~Allowed(robots.rules, PathText(Url))
    /\ queue' = Tail(queue)
    /\ refused' = refused \union {Url}
    /\ stats' = [stats EXCEPT !.robots = @ + 1]
    /\ UNCHANGED <<pc, text, robots, queued, bodies, handed, asked, requested>>

MayAsk == Turning /\ Allowed(robots.rules, PathText(Url))

\* fetch::get follows redirects by itself: the url it ends at is the page's.
Hops(url) == IF url \in DOMAIN Redirects THEN Redirects[url] ELSE <<>>
Landing(url) == IF Hops(url) = <<>> THEN url ELSE Last(Hops(url))

\* The request for the url at the head, sent on n times; robots is not asked again.
Request(n) ==
    /\ asked' = asked \union {Url}
    /\ requested' = requested \union {Url} \union {Hops(Url)[k] : k \in 1..n}

\* A request may fail wherever its redirects have led it.
Fail ==
    /\ MayAsk
    /\ queue' = Tail(queue)
    /\ \E n \in 0..Len(Hops(Url)) : Request(n)
    /\ stats' = [stats EXCEPT !.failed = @ + 1]
    /\ UNCHANGED <<pc, text, robots, queued, bodies, handed, refused>>

Duplicate ==
    /\ MayAsk /\ Url \in DOMAIN Served /\ Served[Url].body \in bodies
    /\ queue' = Tail(queue)
    /\ Request(Len(Hops(Url)))
    /\ stats' = [stats EXCEPT !.duplicate = @ + 1]
    /\ UNCHANGED <<pc, text, robots, queued, bodies, handed, refused>>

Page(url, depth) ==
    [url |-> Landing(url), asked |-> url, depth |-> depth, body |-> Served[url].body,
     html |-> Served[url].html]

\* The links a page is followed by: none from the last level, none but a page's of markup.
Followed(page) ==
    IF page.depth >= MaxDepth \/ ~page.html THEN <<>>
    ELSE LinksFrom(page.url, Anchors[page.body], MaxLinks)

Limit == MaxPages * QueuePerPage

\* Mutants: the newest link is followed first; a link is marked when it is met,
\* though the queue, bounded by what waits in it, is full.
EnqueueFront(depth, links, to) ==
    FoldLeft(LAMBDA q, url :
               IF url.host = Seed.host /\ url \notin q.queued /\ Cardinality(q.queued) < Limit
               THEN [queue |-> <<[url |-> url, depth |-> depth]>> \o q.queue,
                     queued |-> q.queued \union {url}]
               ELSE q,
             to, links)
EnqueueMarks(depth, links, to) ==
    FoldLeft(LAMBDA q, url :
               IF url.host = Seed.host /\ url \notin q.queued
               THEN [queue |-> IF Len(q.queue) < MaxDepth
                               THEN Append(q.queue, [url |-> url, depth |-> depth]) ELSE q.queue,
                     queued |-> q.queued \union {url}]
               ELSE q,
             to, links)

\* New links of the seed's host join the queue, until too many were ever queued.
Enqueue(depth, links, to) ==
    FoldLeft(LAMBDA q, url :
               IF url.host = Seed.host /\ url \notin q.queued /\ Cardinality(q.queued) < Limit
               THEN [queue |-> Append(q.queue, [url |-> url, depth |-> depth]),
                     queued |-> q.queued \union {url}]
               ELSE q,
             to, links)

Hand ==
    /\ MayAsk /\ Url \in DOMAIN Served /\ Served[Url].body \notin bodies
    /\ Request(Len(Hops(Url)))
    /\ bodies' = bodies \union {Served[Url].body}
    /\ stats' = [stats EXCEPT !.fetched = @ + 1]
    /\ LET page == Page(Url, Depth)
           to == Enqueue(Depth + 1, Followed(page), [queue |-> Tail(queue), queued |-> queued]) IN
       /\ handed' = Append(handed, page)
       /\ queue' = to.queue
       /\ queued' = to.queued
    /\ UNCHANGED <<pc, text, robots, refused>>

Finish ==
    /\ pc = "crawl" /\ ~Turning
    /\ pc' = "done"
    /\ UNCHANGED <<text, robots, queue, queued, bodies, handed, asked, requested,
                   refused, stats>>

Done == pc = "done" /\ UNCHANGED vars

Next == LoadRobots \/ Refuse \/ Fail \/ Duplicate \/ Hand \/ Finish \/ Done

Spec == Init /\ [][Next]_vars

\* The loop never waits but for a request, and every request has a time limit.
FairSpec == Spec /\ WF_vars(Next)
-----------------------------------------------------------------------------
\* What robots.txt says of a path, read as the records it consists of.  The
\* record of a line are the agents named in the block of agent lines above it.
AgentsOf(i) ==
    LET above == {k \in 1..(i - 1) : text[k].key = "agent"}
        last == CHOOSE k \in above : \A j \in above : j <= k IN
    IF above = {} THEN {}
    ELSE {text[k].value : k \in {k \in above : \A j \in k..last : j \in above}}

RulesFor(who) ==
    {i \in DOMAIN text : /\ text[i].key \in {"allow", "disallow"} /\ text[i].value # <<>>
                         /\ who \in AgentsOf(i)}

\* An agent has a record when a line counts for it: an Allow, a path or a delay.
Governs(who) ==
    \/ RulesFor(who) # {}
    \/ \E i \in DOMAIN text : text[i].key = "allow" /\ who \in AgentsOf(i)
    \/ \E i \in DOMAIN text : /\ text[i].key = "delay" /\ who \in AgentsOf(i) /\ text[i].value > 0
                              /\ \A k \in (i + 1)..Len(text) :
                                    text[k].key = "delay" => who \notin AgentsOf(k)

\* crawl.hpp: "the longest matching Disallow wins, an Allow of equal or greater
\* length overrides it, and a record for our agent beats the wildcard record".
Forbidden(path) ==
    LET matching == {i \in RulesFor(IF Governs("ours") THEN "ours" ELSE "*") :
                        IsPrefix(text[i].value, path)} IN
    \E i \in matching :
        /\ text[i].key = "disallow"
        /\ \A k \in matching :
              IF text[k].key = "allow" THEN Len(text[k].value) < Len(text[i].value)
                                       ELSE Len(text[k].value) <= Len(text[i].value)

\* The crawler asks for no url of its queue that robots.txt forbids and skips no
\* other; of the seed's host, a forbidden one is requested only where a redirect of
\* an allowed one leads to it, which the check before the request does not see.
RobotsObeyed ==
    /\ \A url \in asked : ~Forbidden(PathText(url))
    /\ \A url \in refused : Forbidden(PathText(url))
    /\ \A url \in requested : url.host = Seed.host /\ Forbidden(PathText(url)) =>
          \E from \in asked : \E k \in DOMAIN Hops(from) : Hops(from)[k] = url

LinksOnHost(page) == {url \in ToSet(Followed(page)) : url.host = Seed.host}

\* A page's depth is its distance from the seed in the pages handed out: no page
\* is linked from one two levels above it, and each has a page that led to it.
DepthIsLeast ==
    \A i \in DOMAIN handed :
        /\ \A k \in DOMAIN handed :
              handed[i].asked \in LinksOnHost(handed[k]) => handed[i].depth <= handed[k].depth + 1
        /\ handed[i].asked # Seed =>
              \E k \in 1..(i - 1) : /\ handed[i].asked \in LinksOnHost(handed[k])
                                    /\ handed[i].depth = handed[k].depth + 1

\* Every url that was queued is waiting, was asked for once or is refused, and a
\* crawl that ends below its limits has followed every link it was to follow.
NothingLost ==
    /\ queued = {queue[i].url : i \in DOMAIN queue} \union asked \union refused
    /\ Cardinality(queued) =
          Len(queue) + stats.fetched + stats.duplicate + stats.robots + stats.failed
    /\ pc = "done" /\ stats.fetched < MaxPages /\ Cardinality(queued) < Limit =>
          \A i \in DOMAIN handed : LinksOnHost(handed[i]) \subseteq asked \union refused

\* The crawl ends, whatever links lead in circles.
Ends == <>(pc = "done")
=============================================================================
