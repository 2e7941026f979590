---------------------------- MODULE CrawlProofs -----------------------------
(* The crawl hands pages out by their distance from the seed, loses no url and *)
(* obeys the site's robots.txt: for every site, every robots.txt, every limit  *)
(* and whatever requests fail.                                                 *)
EXTENDS Crawl, FiniteSetTheorems, TLAPS

-----------------------------------------------------------------------------
(* Folds.                                                                    *)

Sorts(any, sorted, anchor) == Sort(sorted, anchor)
AddsNew(any, out, url) == AddNew(out, url)
Reads(any, r, line) == ReadLine(r, line)

\* What a link does to the queue when a page at the level above depth is followed.
Joins(depth, q, url) ==
    IF url.host = Seed.host /\ url \notin q.queued /\ Cardinality(q.queued) < Limit
    THEN [queue |-> Append(q.queue, [url |-> url, depth |-> depth]),
          queued |-> q.queued \union {url}]
    ELSE q

Splitting == INSTANCE FoldProofs WITH Op <- Sorts
Collecting == INSTANCE FoldProofs WITH Op <- AddsNew
Reading == INSTANCE FoldProofs WITH Op <- Reads
Joining == INSTANCE FoldProofs WITH Op <- Joins

LEMMA OrderedType ==
    ASSUME NEW A, NEW anchors \in Seq(A)
    PROVE  Ordered(anchors) \in Seq(A)
<1> DEFINE none == [ordered |-> <<>>, rest |-> <<>>]
           T == [ordered : Seq(A), rest : Seq(A)]
<1>1. FoldLeft(Sort, none, anchors) = Splitting!Folded({}, none, anchors)
  BY Zenon DEF Sorts, FoldLeft, MapThenFoldSet, Max,
     Splitting!Folded, Splitting!FoldLeft, Splitting!MapThenFoldSet, Splitting!Max
<1>2. none \in T
  OBVIOUS
<1>3. Splitting!Keeps({}, T, A)
  <2>1. ASSUME NEW sorted \in T, NEW anchor \in A
        PROVE  Sort(sorted, anchor) \in T
    <3>1. Append(sorted.ordered, anchor) \in Seq(A) /\ Append(sorted.rest, anchor) \in Seq(A)
      OBVIOUS
    <3> QED
      BY <3>1 DEF Sort
  <2> QED
    BY <2>1, Zenon DEF Splitting!Keeps, Sorts
<1>4. FoldLeft(Sort, none, anchors) \in T
  <2> HIDE DEF T, none
  <2>1. Splitting!Folded({}, none, anchors) \in T
    BY <1>2, <1>3, Splitting!FoldType
  <2> QED
    BY <1>1, <2>1, Zenon
<1>5. Ordered(anchors) = FoldLeft(Sort, none, anchors).ordered \o FoldLeft(Sort, none, anchors).rest
  BY Zenon DEF Ordered
<1> DEFINE sorted == FoldLeft(Sort, none, anchors)
<1> HIDE DEF sorted
<1>6. sorted.ordered \o sorted.rest \in Seq(A)
  BY <1>4 DEF sorted
<1> QED
  BY <1>5, <1>6 DEF sorted

LEMMA LinksType ==
    ASSUME NEW url, NEW A, NEW anchors \in Seq(A)
    PROVE  LinksFrom(url, anchors, MaxLinks) \in Seq(ToSet(LinksFrom(url, anchors, MaxLinks)))
<1> DEFINE links == [k \in DOMAIN Ordered(anchors) |-> Resolve(url, Ordered(anchors)[k].href)]
           R == {Resolve(url, a.href) : a \in A}
           found == FoldLeft(AddNew, <<>>, links)
<1>1. links \in Seq(R)
  <2>1. Ordered(anchors) \in Seq(A)
    BY OrderedType
  <2> QED
    BY <2>1
<1> HIDE DEF links
<1>2. found = Collecting!Folded({}, <<>>, links)
  BY Zenon DEF AddsNew, FoldLeft, MapThenFoldSet, Max,
     Collecting!Folded, Collecting!FoldLeft, Collecting!MapThenFoldSet, Collecting!Max
<1>3. Collecting!Keeps({}, Seq(R), R) /\ <<>> \in Seq(R)
  <2> HIDE DEF R
  <2> QED
    BY DEF Collecting!Keeps, AddsNew, AddNew
<1>4. found \in Seq(R)
  <2> DEFINE T == Seq(R)
  <2>1. Collecting!Keeps({}, T, R) /\ <<>> \in T
    BY <1>3
  <2> HIDE DEF T, R
  <2>2. Collecting!Folded({}, <<>>, links) \in T
    BY <1>1, <2>1, Collecting!FoldType
  <2>3. found \in T
    BY <1>2, <2>2, Zenon
  <2> QED
    BY <2>3 DEF T
<1>5. LinksFrom(url, anchors, MaxLinks) =
         IF Len(found) > MaxLinks THEN SubSeq(found, 1, MaxLinks) ELSE found
  BY Zenon DEF LinksFrom, links
<1> HIDE DEF found, R
<1>6. LinksFrom(url, anchors, MaxLinks) \in Seq(R)
  BY <1>4, <1>5, OptionsAssumption, Collecting!ShortType
<1> DEFINE s == LinksFrom(url, anchors, MaxLinks)
<1> HIDE DEF s
<1>7. s \in Seq(R) => s \in Seq(ToSet(s))
  BY DEF ToSet
<1> QED
  BY <1>6, <1>7 DEF s

-----------------------------------------------------------------------------
(* The queue.                                                                *)

\* The urls a crawl may meet, and the pages it may hand out.
Urls ==
    {Seed} \union UNION {ToSet(LinksFrom(Landing(url), Anchors[Served[url].body], MaxLinks)) :
                            url \in {u \in DOMAIN Served : Served[u].html}}
Entry == [url : Urls, depth : Nat]
Pages == {Page(url, depth) : url \in DOMAIN Served, depth \in Nat}

LEMMA FollowedType ==
    ASSUME NEW page \in Pages
    PROVE  /\ Followed(page) \in Seq(Urls)
           /\ page.asked \in DOMAIN Served /\ page.depth \in Nat
<1>1. PICK url \in DOMAIN Served, depth \in Nat : page = Page(url, depth)
  BY DEF Pages
<1>2. /\ page.asked = url /\ page.depth = depth /\ page.url = Landing(url)
      /\ page.body = Served[url].body /\ page.html = Served[url].html
  BY <1>1 DEF Page
<1>3. CASE Served[url].html
  <2> DEFINE links == LinksFrom(Landing(url), Anchors[Served[url].body], MaxLinks)
  <2>1. links \in Seq(ToSet(links))
    <3>1. Anchors[Served[url].body] \in Seq(ToSet(Anchors[Served[url].body]))
      BY <1>3, SiteAssumption
    <3> QED
      BY <3>1, LinksType, Zenon
  <2>2. ToSet(links) \subseteq Urls
    BY <1>3, Zenon DEF Urls
  <2>3. Followed(page) = <<>> \/ Followed(page) = links
    BY <1>2, Zenon DEF Followed
  <2> HIDE DEF links
  <2>4. ASSUME NEW S, links \in Seq(S), S \subseteq Urls
        PROVE  links \in Seq(Urls)
    BY <2>4
  <2>5. links \in Seq(Urls)
    BY <2>1, <2>2, <2>4, Zenon
  <2>6. <<>> \in Seq(Urls)
    OBVIOUS
  <2>7. Followed(page) \in Seq(Urls)
    BY <2>3, <2>5, <2>6, Zenon
  <2> QED
    BY <1>2, <2>7
<1>4. CASE ~Served[url].html
  <2>1. Followed(page) = <<>>
    BY <1>2, <1>4, Zenon DEF Followed
  <2> QED
    BY <1>2, <2>1
<1> QED
  BY <1>3, <1>4

\* What following links from a page does to the queue: r is queue and queued of to
\* with some of the links added, each new to it, of the seed's host and at the depth.
Added(depth, links, to, r) ==
    /\ r.queue \in Seq(Entry) /\ r.queued \subseteq Urls /\ IsFiniteSet(r.queued)
    /\ Len(to.queue) <= Len(r.queue) /\ \A i \in DOMAIN to.queue : r.queue[i] = to.queue[i]
    /\ \A i \in DOMAIN r.queue : i > Len(to.queue) =>
          /\ r.queue[i].depth = depth /\ r.queue[i].url.host = Seed.host
          /\ r.queue[i].url \in ToSet(links) \ to.queued
          /\ Cardinality(to.queued) < Limit
    /\ r.queued = to.queued \union {r.queue[i].url : i \in {k \in DOMAIN r.queue : k > Len(to.queue)}}
    /\ Cardinality(r.queued) + Len(to.queue) = Cardinality(to.queued) + Len(r.queue)
    /\ Cardinality(to.queued) <= Cardinality(r.queued)

Queues == [queue : Seq(Entry), queued : {q \in SUBSET Urls : IsFiniteSet(q)}]

\* One more link.
LEMMA JoinAdds ==
    ASSUME NEW depth \in Nat, NEW links, NEW to \in Queues, NEW q, Added(depth, links, to, q),
           NEW url \in ToSet(links), url \in Urls
    PROVE  LET r == Joins(depth, q, url) IN
           /\ Added(depth, links, to, r)
           /\ q.queued \subseteq r.queued /\ Cardinality(q.queued) <= Cardinality(r.queued)
           /\ url.host = Seed.host => url \in r.queued \/ Cardinality(r.queued) >= Limit
<1> DEFINE r == Joins(depth, q, url)
<1>1. /\ Cardinality(q.queued) \in Nat /\ Cardinality(to.queued) \in Nat
      /\ to.queue \in Seq(Entry) /\ q.queue \in Seq(Entry) /\ Limit \in Nat
  BY FS_CardinalityType, OptionsAssumption DEF Added, Queues, Limit
<1>2. CASE url.host = Seed.host /\ url \notin q.queued /\ Cardinality(q.queued) < Limit
  <2> DEFINE new == [url |-> url, depth |-> depth]
  <2>1. r.queue = Append(q.queue, new) /\ r.queued = q.queued \union {url}
    BY <1>2 DEF Joins
  <2>2. new \in Entry /\ new.url = url /\ new.depth = depth
    BY DEF Entry
  <2>3. /\ IsFiniteSet(r.queued) /\ Cardinality(r.queued) = Cardinality(q.queued) + 1
    <3> DEFINE old == q.queued
    <3>1. IsFiniteSet(old) /\ url \notin old
      BY <1>2 DEF Added
    <3> HIDE DEF old
    <3>2. IsFiniteSet(old \union {url}) /\ Cardinality(old \union {url}) = Cardinality(old) + 1
      BY <3>1, FS_AddElement
    <3> QED
      BY <2>1, <3>2 DEF old
  <2> HIDE DEF new
  <2>4. /\ r.queue \in Seq(Entry) /\ Len(r.queue) = Len(q.queue) + 1
        /\ \A i \in DOMAIN q.queue : r.queue[i] = q.queue[i]
        /\ r.queue[Len(r.queue)] = new
        /\ DOMAIN r.queue = DOMAIN q.queue \union {Len(r.queue)}
    BY <1>1, <2>1, <2>2
  <2> HIDE DEF r
  <2>5. to.queued \subseteq q.queued /\ Cardinality(to.queued) <= Cardinality(q.queued)
    BY DEF Added
  <2>6. Len(to.queue) <= Len(q.queue) /\ Len(q.queue) \in Nat /\ Len(to.queue) \in Nat
    BY <1>1 DEF Added
  <2>7. r.queued = to.queued \union {r.queue[i].url : i \in {k \in DOMAIN r.queue : k > Len(to.queue)}}
    <3>1. {r.queue[i].url : i \in {k \in DOMAIN r.queue : k > Len(to.queue)}} =
             {q.queue[i].url : i \in {k \in DOMAIN q.queue : k > Len(to.queue)}} \union {url}
      BY <2>2, <2>4, <2>6
    <3>2. q.queued = to.queued \union {q.queue[i].url : i \in {k \in DOMAIN q.queue : k > Len(to.queue)}}
      BY DEF Added
    <3> QED
      BY <2>1, <3>1, <3>2
  <2>8. \A i \in DOMAIN r.queue : i > Len(to.queue) =>
          /\ r.queue[i].depth = depth /\ r.queue[i].url.host = Seed.host
          /\ r.queue[i].url \in ToSet(links) \ to.queued
          /\ Cardinality(to.queued) < Limit
    <3>1. ASSUME NEW i \in DOMAIN q.queue, i > Len(to.queue)
          PROVE  /\ r.queue[i].depth = depth /\ r.queue[i].url.host = Seed.host
                 /\ r.queue[i].url \in ToSet(links) \ to.queued
      BY <2>4, <3>1 DEF Added
    <3>2. /\ new.depth = depth /\ new.url.host = Seed.host
          /\ new.url \in ToSet(links) \ to.queued
      BY <1>2, <2>2, <2>5
    <3>3. Cardinality(to.queued) < Limit
      BY <1>1, <1>2, <2>5
    <3> QED
      BY <2>4, <3>1, <3>2, <3>3
  <2>9. \A i \in DOMAIN to.queue : r.queue[i] = to.queue[i]
    BY <1>1, <2>4, <2>6 DEF Added
  <2>10. Added(depth, links, to, r)
    <3>1. /\ r.queued \subseteq Urls
          /\ Cardinality(r.queued) + Len(to.queue) = Cardinality(to.queued) + Len(r.queue)
          /\ Cardinality(to.queued) <= Cardinality(r.queued)
          /\ Len(to.queue) <= Len(r.queue)
      <4>1. q.queued \subseteq Urls /\ Len(to.queue) <= Len(q.queue)
            /\ Cardinality(q.queued) + Len(to.queue) = Cardinality(to.queued) + Len(q.queue)
        BY DEF Added
      <4>2. r.queued \subseteq Urls
        BY <2>1, <4>1
      <4>3. PICK a, b, c, x, y, z :
               /\ a = Cardinality(q.queued) /\ b = Cardinality(r.queued) /\ c = Cardinality(to.queued)
               /\ x = Len(q.queue) /\ y = Len(r.queue) /\ z = Len(to.queue)
        OBVIOUS
      <4>4. a \in Nat /\ c \in Nat /\ x \in Nat /\ z \in Nat /\ b = a + 1 /\ y = x + 1
        BY <1>1, <2>3, <2>4, <2>6, <4>3, Zenon
      <4>5. a + z = c + x /\ c <= a /\ z <= x
        BY <2>5, <4>1, <4>3, Zenon
      <4>6. b + z = c + y /\ c <= b /\ z <= y
        BY <4>4, <4>5
      <4> QED
        BY <4>2, <4>3, <4>6, Zenon
    <3> QED
      BY <2>3, <2>4, <2>7, <2>8, <2>9, <3>1, Zenon DEF Added
  <2> QED
    BY <1>1, <2>1, <2>3, <2>10 DEF r
<1>3. CASE ~(url.host = Seed.host /\ url \notin q.queued /\ Cardinality(q.queued) < Limit)
  <2>1. r = q
    BY <1>3 DEF Joins
  <2> HIDE DEF r
  <2> QED
    BY <1>1, <1>3, <2>1 DEF r
<1> QED
  BY <1>2, <1>3

\* The links of the seed's host are in the queue then, or it is full.
LEMMA EnqueueAdds ==
    ASSUME NEW depth \in Nat, NEW links \in Seq(Urls), NEW to \in Queues
    PROVE  LET r == Enqueue(depth, links, to) IN
           /\ Added(depth, links, to, r)
           /\ \A url \in ToSet(links) : url.host = Seed.host =>
                 url \in r.queued \/ Cardinality(r.queued) >= Limit
<1> DEFINE n == Len(links)
<1>1. Enqueue(depth, links, to) = Joining!Folded(depth, to, links)
  BY Zenon DEF Enqueue, Joins, FoldLeft, MapThenFoldSet, Max,
     Joining!Folded, Joining!FoldLeft, Joining!MapThenFoldSet, Joining!Max
<1>2. Joining!Keeps(depth, Queues, Urls)
  <2>1. ASSUME NEW q \in Queues, NEW url \in Urls
        PROVE  Joins(depth, q, url) \in Queues
    <3>1. [url |-> url, depth |-> depth] \in Entry
      BY DEF Entry
    <3>2. Append(q.queue, [url |-> url, depth |-> depth]) \in Seq(Entry)
      BY <3>1 DEF Queues
    <3>3. IsFiniteSet(q.queued \union {url})
      BY FS_AddElement DEF Queues
    <3> QED
      BY <3>2, <3>3 DEF Joins, Queues
  <2> QED
    BY <2>1, Zenon DEF Joining!Keeps
<1>3. PICK run : Joining!IsRun(depth, to, links, run) /\ \A k \in 0..n : run[k] \in Queues
  BY <1>2, Joining!FoldRuns, Zenon
<1>4. /\ run[0] = to /\ run[n] = Enqueue(depth, links, to) /\ n \in Nat
      /\ \A k \in 1..n : run[k] = Joins(depth, run[k - 1], links[k])
  BY <1>1, <1>3 DEF Joining!IsRun
<1> DEFINE Met(k) == \A j \in 1..k : links[j].host = Seed.host =>
                        links[j] \in run[k].queued \/ Cardinality(run[k].queued) >= Limit
           G == {k \in 0..n : Added(depth, links, to, run[k]) /\ Met(k)}
<1>5. 0 \in G
  <2>1. to.queue \in Seq(Entry) /\ to.queued \subseteq Urls /\ IsFiniteSet(to.queued)
    BY DEF Queues
  <2>2. Cardinality(to.queued) \in Nat
    BY <2>1, FS_CardinalityType
  <2>3. Added(depth, links, to, to)
    BY <2>1, <2>2 DEF Added
  <2> QED
    BY <1>4, <2>3
<1>6. ASSUME NEW k \in 1..n, k - 1 \in G
      PROVE  k \in G
  <2>1. links[k] \in ToSet(links) /\ links[k] \in Urls
    BY <1>4 DEF ToSet
  <2>2. Added(depth, links, to, run[k - 1]) /\ Met(k - 1)
    BY <1>6
  <2>3. /\ Added(depth, links, to, run[k])
        /\ run[k - 1].queued \subseteq run[k].queued
        /\ Cardinality(run[k - 1].queued) <= Cardinality(run[k].queued)
        /\ links[k].host = Seed.host => links[k] \in run[k].queued \/ Cardinality(run[k].queued) >= Limit
    BY <1>4, <2>1, <2>2, JoinAdds, Zenon
  <2>4. /\ Cardinality(run[k - 1].queued) \in Nat /\ Cardinality(run[k].queued) \in Nat
        /\ Limit \in Nat
    BY <2>2, <2>3, FS_CardinalityType, OptionsAssumption DEF Added, Limit
  <2>5. Met(k)
    <3> SUFFICES ASSUME NEW j \in 1..k, links[j].host = Seed.host
                 PROVE  links[j] \in run[k].queued \/ Cardinality(run[k].queued) >= Limit
      OBVIOUS
    <3>1. CASE j = k
      BY <2>3, <3>1
    <3>2. CASE j # k
      <4>1. j \in 1..(k - 1)
        BY <1>4, <3>2
      <4>2. links[j] \in run[k - 1].queued \/ Cardinality(run[k - 1].queued) >= Limit
        BY <2>2, <4>1
      <4> QED
        BY <2>3, <2>4, <4>2
    <3> QED
      BY <3>1, <3>2
  <2> QED
    BY <2>3, <2>5
<1>7. n \in G
  <2> HIDE DEF G, n
  <2> QED
    BY <1>4, <1>5, <1>6, Joining!ReachesLast
<1>8. \A url \in ToSet(links) : \E j \in 1..n : url = links[j]
  BY <1>4 DEF ToSet
<1> QED
  BY <1>4, <1>7, <1>8

-----------------------------------------------------------------------------
(* What holds at every step of a crawl.                                      *)

QueueType ==
    /\ queue \in Seq(Entry) /\ queued \subseteq Urls /\ IsFiniteSet(queued) /\ Seed \in queued
    /\ handed \in Seq(Pages)
    /\ stats \in [fetched : Nat, duplicate : Nat, robots : Nat, failed : Nat]
    /\ pc = "done" => queue = <<>> \/ stats.fetched >= MaxPages

\* The queue has the depth of its head, then the next; what was handed out is no deeper.
Levels ==
    /\ \A i, j \in DOMAIN queue : i <= j => queue[i].depth <= queue[j].depth
    /\ \A i \in DOMAIN queue : queue[i].depth <= queue[1].depth + 1
    /\ \A i \in DOMAIN queue, k \in DOMAIN handed : handed[k].depth <= queue[i].depth

\* An url that waits has a page that led to it, and none that would have it nearer.
Led ==
    \A i \in DOMAIN queue :
        /\ \A k \in DOMAIN handed :
              queue[i].url \in LinksOnHost(handed[k]) => queue[i].depth <= handed[k].depth + 1
        /\ queue[i].url # Seed =>
              \E k \in DOMAIN handed : /\ queue[i].url \in LinksOnHost(handed[k])
                                       /\ queue[i].depth = handed[k].depth + 1

\* A link that did not enter the queue found it full, and full it stays.
Met ==
    \A k \in DOMAIN handed : LinksOnHost(handed[k]) \subseteq queued \/ Cardinality(queued) >= Limit

Waiting == {queue[i].url : i \in DOMAIN queue}
Counted ==
    /\ queued = Waiting \union asked \union refused
    /\ Cardinality(queued) =
          Len(queue) + stats.fetched + stats.duplicate + stats.robots + stats.failed

CrawlInv == QueueType /\ Levels /\ Led /\ Met /\ DepthIsLeast /\ Counted

\* When the queue is not full, what the pages link to was queued; when it is empty too,
\* that was asked for or refused.
LEMMA CountedIsAll == CrawlInv => NothingLost
<1> SUFFICES ASSUME CrawlInv
             PROVE  NothingLost
  OBVIOUS
<1>1. queued = Waiting \union asked \union refused
  BY DEF CrawlInv, Counted
<1>2. ASSUME pc = "done", stats.fetched < MaxPages, Cardinality(queued) < Limit, NEW i \in DOMAIN handed
      PROVE  LinksOnHost(handed[i]) \subseteq asked \union refused
  <2>1. stats.fetched \in Nat /\ Cardinality(queued) \in Nat /\ Limit \in Nat /\ MaxPages \in Nat
    BY FS_CardinalityType, OptionsAssumption DEF CrawlInv, QueueType, Limit
  <2>2. queue = <<>>
    BY <1>2, <2>1 DEF CrawlInv, QueueType
  <2>3. Waiting = {}
    BY <2>2 DEF Waiting
  <2>4. LinksOnHost(handed[i]) \subseteq queued \/ Cardinality(queued) >= Limit
    BY DEF CrawlInv, Met
  <2> QED
    BY <1>1, <1>2, <2>1, <2>3, <2>4
<1>3. /\ queued = {queue[i].url : i \in DOMAIN queue} \union asked \union refused
      /\ Cardinality(queued) =
            Len(queue) + stats.fetched + stats.duplicate + stats.robots + stats.failed
  BY DEF CrawlInv, Counted, Waiting
<1> QED
  BY <1>2, <1>3 DEF NothingLost

LEMMA CrawlInit == Init => CrawlInv
<1> SUFFICES ASSUME Init
             PROVE  CrawlInv
  OBVIOUS
<1>1. /\ queue = <<[url |-> Seed, depth |-> 0]>> /\ queued = {Seed} /\ handed = <<>>
      /\ asked = {} /\ refused = {} /\ pc = "robots"
      /\ stats = [fetched |-> 0, duplicate |-> 0, robots |-> 0, failed |-> 0]
  BY DEF Init
<1>2. Len(queue) = 1 /\ DOMAIN queue = {1} /\ queue[1].url = Seed /\ queue[1].depth = 0
  BY <1>1
<1>3. [url |-> Seed, depth |-> 0] \in Entry
  BY DEF Entry, Urls
<1>4. queue \in Seq(Entry) /\ handed \in Seq(Pages) /\ DOMAIN handed = {}
  BY <1>1, <1>3
<1>5. IsFiniteSet({Seed}) /\ Cardinality({Seed}) = 1
  BY FS_Singleton
<1>6. QueueType
  BY <1>1, <1>4, <1>5 DEF QueueType, Urls
<1>7. Levels /\ Led /\ Met /\ DepthIsLeast
  BY <1>2, <1>4 DEF Levels, Led, Met, DepthIsLeast
<1>8. Counted
  BY <1>1, <1>2, <1>5 DEF Counted, Waiting
<1> QED
  BY <1>6, <1>7, <1>8 DEF CrawlInv

\* The queue without its head.
LEMMA TailFacts ==
    ASSUME QueueType, queue # <<>>
    PROVE  /\ Tail(queue) \in Seq(Entry) /\ Len(Tail(queue)) = Len(queue) - 1
           /\ Len(queue) \in Nat \ {0} /\ 1 \in DOMAIN queue
           /\ DOMAIN Tail(queue) = 1..(Len(queue) - 1)
           /\ \A i \in DOMAIN Tail(queue) : i + 1 \in DOMAIN queue /\ Tail(queue)[i] = queue[i + 1]
           /\ Url = queue[1].url /\ Depth = queue[1].depth /\ Depth \in Nat /\ Url \in Urls
           /\ Waiting = {Url} \union {Tail(queue)[i].url : i \in DOMAIN Tail(queue)}
<1>1. queue \in Seq(Entry)
  BY DEF QueueType
<1>2. queue[1] \in Entry /\ 1 \in DOMAIN queue
  BY <1>1
<1>3. Url = queue[1].url /\ Depth = queue[1].depth /\ Depth \in Nat /\ Url \in Urls
  BY <1>1, <1>2 DEF Url, Depth, Entry
<1>4. /\ Tail(queue) \in Seq(Entry) /\ Len(Tail(queue)) = Len(queue) - 1
      /\ Len(queue) \in Nat \ {0} /\ DOMAIN queue = 1..Len(queue)
      /\ DOMAIN Tail(queue) = 1..(Len(queue) - 1)
      /\ \A i \in DOMAIN Tail(queue) : i + 1 \in DOMAIN queue /\ Tail(queue)[i] = queue[i + 1]
  BY <1>1
<1>5. ASSUME NEW i \in DOMAIN queue
      PROVE  i = 1 \/ \E j \in DOMAIN Tail(queue) : Tail(queue)[j] = queue[i]
  <2>1. i = 1 \/ \E j \in DOMAIN Tail(queue) : i = j + 1
    <3>1. i = 1 \/ i - 1 \in DOMAIN Tail(queue)
      BY <1>4
    <3> QED
      BY <1>4, <3>1
  <2> QED
    BY <1>4, <2>1
<1>6. Waiting = {Url} \union {Tail(queue)[i].url : i \in DOMAIN Tail(queue)}
  <2>1. ASSUME NEW i \in DOMAIN queue
        PROVE  queue[i].url \in {Url} \union {Tail(queue)[k].url : k \in DOMAIN Tail(queue)}
    BY <1>3, <1>5
  <2>2. Url \in Waiting /\ \A i \in DOMAIN Tail(queue) : Tail(queue)[i].url \in Waiting
    BY <1>2, <1>3, <1>4 DEF Waiting
  <2> QED
    BY <2>1, <2>2 DEF Waiting
<1> QED
  BY <1>2, <1>3, <1>4, <1>6

\* The head leaves the queue and no page is handed out.
LEMMA HeadLeaves ==
    ASSUME CrawlInv, queue # <<>>, pc' = pc, pc = "crawl",
           queue' = Tail(queue), queued' = queued, handed' = handed,
           asked' \union refused' = asked \union refused \union {Url},
           stats' \in [fetched : Nat, duplicate : Nat, robots : Nat, failed : Nat],
           stats'.fetched + stats'.duplicate + stats'.robots + stats'.failed =
              stats.fetched + stats.duplicate + stats.robots + stats.failed + 1
    PROVE  CrawlInv'
<1>1. /\ Tail(queue) \in Seq(Entry) /\ Len(Tail(queue)) = Len(queue) - 1
      /\ Len(queue) \in Nat \ {0} /\ 1 \in DOMAIN queue
      /\ DOMAIN Tail(queue) = 1..(Len(queue) - 1)
      /\ \A i \in DOMAIN Tail(queue) : i + 1 \in DOMAIN queue /\ Tail(queue)[i] = queue[i + 1]
      /\ Waiting = {Url} \union {Tail(queue)[i].url : i \in DOMAIN Tail(queue)}
  BY TailFacts DEF CrawlInv
<1>2. QueueType'
  BY <1>1 DEF CrawlInv, QueueType
<1>3. Levels'
  <2>1. \A i \in DOMAIN Tail(queue), k \in DOMAIN handed : handed[k].depth <= Tail(queue)[i].depth
    BY <1>1 DEF CrawlInv, Levels
  <2>2. \A i, j \in DOMAIN Tail(queue) : i <= j => Tail(queue)[i].depth <= Tail(queue)[j].depth
    BY <1>1 DEF CrawlInv, Levels
  <2>3. ASSUME NEW i \in DOMAIN Tail(queue)
        PROVE  Tail(queue)[i].depth <= Tail(queue)[1].depth + 1
    <3>1. 1 \in DOMAIN Tail(queue) /\ 2 \in DOMAIN queue /\ Tail(queue)[1] = queue[2]
          /\ Tail(queue)[i] = queue[i + 1] /\ i + 1 \in DOMAIN queue
      BY <1>1
    <3>2. queue[i + 1].depth <= queue[1].depth + 1 /\ queue[1].depth <= queue[2].depth
      <4>1. \A a, b \in DOMAIN queue : a <= b => queue[a].depth <= queue[b].depth
        BY DEF CrawlInv, Levels
      <4>2. queue[1].depth <= queue[2].depth
        BY <1>1, <3>1, <4>1
      <4> QED
        BY <3>1, <4>2 DEF CrawlInv, Levels
    <3>3. queue[1].depth \in Nat /\ queue[2].depth \in Nat /\ queue[i + 1].depth \in Nat
      <4>1. \A j \in DOMAIN queue : queue[j] \in Entry
        BY DEF CrawlInv, QueueType
      <4> QED
        BY <1>1, <3>1, <4>1 DEF Entry
    <3>4. \A a, b, c \in Nat : a <= b + 1 /\ b <= c => a <= c + 1
      OBVIOUS
    <3> QED
      BY <3>1, <3>2, <3>3, <3>4, Zenon
  <2> QED
    BY <2>1, <2>2, <2>3 DEF Levels
<1>4. Led'
  <2>1. ASSUME NEW i \in DOMAIN Tail(queue)
        PROVE  /\ \A k \in DOMAIN handed : Tail(queue)[i].url \in LinksOnHost(handed[k]) =>
                     Tail(queue)[i].depth <= handed[k].depth + 1
               /\ Tail(queue)[i].url # Seed =>
                     \E k \in DOMAIN handed : /\ Tail(queue)[i].url \in LinksOnHost(handed[k])
                                              /\ Tail(queue)[i].depth = handed[k].depth + 1
    <3>1. i + 1 \in DOMAIN queue /\ Tail(queue)[i] = queue[i + 1]
      BY <1>1
    <3> QED
      BY <3>1 DEF CrawlInv, Led
  <2> QED
    BY <2>1 DEF Led
<1>5. Met' /\ DepthIsLeast'
  BY DEF CrawlInv, Met, DepthIsLeast
<1>6. Counted'
  <2>1. queued' = Waiting' \union asked' \union refused'
    <3>1. Waiting' = {Tail(queue)[i].url : i \in DOMAIN Tail(queue)}
      BY DEF Waiting
    <3>2. queued = Waiting \union asked \union refused
      BY DEF CrawlInv, Counted
    <3> QED
      BY <1>1, <3>1, <3>2
  <2>2. Cardinality(queued) =
           Len(queue) + stats.fetched + stats.duplicate + stats.robots + stats.failed
    BY DEF CrawlInv, Counted
  <2>3. stats \in [fetched : Nat, duplicate : Nat, robots : Nat, failed : Nat]
    BY DEF CrawlInv, QueueType
  <2>4. Len(queue') = Len(queue) - 1
    BY <1>1
  <2>5. Cardinality(queued') =
           Len(queue') + stats'.fetched + stats'.duplicate + stats'.robots + stats'.failed
    <3>1. stats.fetched \in Nat /\ stats.duplicate \in Nat /\ stats.robots \in Nat /\ stats.failed \in Nat
      BY <2>3
    <3>2. stats'.fetched \in Nat /\ stats'.duplicate \in Nat /\ stats'.robots \in Nat /\ stats'.failed \in Nat
      OBVIOUS
    <3>3. Len(queue) \in Nat /\ queued' = queued
      BY <1>1
    <3> QED
      <4>1. PICK l, f, d, r, x, f2, d2, r2, x2 :
               /\ l = Len(queue) /\ f = stats.fetched /\ d = stats.duplicate /\ r = stats.robots
               /\ x = stats.failed /\ f2 = stats'.fetched /\ d2 = stats'.duplicate
               /\ r2 = stats'.robots /\ x2 = stats'.failed
        OBVIOUS
      <4>2. l \in Nat /\ f \in Nat /\ d \in Nat /\ r \in Nat /\ x \in Nat
        BY <3>1, <3>3, <4>1, Zenon
      <4>3. f2 \in Nat /\ d2 \in Nat /\ r2 \in Nat /\ x2 \in Nat
        BY <3>2, <4>1, Zenon
      <4>4. f2 + d2 + r2 + x2 = f + d + r + x + 1
        BY <4>1, Zenon
      <4>5. l + f + d + r + x = (l - 1) + f2 + d2 + r2 + x2
        BY <4>2, <4>3, <4>4
      <4>6. Cardinality(queued') = l + f + d + r + x /\ Len(queue') = l - 1
        BY <2>2, <2>4, <3>3, <4>1, Zenon
      <4> QED
        BY <4>1, <4>5, <4>6, Zenon
  <2> QED
    BY <2>1, <2>5 DEF Counted
<1> QED
  BY <1>2, <1>3, <1>4, <1>5, <1>6 DEF CrawlInv

\* A page is handed out and the links it is followed by join the queue.
LEMMA HandKeeps == CrawlInv /\ Hand => CrawlInv'
<1> SUFFICES ASSUME CrawlInv, Hand
             PROVE  CrawlInv'
  OBVIOUS
<1> DEFINE page == Page(Url, Depth)
           tail == Tail(queue)
           m == Len(queue) - 1
           to == [queue |-> tail, queued |-> queued]
<1>1. /\ pc = "crawl" /\ pc' = pc /\ queue # <<>> /\ Url \in DOMAIN Served
      /\ asked' = asked \union {Url} /\ refused' = refused
      /\ stats' = [stats EXCEPT !.fetched = @ + 1]
      /\ handed' = Append(handed, page)
      /\ queue' = Enqueue(Depth + 1, Followed(page), to).queue
      /\ queued' = Enqueue(Depth + 1, Followed(page), to).queued
  BY DEF Hand, Request, MayAsk, Turning
<1>2. QueueType
  BY DEF CrawlInv
<1>3. /\ tail \in Seq(Entry) /\ Len(tail) = m /\ m \in Nat /\ 1 \in DOMAIN queue
      /\ Len(queue) = m + 1
      /\ DOMAIN tail = 1..m
      /\ \A i \in 1..m : i + 1 \in DOMAIN queue /\ tail[i] = queue[i + 1]
      /\ Url = queue[1].url /\ Depth = queue[1].depth /\ Depth \in Nat /\ Url \in Urls
      /\ Waiting = {Url} \union {tail[i].url : i \in 1..m}
  <2>1. Len(queue) \in Nat \ {0} => m \in Nat /\ Len(queue) = m + 1
    OBVIOUS
  <2> QED
    BY <1>1, <1>2, <2>1, TailFacts
<1>4. page \in Pages /\ page.asked = Url /\ page.depth = Depth /\ Followed(page) \in Seq(Urls)
  <2>1. page \in Pages
    BY <1>1, <1>3 DEF Pages
  <2> QED
    BY <2>1, FollowedType DEF Page
<1>5. to \in Queues /\ to.queue = tail /\ to.queued = queued
  BY <1>2, <1>3 DEF Queues, QueueType
<1> HIDE DEF page, tail, m
<1>6. /\ Added(Depth + 1, Followed(page), to, Enqueue(Depth + 1, Followed(page), to))
      /\ \A url \in ToSet(Followed(page)) : url.host = Seed.host =>
            url \in queued' \/ Cardinality(queued') >= Limit
  <2> HIDE DEF to
  <2>1. Depth + 1 \in Nat
    BY <1>3
  <2> QED
    BY <1>1, <1>4, <1>5, <2>1, EnqueueAdds, Zenon
<1>7. /\ queue' \in Seq(Entry) /\ queued' \subseteq Urls /\ IsFiniteSet(queued')
      /\ m <= Len(queue') /\ \A i \in 1..m : queue'[i] = tail[i]
      /\ \A i \in DOMAIN queue' : i > m =>
            /\ queue'[i].depth = Depth + 1 /\ queue'[i].url.host = Seed.host
            /\ queue'[i].url \in ToSet(Followed(page)) \ queued
            /\ Cardinality(queued) < Limit
      /\ queued' = queued \union {queue'[i].url : i \in {k \in DOMAIN queue' : k > m}}
      /\ Cardinality(queued') + m = Cardinality(queued) + Len(queue')
      /\ Cardinality(queued) <= Cardinality(queued')
  <2> HIDE DEF to
  <2>1. PICK r : r = Enqueue(Depth + 1, Followed(page), to)
    OBVIOUS
  <2>2. queue' = r.queue /\ queued' = r.queued /\ Added(Depth + 1, Followed(page), to, r)
    BY <1>1, <1>6, <2>1, Zenon
  <2>3. Len(to.queue) = m /\ DOMAIN to.queue = 1..m
    BY <1>3, <1>5, Zenon
  <2> QED
    BY <1>5, <2>2, <2>3, Zenon DEF Added
<1> HIDE DEF to
\* What the entries of the queue are: the old ones, moved up, and the new ones.
<1>8. ASSUME NEW i \in DOMAIN queue'
      PROVE  \/ i \in 1..m /\ i + 1 \in DOMAIN queue /\ queue'[i] = queue[i + 1]
             \/ /\ i > m /\ queue'[i].depth = Depth + 1
                /\ queue'[i].url \in LinksOnHost(page) \ queued
                /\ Cardinality(queued) < Limit
  <2>1. CASE i > m
    BY <1>7, <2>1 DEF LinksOnHost
  <2>2. CASE ~(i > m)
    <3>1. i \in 1..m
      BY <1>3, <1>7, <2>2
    <3> QED
      BY <1>3, <1>7, <3>1
  <2> QED
    BY <2>1, <2>2
<1>9. /\ handed \in Seq(Pages) /\ handed' \in Seq(Pages) /\ Len(handed') = Len(handed) + 1
      /\ DOMAIN handed' = DOMAIN handed \union {Len(handed) + 1}
      /\ \A k \in DOMAIN handed : handed'[k] = handed[k] /\ handed[k].depth \in Nat
      /\ handed'[Len(handed) + 1] = page
      /\ DOMAIN handed = 1..Len(handed) /\ Len(handed) \in Nat
  <2>1. handed \in Seq(Pages)
    BY <1>2 DEF QueueType
  <2>2. \A k \in DOMAIN handed : handed[k].depth \in Nat
    <3>1. \A k \in DOMAIN handed : handed[k] \in Pages
      BY <2>1
    <3> QED
      BY <3>1, FollowedType
  <2> QED
    BY <1>1, <1>4, <2>1, <2>2
\* The depths in the queue are the head's and the next, and no page's is greater.
<1>10. ASSUME NEW i \in DOMAIN queue
       PROVE  /\ queue[i].depth \in Nat /\ Depth <= queue[i].depth /\ queue[i].depth <= Depth + 1
              /\ \A j \in DOMAIN queue : i <= j => queue[i].depth <= queue[j].depth
  <2>1. queue[i] \in Entry /\ 1 <= i
    BY <1>2 DEF QueueType
  <2>2. \A a, b \in DOMAIN queue : a <= b => queue[a].depth <= queue[b].depth
    BY DEF CrawlInv, Levels
  <2>3. queue[i].depth <= queue[1].depth + 1
    BY DEF CrawlInv, Levels
  <2>4. queue[1].depth <= queue[i].depth
    BY <1>3, <2>1, <2>2
  <2> QED
    BY <1>3, <2>1, <2>2, <2>3, <2>4 DEF Entry
<1>11. \A k \in DOMAIN handed : handed[k].depth <= Depth
  BY <1>3 DEF CrawlInv, Levels
<1>12. \A i \in DOMAIN queue' : /\ queue'[i].depth \in Nat
                               /\ Depth <= queue'[i].depth /\ queue'[i].depth <= Depth + 1
  <2>1. ASSUME NEW i \in DOMAIN queue'
        PROVE  /\ queue'[i].depth \in Nat
               /\ Depth <= queue'[i].depth /\ queue'[i].depth <= Depth + 1
    <3>1. CASE i \in 1..m /\ i + 1 \in DOMAIN queue /\ queue'[i] = queue[i + 1]
      BY <1>10, <3>1
    <3>2. CASE queue'[i].depth = Depth + 1
      BY <1>3, <3>2
    <3> QED
      BY <1>8, <3>1, <3>2
  <2> QED
    BY <2>1
<1>13. QueueType'
  <2>1. stats' \in [fetched : Nat, duplicate : Nat, robots : Nat, failed : Nat]
    BY <1>1, <1>2 DEF QueueType
  <2>2. Seed \in queued'
    BY <1>2, <1>7 DEF QueueType
  <2> QED
    BY <1>1, <1>7, <1>9, <2>1, <2>2 DEF QueueType
<1>14. Levels'
  <2>1. ASSUME NEW i \in DOMAIN queue', NEW j \in DOMAIN queue', i <= j
        PROVE  queue'[i].depth <= queue'[j].depth
    <3>0. i \in Nat /\ j \in Nat
      BY <1>7
    <3>1. CASE j > m /\ queue'[j].depth = Depth + 1
      BY <1>12, <3>1
    <3>2. CASE j \in 1..m /\ j + 1 \in DOMAIN queue /\ queue'[j] = queue[j + 1]
      <4>1. i \in 1..m /\ i + 1 \in DOMAIN queue /\ queue'[i] = queue[i + 1]
        <5>1. ~(i > m)
          BY <1>3, <2>1, <3>0, <3>2
        <5> QED
          BY <1>8, <5>1
      <4>2. i + 1 <= j + 1
        BY <2>1, <3>0
      <4> QED
        BY <1>10, <3>2, <4>1, <4>2
    <3> QED
      BY <1>8, <3>1, <3>2
  <2>2. ASSUME NEW i \in DOMAIN queue'
        PROVE  queue'[i].depth <= queue'[1].depth + 1
    <3>1. 1 \in DOMAIN queue'
      BY <1>7
    <3>2. \A a, b, c \in Nat : a <= b + 1 /\ b <= c => a <= c + 1
      OBVIOUS
    <3> QED
      BY <1>3, <1>12, <3>1, <3>2, Zenon
  <2>3. ASSUME NEW i \in DOMAIN queue', NEW k \in DOMAIN handed'
        PROVE  handed'[k].depth <= queue'[i].depth
    <3>1. handed'[k].depth \in Nat /\ handed'[k].depth <= Depth
      BY <1>3, <1>4, <1>9, <1>11
    <3>2. \A a, b, c \in Nat : a <= b /\ b <= c => a <= c
      OBVIOUS
    <3> QED
      BY <1>3, <1>12, <3>1, <3>2, Zenon
  <2> QED
    BY <2>1, <2>2, <2>3, Zenon DEF Levels
<1>15. Led'
  <2>1. ASSUME NEW i \in DOMAIN queue', i \in 1..m, i + 1 \in DOMAIN queue, queue'[i] = queue[i + 1]
        PROVE  /\ \A k \in DOMAIN handed' : queue'[i].url \in LinksOnHost(handed'[k]) =>
                     queue'[i].depth <= handed'[k].depth + 1
               /\ queue'[i].url # Seed =>
                     \E k \in DOMAIN handed' : /\ queue'[i].url \in LinksOnHost(handed'[k])
                                               /\ queue'[i].depth = handed'[k].depth + 1
    <3>1. /\ \A k \in DOMAIN handed : queue[i + 1].url \in LinksOnHost(handed[k]) =>
                queue[i + 1].depth <= handed[k].depth + 1
          /\ queue[i + 1].url # Seed =>
                \E k \in DOMAIN handed : /\ queue[i + 1].url \in LinksOnHost(handed[k])
                                         /\ queue[i + 1].depth = handed[k].depth + 1
      BY <2>1 DEF CrawlInv, Led
    <3>2. queue'[i].depth <= page.depth + 1
      BY <1>4, <1>12
    <3> QED
      BY <1>9, <2>1, <3>1, <3>2, Zenon
  <2>2. ASSUME NEW i \in DOMAIN queue', queue'[i].depth = Depth + 1,
               queue'[i].url \in LinksOnHost(page) \ queued, Cardinality(queued) < Limit
        PROVE  /\ \A k \in DOMAIN handed' : queue'[i].url \in LinksOnHost(handed'[k]) =>
                     queue'[i].depth <= handed'[k].depth + 1
               /\ queue'[i].url # Seed =>
                     \E k \in DOMAIN handed' : /\ queue'[i].url \in LinksOnHost(handed'[k])
                                               /\ queue'[i].depth = handed'[k].depth + 1
    <3>1. \A k \in DOMAIN handed : queue'[i].url \notin LinksOnHost(handed[k])
      <4>1. Cardinality(queued) \in Nat /\ Limit \in Nat
        BY <1>2, FS_CardinalityType, OptionsAssumption DEF QueueType, Limit
      <4>2. \A k \in DOMAIN handed : LinksOnHost(handed[k]) \subseteq queued
        BY <2>2, <4>1 DEF CrawlInv, Met
      <4> QED
        BY <2>2, <4>2
    <3>2. queue'[i].depth = page.depth + 1 /\ queue'[i].depth <= page.depth + 1
      BY <1>3, <1>4, <2>2
    <3> QED
      BY <1>9, <2>2, <3>1, <3>2, Zenon
  <2> QED
    BY <1>8, <2>1, <2>2, Zenon DEF Led
<1>16. Met'
  <2>1. /\ Cardinality(queued) \in Nat /\ Cardinality(queued') \in Nat /\ Limit \in Nat
        /\ queued \subseteq queued'
    BY <1>2, <1>7, FS_CardinalityType, OptionsAssumption DEF QueueType, Limit
  <2>2. ASSUME NEW k \in DOMAIN handed
        PROVE  LinksOnHost(handed'[k]) \subseteq queued' \/ Cardinality(queued') >= Limit
    <3>1. LinksOnHost(handed[k]) \subseteq queued \/ Cardinality(queued) >= Limit
      BY DEF CrawlInv, Met
    <3>2. handed'[k] = handed[k]
      BY <1>9
    <3> QED
      BY <1>7, <2>1, <3>1, <3>2
  <2>3. LinksOnHost(page) \subseteq queued' \/ Cardinality(queued') >= Limit
    BY <1>6 DEF LinksOnHost
  <2> QED
    BY <1>9, <2>2, <2>3, Zenon DEF Met
<1>17. DepthIsLeast'
  <2>1. ASSUME NEW i \in DOMAIN handed', NEW k \in DOMAIN handed',
               handed'[i].asked \in LinksOnHost(handed'[k])
        PROVE  handed'[i].depth <= handed'[k].depth + 1
    <3>1. CASE i \in DOMAIN handed /\ k \in DOMAIN handed
      <4>1. handed'[i] = handed[i] /\ handed'[k] = handed[k]
        BY <1>9, <3>1
      <4> QED
        BY <2>1, <3>1, <4>1 DEF CrawlInv, DepthIsLeast
    <3>2. CASE i = Len(handed) + 1 /\ k \in DOMAIN handed
      <4>1. handed'[i] = page /\ handed'[k] = handed[k]
        BY <1>9, <3>2
      <4>2. queue[1].url \in LinksOnHost(handed[k])
        BY <1>3, <1>4, <2>1, <4>1
      <4>3. queue[1].depth <= handed[k].depth + 1
        BY <1>3, <3>2, <4>2 DEF CrawlInv, Led
      <4> QED
        BY <1>3, <1>4, <4>1, <4>3
    <3>3. CASE k = Len(handed) + 1
      <4>1. handed'[k].depth = Depth /\ handed'[i].depth \in Nat /\ handed'[i].depth <= Depth
        BY <1>3, <1>4, <1>9, <1>11, <3>3
      <4> QED
        BY <1>3, <4>1
    <3> QED
      BY <1>9, <3>1, <3>2, <3>3
  <2>2. ASSUME NEW i \in DOMAIN handed', handed'[i].asked # Seed
        PROVE  \E k \in 1..(i - 1) : /\ handed'[i].asked \in LinksOnHost(handed'[k])
                                     /\ handed'[i].depth = handed'[k].depth + 1
    <3>1. CASE i \in DOMAIN handed
      <4>1. handed'[i] = handed[i] /\ 1..(i - 1) \subseteq DOMAIN handed
        BY <1>9, <3>1
      <4>2. PICK k \in 1..(i - 1) : /\ handed[i].asked \in LinksOnHost(handed[k])
                                   /\ handed[i].depth = handed[k].depth + 1
        BY <2>2, <3>1, <4>1 DEF CrawlInv, DepthIsLeast
      <4>3. handed'[k] = handed[k]
        BY <1>9, <4>1
      <4> QED
        BY <4>1, <4>2, <4>3
    <3>2. CASE i = Len(handed) + 1
      <4>1. handed'[i] = page /\ 1..(i - 1) = DOMAIN handed
        BY <1>9, <3>2
      <4>2. queue[1].url # Seed
        BY <1>3, <1>4, <2>2, <4>1
      <4>3. PICK k \in DOMAIN handed : /\ queue[1].url \in LinksOnHost(handed[k])
                                       /\ queue[1].depth = handed[k].depth + 1
        BY <1>3, <4>2 DEF CrawlInv, Led
      <4>4. handed'[k] = handed[k]
        BY <1>9
      <4> QED
        BY <1>3, <1>4, <4>1, <4>3, <4>4
    <3> QED
      BY <1>9, <3>1, <3>2
  <2> QED
    BY <2>1, <2>2, Zenon DEF DepthIsLeast
<1>18. Counted'
  <2>1. queued' = Waiting' \union asked' \union refused'
    <3> DEFINE new == {queue'[i].url : i \in {k \in DOMAIN queue' : k > m}}
               old == {tail[i].url : i \in 1..m}
    <3>1. Waiting' = old \union new
      <4>1. \A i \in 1..m : i \in DOMAIN queue' /\ queue'[i] = tail[i]
        BY <1>3, <1>7
      <4>2. ASSUME NEW i \in DOMAIN queue'
            PROVE  i \in 1..m \/ i > m
        BY <1>3, <1>7
      <4> QED
        BY <4>1, <4>2 DEF Waiting
    <3>2. queued = Waiting \union asked \union refused
      BY DEF CrawlInv, Counted
    <3>3. queued' = queued \union new /\ Waiting = {Url} \union old
      BY <1>3, <1>7
    <3> HIDE DEF new, old
    <3> QED
      BY <1>1, <3>1, <3>2, <3>3
  <2>2. Cardinality(queued) =
           Len(queue) + stats.fetched + stats.duplicate + stats.robots + stats.failed
    BY DEF CrawlInv, Counted
  <2>3. PICK c, l, f, d, r, x : /\ c = Cardinality(queued') /\ l = Len(queue') /\ f = stats.fetched
                                /\ d = stats.duplicate /\ r = stats.robots /\ x = stats.failed
    OBVIOUS
  <2>4. c \in Nat /\ l \in Nat /\ f \in Nat /\ d \in Nat /\ r \in Nat /\ x \in Nat
    <3>1. stats.fetched \in Nat /\ stats.duplicate \in Nat /\ stats.robots \in Nat /\ stats.failed \in Nat
      BY <1>2 DEF QueueType
    <3>2. Cardinality(queued') \in Nat /\ Len(queue') \in Nat
      BY <1>7, FS_CardinalityType
    <3> QED
      BY <2>3, <3>1, <3>2, Zenon
  <2>5. c + m = (m + 1) + f + d + r + x + l
    BY <1>3, <1>7, <2>2, <2>3, Zenon
  <2>6. c = l + (f + 1) + d + r + x
    <3>1. m \in Nat
      BY <1>3
    <3> QED
      BY <2>4, <2>5, <3>1
  <2>7. /\ stats'.fetched = f + 1 /\ stats'.duplicate = d /\ stats'.robots = r /\ stats'.failed = x
    BY <1>1, <1>2, <2>3 DEF QueueType
  <2> QED
    BY <2>1, <2>3, <2>6, <2>7, Zenon DEF Counted
<1> QED
  BY <1>13, <1>14, <1>15, <1>16, <1>17, <1>18 DEF CrawlInv

LEMMA OneMore ==
    ASSUME QueueType,
           \/ stats' = [stats EXCEPT !.robots = @ + 1]
           \/ stats' = [stats EXCEPT !.failed = @ + 1]
           \/ stats' = [stats EXCEPT !.duplicate = @ + 1]
    PROVE  /\ stats' \in [fetched : Nat, duplicate : Nat, robots : Nat, failed : Nat]
           /\ stats'.fetched + stats'.duplicate + stats'.robots + stats'.failed =
                 stats.fetched + stats.duplicate + stats.robots + stats.failed + 1
<1>1. stats \in [fetched : Nat, duplicate : Nat, robots : Nat, failed : Nat]
  BY DEF QueueType
<1>2. stats' \in [fetched : Nat, duplicate : Nat, robots : Nat, failed : Nat]
  BY <1>1
<1>3. /\ stats.fetched \in Nat /\ stats.duplicate \in Nat /\ stats.robots \in Nat /\ stats.failed \in Nat
  BY <1>1
<1>4. \/ /\ stats'.fetched = stats.fetched /\ stats'.duplicate = stats.duplicate
         /\ stats'.robots = stats.robots + 1 /\ stats'.failed = stats.failed
      \/ /\ stats'.fetched = stats.fetched /\ stats'.duplicate = stats.duplicate
         /\ stats'.robots = stats.robots /\ stats'.failed = stats.failed + 1
      \/ /\ stats'.fetched = stats.fetched /\ stats'.duplicate = stats.duplicate + 1
         /\ stats'.robots = stats.robots /\ stats'.failed = stats.failed
  BY <1>1
<1>5. PICK f, d, r, x : /\ f = stats.fetched /\ d = stats.duplicate
                        /\ r = stats.robots /\ x = stats.failed
  OBVIOUS
<1>6. /\ f + d + (r + 1) + x = f + d + r + x + 1
      /\ f + d + r + (x + 1) = f + d + r + x + 1
      /\ f + (d + 1) + r + x = f + d + r + x + 1
  <2>1. f \in Nat /\ d \in Nat /\ r \in Nat /\ x \in Nat
    BY <1>3, <1>5, Zenon
  <2> QED
    BY <2>1
<1> QED
  BY <1>2, <1>4, <1>5, <1>6, Zenon

LEMMA CrawlStep == CrawlInv /\ [Next]_vars => CrawlInv'
<1> SUFFICES ASSUME CrawlInv, [Next]_vars
             PROVE  CrawlInv'
  OBVIOUS
<1>1. QueueType /\ stats \in [fetched : Nat, duplicate : Nat, robots : Nat, failed : Nat]
  BY DEF CrawlInv, QueueType
<1>2. CASE Refuse
  <2>1. /\ queue # <<>> /\ pc = "crawl" /\ queue' = Tail(queue) /\ refused' = refused \union {Url}
        /\ stats' = [stats EXCEPT !.robots = @ + 1]
        /\ UNCHANGED <<pc, queued, handed, asked>>
    BY <1>2 DEF Refuse, Turning
  <2>2. /\ stats' \in [fetched : Nat, duplicate : Nat, robots : Nat, failed : Nat]
        /\ stats'.fetched + stats'.duplicate + stats'.robots + stats'.failed =
              stats.fetched + stats.duplicate + stats.robots + stats.failed + 1
    BY <1>1, <2>1, OneMore
  <2>3. asked' \union refused' = asked \union refused \union {Url}
    BY <2>1
  <2> QED
    BY <2>1, <2>2, <2>3, HeadLeaves
<1>3. CASE Fail
  <2>1. /\ queue # <<>> /\ pc = "crawl" /\ queue' = Tail(queue) /\ asked' = asked \union {Url}
        /\ stats' = [stats EXCEPT !.failed = @ + 1]
        /\ UNCHANGED <<pc, queued, handed, refused>>
    BY <1>3 DEF Fail, Request, MayAsk, Turning
  <2>2. /\ stats' \in [fetched : Nat, duplicate : Nat, robots : Nat, failed : Nat]
        /\ stats'.fetched + stats'.duplicate + stats'.robots + stats'.failed =
              stats.fetched + stats.duplicate + stats.robots + stats.failed + 1
    BY <1>1, <2>1, OneMore
  <2>3. asked' \union refused' = asked \union refused \union {Url}
    BY <2>1
  <2> QED
    BY <2>1, <2>2, <2>3, HeadLeaves
<1>4. CASE Duplicate
  <2>1. /\ queue # <<>> /\ pc = "crawl" /\ queue' = Tail(queue) /\ asked' = asked \union {Url}
        /\ stats' = [stats EXCEPT !.duplicate = @ + 1]
        /\ UNCHANGED <<pc, queued, handed, refused>>
    BY <1>4 DEF Duplicate, Request, MayAsk, Turning
  <2>2. /\ stats' \in [fetched : Nat, duplicate : Nat, robots : Nat, failed : Nat]
        /\ stats'.fetched + stats'.duplicate + stats'.robots + stats'.failed =
              stats.fetched + stats.duplicate + stats.robots + stats.failed + 1
    BY <1>1, <2>1, OneMore
  <2>3. asked' \union refused' = asked \union refused \union {Url}
    BY <2>1
  <2> QED
    BY <2>1, <2>2, <2>3, HeadLeaves
<1>5. CASE Hand
  BY <1>5, HandKeeps
<1>6. ASSUME UNCHANGED <<queue, queued, handed, asked, refused, stats>>,
             pc' = "done" => queue = <<>> \/ stats.fetched >= MaxPages
      PROVE  CrawlInv'
  <2>1. Waiting' = Waiting
    BY <1>6 DEF Waiting
  <2> QED
    BY <1>6, <2>1 DEF CrawlInv, QueueType, Levels, Led, Met, DepthIsLeast, Counted
<1>7. CASE LoadRobots
  BY <1>6, <1>7 DEF LoadRobots
<1>8. CASE Finish
  <2>1. stats.fetched \in Nat /\ MaxPages \in Nat
    BY <1>1, OptionsAssumption
  <2> QED
    BY <1>6, <1>8, <2>1 DEF Finish, Turning
<1>9. CASE UNCHANGED vars
  BY <1>6, <1>9 DEF vars, CrawlInv, QueueType
<1> QED
  BY <1>2, <1>3, <1>4, <1>5, <1>7, <1>8, <1>9 DEF Next, Done

LEMMA CrawlAlways == Spec => []CrawlInv
BY CrawlInit, CrawlStep, PTL DEF Spec

\* Crawl.tla's DepthIsLeast.  On any site, under any robots.txt, with any limits and
\* whatever requests fail, the pages are handed out breadth first.
THEOREM BreadthFirst == Spec => []DepthIsLeast
<1>1. CrawlInv => DepthIsLeast
  BY DEF CrawlInv
<1> QED
  BY <1>1, CrawlAlways, PTL

\* Crawl.tla's NothingLost.  No url that was queued is dropped or counted twice, and
\* one link is missed only when the pages or the queue are at their limit.
THEOREM EveryUrlAccounted == Spec => []NothingLost
BY CountedIsAll, CrawlAlways, PTL

-----------------------------------------------------------------------------
(* robots.txt.                                                               *)

Rule(line) == [path |-> line.value, allow |-> line.key = "allow"]
IsRule(line) == line.key = "allow" \/ (line.key = "disallow" /\ line.value # <<>>)

\* The parser's state, and its two records, when it reads lines of L.
Record(L) == [rules : Seq({Rule(line) : line \in L}), delay : {0} \union {line.value : line \in L}]
Parser(L) == [inAny : BOOLEAN, inOurs : BOOLEAN, afterAgent : BOOLEAN,
              any : Record(L), ours : Record(L)]

Inside(r, who) == IF who = "ours" THEN r.inOurs ELSE r.inAny
RecordOf(r, who) == IF who = "ours" THEN r.ours ELSE r.any

\* What a line does to one of the two records.
AddLine(record, inside, line) ==
    [rules |-> IF inside /\ IsRule(line) THEN Append(record.rules, Rule(line)) ELSE record.rules,
     delay |-> IF inside /\ line.key = "delay" THEN line.value ELSE record.delay]

LEMMA AddLineType ==
    ASSUME NEW L, NEW record \in Record(L), NEW inside, NEW line \in L
    PROVE  AddLine(record, inside, line) \in Record(L)
<1>1. Append(record.rules, Rule(line)) \in Seq({Rule(l) : l \in L})
  BY DEF Record
<1> QED
  BY <1>1 DEF AddLine, Record

LEMMA ReadAgent ==
    ASSUME NEW L, NEW r \in Parser(L), NEW line \in L, line.key = "agent"
    PROVE  /\ ReadLine(r, line) \in Parser(L)
           /\ ReadLine(r, line).afterAgent
           /\ ReadLine(r, line).ours = r.ours /\ ReadLine(r, line).any = r.any
           /\ ReadLine(r, line).inAny = (line.value = "*" \/ (r.afterAgent /\ r.inAny))
           /\ ReadLine(r, line).inOurs = (line.value = "ours" \/ (r.afterAgent /\ r.inOurs))
<1>1. ReadLine(r, line) =
         [r EXCEPT !.inAny  = line.value = "*" \/ (r.afterAgent /\ r.inAny),
                   !.inOurs = line.value = "ours" \/ (r.afterAgent /\ r.inOurs),
                   !.afterAgent = TRUE]
  BY DEF ReadLine, AgentLine, Parser
<1> DEFINE a == (line.value = "*" \/ (r.afterAgent /\ r.inAny))
           o == (line.value = "ours" \/ (r.afterAgent /\ r.inOurs))
<1>2. a \in BOOLEAN /\ o \in BOOLEAN
  OBVIOUS
<1>3. ReadLine(r, line) = [r EXCEPT !.inAny  = a, !.inOurs = o, !.afterAgent = TRUE]
  BY <1>1
<1> HIDE DEF a, o
<1>4. /\ ReadLine(r, line) \in Parser(L)
      /\ ReadLine(r, line).afterAgent = TRUE
      /\ ReadLine(r, line).ours = r.ours /\ ReadLine(r, line).any = r.any
      /\ ReadLine(r, line).inAny = a /\ ReadLine(r, line).inOurs = o
  BY <1>2, <1>3 DEF Parser
<1> QED
  BY <1>4, Zenon DEF a, o

LEMMA ReadOther ==
    ASSUME NEW L, NEW r \in Parser(L), NEW line \in L, line.key # "agent"
    PROVE  /\ ReadLine(r, line) \in Parser(L)
           /\ ReadLine(r, line).afterAgent = FALSE
           /\ ReadLine(r, line).inAny = r.inAny /\ ReadLine(r, line).inOurs = r.inOurs
           /\ ReadLine(r, line).ours = AddLine(r.ours, r.inOurs, line)
           /\ ReadLine(r, line).any = AddLine(r.any, r.inAny, line)
<1> DEFINE after == [r EXCEPT !.afterAgent = FALSE]
           o == AddLine(r.ours, r.inOurs, line)
           a == AddLine(r.any, r.inAny, line)
<1>1. r.ours \in Record(L) /\ r.any \in Record(L) /\ r.inAny \in BOOLEAN /\ r.inOurs \in BOOLEAN
  BY DEF Parser
<1>2. o \in Record(L) /\ a \in Record(L)
  BY <1>1, AddLineType
<1>3. after \in Parser(L) /\ after.ours = r.ours /\ after.any = r.any /\ after.afterAgent = FALSE
      /\ after.inAny = r.inAny /\ after.inOurs = r.inOurs
  BY DEF Parser
<1>4. LET new == [after EXCEPT !.ours = o, !.any = a] IN
      /\ new \in Parser(L) /\ new.afterAgent = FALSE
      /\ new.inAny = r.inAny /\ new.inOurs = r.inOurs /\ new.ours = o /\ new.any = a
  <2> HIDE DEF after, o, a
  <2> QED
    BY <1>2, <1>3 DEF Parser
<1>5. CASE line.key \in {"allow", "disallow"}
  <2>1. ASSUME NEW record \in Record(L), NEW inside \in BOOLEAN
        PROVE  AddRule(record, inside, Rule(line)) = AddLine(record, inside, line)
    BY <1>5 DEF AddRule, AddLine, IsRule, Rule, Record
  <2>2. ReadLine(r, line) = [after EXCEPT !.ours = AddRule(r.ours, r.inOurs, Rule(line)),
                                          !.any = AddRule(r.any, r.inAny, Rule(line))]
    BY <1>5 DEF ReadLine, Rule, Parser
  <2>3. ReadLine(r, line) = [after EXCEPT !.ours = o, !.any = a]
    BY <1>1, <2>1, <2>2, Zenon
  <2> QED
    BY <1>4, <2>3, Zenon
<1>6. CASE line.key = "delay"
  <2>1. ASSUME NEW record \in Record(L), NEW inside \in BOOLEAN
        PROVE  SetDelay(record, inside, line.value) = AddLine(record, inside, line)
    BY <1>6 DEF SetDelay, AddLine, IsRule, Record
  <2>2. ReadLine(r, line) = [after EXCEPT !.ours = SetDelay(r.ours, r.inOurs, line.value),
                                          !.any = SetDelay(r.any, r.inAny, line.value)]
    BY <1>6 DEF ReadLine, Parser
  <2>3. ReadLine(r, line) = [after EXCEPT !.ours = o, !.any = a]
    BY <1>1, <2>1, <2>2, Zenon
  <2> QED
    BY <1>4, <2>3, Zenon
<1>7. CASE line.key \notin {"allow", "disallow", "delay"}
  <2>1. ReadLine(r, line) = after
    BY <1>7 DEF ReadLine
  <2>2. o = r.ours /\ a = r.any
    BY <1>1, <1>7 DEF AddLine, IsRule, Record
  <2>3. ReadLine(r, line) = [after EXCEPT !.ours = o, !.any = a]
    BY <1>3, <2>1, <2>2
  <2> QED
    BY <1>4, <2>3, Zenon
<1> QED
  BY <1>5, <1>6, <1>7

\* The agent lines above a line, and the last of them.
Above(i) == {k \in 1..(i - 1) : text[k].key = "agent"}
LastAbove(i) == CHOOSE k \in Above(i) : \A j \in Above(i) : j <= k

LEMMA AgentsAre ==
    ASSUME NEW i
    PROVE  AgentsOf(i) = IF Above(i) = {} THEN {}
                         ELSE {text[k].value : k \in {k \in Above(i) :
                                                        \A j \in k..LastAbove(i) : j \in Above(i)}}
BY Zenon DEF AgentsOf, Above, LastAbove

LEMMA LastIsLast ==
    ASSUME NEW n \in Nat, Above(n + 1) # {}
    PROVE  LastAbove(n + 1) \in Above(n + 1) /\ \A j \in Above(n + 1) : j <= LastAbove(n + 1)
<1>1. Above(n + 1) \in SUBSET (1..n)
  BY DEF Above
<1> DEFINE s == Above(n + 1)
<1>2. LastAbove(n + 1) = CHOOSE k \in s : \A j \in s : j <= k
  BY DEF LastAbove
<1>3. s \in SUBSET (1..n) /\ s # {}
  BY <1>1
<1> HIDE DEF s
<1>4. \E k \in s : \A j \in s : j <= k
  <2>1. PICK k \in s : \A j \in s : j <= k
    <3>1. Reading!Max(s) \in s /\ \A i \in s : i <= Reading!Max(s)
      BY <1>3, Reading!MaxOfPart, Zenon
    <3> QED
      BY <3>1, Zenon
  <2> QED
    BY <2>1
<1>5. LastAbove(n + 1) \in s /\ \A j \in s : j <= LastAbove(n + 1)
  BY <1>2, <1>4
<1> QED
  BY <1>5 DEF s

\* A line that names no agent leaves the agents as they are.
LEMMA AgentsStay ==
    ASSUME NEW k \in Nat \ {0}, text[k].key # "agent"
    PROVE  AgentsOf(k + 1) = AgentsOf(k)
<1>1. Above(k + 1) = Above(k)
  BY DEF Above
<1>2. LastAbove(k + 1) = LastAbove(k)
  BY <1>1 DEF LastAbove
<1> QED
  BY <1>1, <1>2, AgentsAre, Zenon

\* One that does joins the agents of the line above it, if that is one too.
LEMMA AgentsJoin ==
    ASSUME NEW k \in Nat \ {0}, text[k].key = "agent"
    PROVE  AgentsOf(k + 1) =
              {text[k].value} \union IF k > 1 /\ text[k - 1].key = "agent" THEN AgentsOf(k) ELSE {}
<1>1. Above(k + 1) = Above(k) \union {k} /\ Above(k) \subseteq 1..(k - 1)
  BY DEF Above
<1>2. LastAbove(k + 1) = k
  <2>1. LastAbove(k + 1) \in Above(k + 1) /\ \A j \in Above(k + 1) : j <= LastAbove(k + 1)
    BY <1>1, LastIsLast
  <2> QED
    BY <1>1, <2>1
<1> DEFINE Block(i) == {j \in Above(i) : \A l \in j..LastAbove(i) : l \in Above(i)}
<1>3. AgentsOf(k + 1) = {text[j].value : j \in Block(k + 1)}
  BY <1>1, AgentsAre, Zenon
<1>4. CASE k > 1 /\ text[k - 1].key = "agent"
  <2>1. k - 1 \in Above(k) /\ k - 1 \in Nat
    BY <1>4 DEF Above
  <2>2. LastAbove(k) = k - 1
    <3>1. k = (k - 1) + 1
      OBVIOUS
    <3>2. LastAbove(k) \in Above(k) /\ \A j \in Above(k) : j <= LastAbove(k)
      BY <2>1, <3>1, LastIsLast
    <3> QED
      BY <1>1, <2>1, <3>2
  <2>3. AgentsOf(k) = {text[j].value : j \in Block(k)}
    BY <2>1, AgentsAre, Zenon
  <2>4. Block(k + 1) = Block(k) \union {k}
    <3>1. ASSUME NEW j \in Above(k + 1), \A l \in j..k : l \in Above(k + 1), j # k
          PROVE  j \in Above(k) /\ \A l \in j..(k - 1) : l \in Above(k)
      BY <1>1, <3>1
    <3>2. ASSUME NEW j \in Above(k), \A l \in j..(k - 1) : l \in Above(k)
          PROVE  j \in Above(k + 1) /\ \A l \in j..k : l \in Above(k + 1)
      BY <1>1, <3>2
    <3>3. k \in Above(k + 1) /\ \A l \in k..k : l \in Above(k + 1)
      BY <1>1
    <3> QED
      BY <1>2, <2>2, <3>1, <3>2, <3>3
  <2> HIDE DEF Block
  <2> QED
    BY <1>3, <1>4, <2>3, <2>4
<1>5. CASE ~(k > 1 /\ text[k - 1].key = "agent")
  <2>1. k - 1 \notin Above(k)
    BY <1>5 DEF Above
  <2>2. Block(k + 1) = {k}
    <3>1. ASSUME NEW j \in Above(k + 1), \A l \in j..k : l \in Above(k + 1)
          PROVE  j = k
      <4> SUFFICES ASSUME j # k
                   PROVE  FALSE
        OBVIOUS
      <4>1. j \in 1..(k - 1)
        BY <1>1
      <4>2. k - 1 \in j..k
        BY <4>1
      <4>3. k - 1 \in Above(k + 1)
        BY <3>1, <4>2
      <4> QED
        BY <1>1, <2>1, <4>3
    <3>2. k \in Above(k + 1) /\ \A l \in k..k : l \in Above(k + 1)
      BY <1>1
    <3> QED
      BY <1>2, <3>1, <3>2
  <2> HIDE DEF Block
  <2> QED
    BY <1>3, <1>5, <2>2
<1> QED
  BY <1>4, <1>5

LEMMA AgentsNone == AgentsOf(1) = {}
<1>1. Above(1) = {}
  BY DEF Above
<1> QED
  BY <1>1, AgentsAre, Zenon

RuleLines(who, k) == {i \in 1..k : IsRule(text[i]) /\ who \in AgentsOf(i)}
Delays(who, k) ==
    \E i \in 1..k : /\ text[i].key = "delay" /\ who \in AgentsOf(i) /\ text[i].value > 0
                    /\ \A j \in (i + 1)..k : text[j].key = "delay" => who \notin AgentsOf(j)

\* A record has the rules and the delay of the first k lines that count for an agent.
Holds(record, who, k) ==
    /\ {record.rules[j] : j \in DOMAIN record.rules} = {Rule(text[i]) : i \in RuleLines(who, k)}
    /\ record.delay > 0 <=> Delays(who, k)

\* What the parser has read after the first k lines.
Read(r, k) ==
    /\ r \in Parser(ToSet(text))
    /\ r.afterAgent <=> k > 0 /\ text[k].key = "agent"
    /\ r.inAny <=> "*" \in AgentsOf(k + 1)
    /\ r.inOurs <=> "ours" \in AgentsOf(k + 1)
    /\ Holds(r.any, "*", k) /\ Holds(r.ours, "ours", k)

\* A line that is no agent line adds to a record what it says, if it stands in it.
LEMMA HoldsMore ==
    ASSUME NEW k \in Nat \ {0}, text[k].key # "agent", NEW who,
           NEW record \in Record(ToSet(text)), Holds(record, who, k - 1),
           NEW inside, inside <=> who \in AgentsOf(k)
    PROVE  Holds(AddLine(record, inside, text[k]), who, k)
<1> DEFINE more == AddLine(record, inside, text[k])
<1>1. {more.rules[j] : j \in DOMAIN more.rules} = {Rule(text[i]) : i \in RuleLines(who, k)}
  <2>0. /\ {record.rules[j] : j \in DOMAIN record.rules} = {Rule(text[i]) : i \in RuleLines(who, k - 1)}
        /\ record.rules \in Seq({Rule(line) : line \in ToSet(text)})
    BY DEF Holds, Record
  <2>1. CASE inside /\ IsRule(text[k])
    <3>1. RuleLines(who, k) = RuleLines(who, k - 1) \union {k}
      BY <2>1 DEF RuleLines
    <3> DEFINE rules == record.rules
               rule == Rule(text[k])
               L == {Rule(line) : line \in ToSet(text)}
    <3>2. more.rules = Append(rules, rule)
      BY <2>1 DEF AddLine
    <3>3. ASSUME NEW S, rules \in Seq(S)
          PROVE  {Append(rules, rule)[j] : j \in DOMAIN Append(rules, rule)} =
                    {rules[j] : j \in DOMAIN rules} \union {rule}
      <4> HIDE DEF rules, rule
      <4>1. /\ DOMAIN Append(rules, rule) = DOMAIN rules \union {Len(rules) + 1}
            /\ \A j \in DOMAIN rules : Append(rules, rule)[j] = rules[j]
            /\ Append(rules, rule)[Len(rules) + 1] = rule
        BY <3>3
      <4> QED
        BY <4>1
    <3>4. {more.rules[j] : j \in DOMAIN more.rules} = {rules[j] : j \in DOMAIN rules} \union {rule}
      BY <2>0, <3>2, <3>3
    <3> QED
      BY <2>0, <3>1, <3>4
  <2>2. CASE ~(inside /\ IsRule(text[k]))
    <3>1. RuleLines(who, k) = RuleLines(who, k - 1)
      BY <2>2 DEF RuleLines
    <3>2. more.rules = record.rules
      BY <2>2 DEF AddLine
    <3> QED
      BY <2>0, <3>1, <3>2
  <2> QED
    BY <2>1, <2>2
<1>2. more.delay > 0 <=> Delays(who, k)
  <2>1. CASE inside /\ text[k].key = "delay"
    <3>1. more.delay = text[k].value
      BY <2>1 DEF AddLine
    <3>2. (k + 1)..k = {} /\ k \in 1..k
      OBVIOUS
    <3>3. text[k].value > 0 => Delays(who, k)
      BY <2>1, <3>2 DEF Delays
    <3>4. ASSUME Delays(who, k)
          PROVE  text[k].value > 0
      <4>1. PICK i \in 1..k : /\ text[i].key = "delay" /\ who \in AgentsOf(i) /\ text[i].value > 0
                              /\ \A j \in (i + 1)..k : text[j].key = "delay" => who \notin AgentsOf(j)
        BY <3>4 DEF Delays
      <4>2. i = k
        <5>1. i # k => k \in (i + 1)..k
          OBVIOUS
        <5> QED
          BY <2>1, <4>1, <5>1
      <4> QED
        BY <4>1, <4>2
    <3> QED
      BY <3>1, <3>3, <3>4
  <2>2. CASE ~(inside /\ text[k].key = "delay")
    <3>1. more.delay = record.delay
      BY <2>2 DEF AddLine
    <3>2. Delays(who, k) => Delays(who, k - 1)
      <4> SUFFICES ASSUME Delays(who, k)
                   PROVE  Delays(who, k - 1)
        OBVIOUS
      <4>1. PICK i \in 1..k : /\ text[i].key = "delay" /\ who \in AgentsOf(i) /\ text[i].value > 0
                              /\ \A j \in (i + 1)..k : text[j].key = "delay" => who \notin AgentsOf(j)
        BY DEF Delays
      <4>2. i \in 1..(k - 1)
        BY <2>2, <4>1
      <4>3. (i + 1)..(k - 1) \subseteq (i + 1)..k
        OBVIOUS
      <4> QED
        BY <4>1, <4>2, <4>3 DEF Delays
    <3>3. Delays(who, k - 1) => Delays(who, k)
      <4> SUFFICES ASSUME Delays(who, k - 1)
                   PROVE  Delays(who, k)
        OBVIOUS
      <4>1. PICK i \in 1..(k - 1) :
               /\ text[i].key = "delay" /\ who \in AgentsOf(i) /\ text[i].value > 0
               /\ \A j \in (i + 1)..(k - 1) : text[j].key = "delay" => who \notin AgentsOf(j)
        BY DEF Delays
      <4>2. i \in 1..k /\ \A j \in (i + 1)..k : j = k \/ j \in (i + 1)..(k - 1)
        OBVIOUS
      <4> QED
        BY <2>2, <4>1, <4>2 DEF Delays
    <3>4. record.delay > 0 <=> Delays(who, k - 1)
      BY DEF Holds
    <3> QED
      BY <3>1, <3>2, <3>3, <3>4
  <2> QED
    BY <2>1, <2>2
<1> QED
  BY <1>1, <1>2 DEF Holds

\* An agent line changes neither record.
LEMMA HoldsStill ==
    ASSUME NEW k \in Nat \ {0}, text[k].key = "agent", NEW who, NEW record, Holds(record, who, k - 1)
    PROVE  Holds(record, who, k)
<1>1. RuleLines(who, k) = RuleLines(who, k - 1)
  BY DEF RuleLines, IsRule
<1>2. Delays(who, k) <=> Delays(who, k - 1)
  <2>1. ASSUME NEW i \in 1..k, text[i].key = "delay"
        PROVE  i \in 1..(k - 1)
    BY <2>1
  <2>2. ASSUME NEW i \in 1..(k - 1)
        PROVE  i \in 1..k /\ \A j \in (i + 1)..k : j = k \/ j \in (i + 1)..(k - 1)
    OBVIOUS
  <2>3. ASSUME NEW i \in 1..(k - 1)
        PROVE  (i + 1)..(k - 1) \subseteq (i + 1)..k
    OBVIOUS
  <2>4. Delays(who, k) => Delays(who, k - 1)
    BY <2>1, <2>3 DEF Delays
  <2>5. Delays(who, k - 1) => Delays(who, k)
    <3> SUFFICES ASSUME Delays(who, k - 1)
                 PROVE  Delays(who, k)
      OBVIOUS
    <3>1. PICK i \in 1..(k - 1) :
             /\ text[i].key = "delay" /\ who \in AgentsOf(i) /\ text[i].value > 0
             /\ \A j \in (i + 1)..(k - 1) : text[j].key = "delay" => who \notin AgentsOf(j)
      BY DEF Delays
    <3> QED
      BY <2>2, <3>1 DEF Delays
  <2> QED
    BY <2>4, <2>5
<1> QED
  BY <1>1, <1>2 DEF Holds

LEMMA ReadOne ==
    ASSUME NEW k \in Nat \ {0}, text \in Seq(ToSet(text)), k <= Len(text), NEW r, Read(r, k - 1)
    PROVE  Read(ReadLine(r, text[k]), k)
<1> DEFINE new == ReadLine(r, text[k])
<1>1. /\ r \in Parser(ToSet(text)) /\ text[k] \in ToSet(text)
      /\ r.afterAgent <=> k - 1 > 0 /\ text[k - 1].key = "agent"
      /\ r.inAny <=> "*" \in AgentsOf(k)
      /\ r.inOurs <=> "ours" \in AgentsOf(k)
      /\ Holds(r.any, "*", k - 1) /\ Holds(r.ours, "ours", k - 1)
  <2>1. (k - 1) + 1 = k
    OBVIOUS
  <2> QED
    BY <2>1 DEF Read, ToSet
<1>2. CASE text[k].key = "agent"
  <2>1. /\ new \in Parser(ToSet(text)) /\ new.afterAgent
        /\ new.ours = r.ours /\ new.any = r.any
        /\ new.inAny = (text[k].value = "*" \/ (r.afterAgent /\ r.inAny))
        /\ new.inOurs = (text[k].value = "ours" \/ (r.afterAgent /\ r.inOurs))
    BY <1>1, <1>2, ReadAgent
  <2>2. AgentsOf(k + 1) =
           {text[k].value} \union IF k > 1 /\ text[k - 1].key = "agent" THEN AgentsOf(k) ELSE {}
    BY <1>2, AgentsJoin
  <2>3. k - 1 > 0 <=> k > 1
    OBVIOUS
  <2>4. Holds(r.any, "*", k) /\ Holds(r.ours, "ours", k)
    BY <1>1, <1>2, HoldsStill
  <2> HIDE DEF new
  <2>5. ASSUME NEW who
        PROVE  who \in AgentsOf(k + 1) <=>
                  who = text[k].value \/ (k > 1 /\ text[k - 1].key = "agent" /\ who \in AgentsOf(k))
    BY <2>2
  <2>6. new.inAny <=> "*" \in AgentsOf(k + 1)
    BY <1>1, <2>1, <2>3, <2>5, Zenon
  <2>7. new.inOurs <=> "ours" \in AgentsOf(k + 1)
    BY <1>1, <2>1, <2>3, <2>5, Zenon
  <2>8. k > 0
    OBVIOUS
  <2> QED
    BY <1>2, <2>1, <2>4, <2>6, <2>7, <2>8, Zenon DEF Read, new
<1>3. CASE text[k].key # "agent"
  <2>1. /\ new \in Parser(ToSet(text)) /\ new.afterAgent = FALSE
        /\ new.inAny = r.inAny /\ new.inOurs = r.inOurs
        /\ new.ours = AddLine(r.ours, r.inOurs, text[k])
        /\ new.any = AddLine(r.any, r.inAny, text[k])
    <3>1. PICK L, line : L = ToSet(text) /\ line = text[k]
      OBVIOUS
    <3>2. r \in Parser(L) /\ line \in L /\ line.key # "agent"
      BY <1>1, <1>3, <3>1, Zenon
    <3>3. /\ ReadLine(r, line) \in Parser(L) /\ ReadLine(r, line).afterAgent = FALSE
          /\ ReadLine(r, line).inAny = r.inAny /\ ReadLine(r, line).inOurs = r.inOurs
          /\ ReadLine(r, line).ours = AddLine(r.ours, r.inOurs, line)
          /\ ReadLine(r, line).any = AddLine(r.any, r.inAny, line)
      BY <3>2, ReadOther
    <3> QED
      BY <3>1, <3>3, Zenon
  <2>2. AgentsOf(k + 1) = AgentsOf(k)
    BY <1>3, AgentsStay
  <2>3. r.ours \in Record(ToSet(text)) /\ r.any \in Record(ToSet(text))
    BY <1>1 DEF Parser
  <2>4. Holds(new.any, "*", k) /\ Holds(new.ours, "ours", k)
    BY <1>1, <1>3, <2>1, <2>3, HoldsMore
  <2> HIDE DEF new
  <2> QED
    BY <1>1, <1>3, <2>1, <2>2, <2>4, Zenon DEF Read, new
<1> QED
  BY <1>2, <1>3

\* The parser has read its text at the end of it.
LEMMA ParserReads ==
    ASSUME text \in Seq(ToSet(text))
    PROVE  \E r : Read(r, Len(text)) /\ r = FoldLeft(ReadLine, Start, text)
<1> DEFINE n == Len(text)
           L == ToSet(text)
<1>1. FoldLeft(ReadLine, Start, text) = Reading!Folded({}, Start, text)
  BY Zenon DEF Reads, FoldLeft, MapThenFoldSet, Max,
     Reading!Folded, Reading!FoldLeft, Reading!MapThenFoldSet, Reading!Max
<1>2. Reading!Keeps({}, Parser(L), L)
  <2> HIDE DEF L
  <2>1. ASSUME NEW r \in Parser(L), NEW line \in L
        PROVE  ReadLine(r, line) \in Parser(L)
    BY ReadAgent, ReadOther, Zenon
  <2> QED
    BY <2>1, Zenon DEF Reading!Keeps, Reads
<1>3. Start \in Parser(L)
  <2> HIDE DEF L
  <2> QED
    BY DEF Start, NoRecord, Parser, Record
<1>4. PICK run : Reading!IsRun({}, Start, text, run)
  BY <1>2, <1>3, Reading!FoldRuns, Zenon
<1>5. /\ run[0] = Start /\ run[n] = FoldLeft(ReadLine, Start, text) /\ n \in Nat
      /\ \A k \in 1..n : run[k] = ReadLine(run[k - 1], text[k])
  BY <1>1, <1>4 DEF Reading!IsRun, Reads
<1> DEFINE G == {k \in 0..n : Read(run[k], k)}
<1>6. 0 \in G
  <2>1. RuleLines("*", 0) = {} /\ RuleLines("ours", 0) = {} /\ ~Delays("*", 0) /\ ~Delays("ours", 0)
    BY DEF RuleLines, Delays
  <2>2. Start.any = NoRecord /\ Start.ours = NoRecord
    BY DEF Start
  <2>3. Holds(NoRecord, "*", 0) /\ Holds(NoRecord, "ours", 0)
    BY <2>1 DEF Holds, NoRecord
  <2>4. Start.inAny = FALSE /\ Start.inOurs = FALSE /\ Start.afterAgent = FALSE
    BY DEF Start
  <2>5. AgentsOf(0 + 1) = {}
    BY AgentsNone
  <2>6. Read(Start, 0)
    BY <1>3, <2>2, <2>3, <2>4, <2>5 DEF Read
  <2> QED
    BY <1>5, <2>6
<1>7. ASSUME NEW k \in 1..n, k - 1 \in G
      PROVE  k \in G
  <2>1. k \in Nat \ {0} /\ k <= n
    BY <1>5
  <2>2. Read(run[k - 1], k - 1)
    BY <1>7
  <2>3. Read(ReadLine(run[k - 1], text[k]), k)
    BY <2>1, <2>2, ReadOne
  <2> QED
    BY <1>5, <2>3
<1>8. n \in G
  <2> HIDE DEF G, n
  <2> QED
    BY <1>5, <1>6, <1>7, Reading!ReachesLast
<1> QED
  BY <1>5, <1>8

\* A record decides what the rules of its lines decide.
LEMMA RecordDecides ==
    ASSUME NEW who, NEW record, Holds(record, who, Len(text)), text \in Seq(ToSet(text)),
           who = IF Governs("ours") THEN "ours" ELSE "*",
           \A i \in DOMAIN text : text[i].key \in {"allow", "disallow"} =>
              Len(text[i].value) \in Nat,
           NEW path
    PROVE  Allowed(record.rules, path) <=> ~Forbidden(path)
<1> DEFINE rules == record.rules
           matching == {i \in DOMAIN rules : rules[i].path # <<>> /\ IsPrefix(rules[i].path, path)}
           longest == {i \in matching :
                         \A k \in matching : Len(rules[k].path) <= Len(rules[i].path)}
           lines == {i \in RulesFor(who) : IsPrefix(text[i].value, path)}
<1>1. Allowed(rules, path) <=> longest = {} \/ \E i \in longest : rules[i].allow
  BY DEF Allowed
<1>2. Forbidden(path) <=>
         \E i \in lines : /\ text[i].key = "disallow"
                          /\ \A k \in lines :
                                IF text[k].key = "allow" THEN Len(text[k].value) < Len(text[i].value)
                                                         ELSE Len(text[k].value) <= Len(text[i].value)
  BY DEF Forbidden
<1>3. \A i \in lines : text[i].key \in {"allow", "disallow"} /\ Len(text[i].value) \in Nat
  BY DEF RulesFor
\* A rule that matches is what a line that matches says.
<1>4. ASSUME NEW j \in matching
      PROVE  \E i \in lines : rules[j].path = text[i].value /\ (rules[j].allow <=> text[i].key = "allow")
  <2>1. rules[j] \in {Rule(text[i]) : i \in RuleLines(who, Len(text))}
    BY DEF Holds
  <2>2. PICK i \in RuleLines(who, Len(text)) : rules[j] = Rule(text[i])
    BY <2>1
  <2>3. rules[j].path = text[i].value /\ (rules[j].allow <=> text[i].key = "allow")
    <3>1. Rule(text[i]).path = text[i].value /\ Rule(text[i]).allow = (text[i].key = "allow")
      BY DEF Rule
    <3> QED
      BY <2>2, <3>1, Zenon
  <2>4. i \in lines
    BY <2>3 DEF RuleLines, RulesFor, IsRule
  <2> QED
    BY <2>3, <2>4
<1>5. ASSUME NEW i \in lines
      PROVE  \E j \in matching : rules[j].path = text[i].value /\ (rules[j].allow <=> text[i].key = "allow")
  <2>1. i \in RuleLines(who, Len(text))
    BY DEF RuleLines, RulesFor, IsRule
  <2>2. Rule(text[i]) \in {rules[j] : j \in DOMAIN rules}
    BY <2>1 DEF Holds
  <2>3. PICK j \in DOMAIN rules : rules[j] = Rule(text[i])
    BY <2>2
  <2>4. rules[j].path = text[i].value /\ (rules[j].allow <=> text[i].key = "allow")
    <3>1. Rule(text[i]).path = text[i].value /\ Rule(text[i]).allow = (text[i].key = "allow")
      BY DEF Rule
    <3> QED
      BY <2>3, <3>1, Zenon
  <2>5. text[i].value # <<>> /\ IsPrefix(text[i].value, path)
    BY DEF RulesFor
  <2> QED
    BY <2>4, <2>5
<1> HIDE DEF matching, lines, rules
<1>6. ASSUME Forbidden(path)
      PROVE  ~(longest = {} \/ \E i \in longest : rules[i].allow)
  <2>1. PICK i \in lines :
           /\ text[i].key = "disallow"
           /\ \A k \in lines :
                 IF text[k].key = "allow" THEN Len(text[k].value) < Len(text[i].value)
                                          ELSE Len(text[k].value) <= Len(text[i].value)
    BY <1>2, <1>6
  <2>2. PICK j \in matching : rules[j].path = text[i].value /\ ~rules[j].allow
    BY <1>5, <2>1
  <2>3. ASSUME NEW k \in matching
        PROVE  /\ Len(rules[k].path) \in Nat /\ Len(rules[k].path) <= Len(rules[j].path)
               /\ rules[k].allow => Len(rules[k].path) < Len(rules[j].path)
    <3>1. PICK l \in lines : rules[k].path = text[l].value /\ (rules[k].allow <=> text[l].key = "allow")
      BY <1>4
    <3>2. Len(text[l].value) \in Nat /\ Len(text[i].value) \in Nat
      BY <1>3
    <3> QED
      BY <2>1, <2>2, <3>1, <3>2
  <2>4. j \in longest
    BY <2>3
  <2>5. ASSUME NEW k \in longest
        PROVE  ~rules[k].allow
    <3>1. Len(rules[j].path) <= Len(rules[k].path) /\ k \in matching
      BY <2>2
    <3>2. /\ Len(rules[k].path) \in Nat /\ Len(rules[j].path) \in Nat
          /\ rules[k].allow => Len(rules[k].path) < Len(rules[j].path)
      BY <2>2, <2>3, <3>1
    <3> QED
      BY <3>1, <3>2
  <2> QED
    BY <2>4, <2>5
<1>7. ASSUME ~Forbidden(path)
      PROVE  longest = {} \/ \E i \in longest : rules[i].allow
  <2> SUFFICES ASSUME NEW j \in longest, \A i \in longest : ~rules[i].allow
               PROVE  FALSE
    OBVIOUS
  <2>1. PICK i \in lines : rules[j].path = text[i].value /\ (rules[j].allow <=> text[i].key = "allow")
    BY <1>4
  <2>2. text[i].key = "disallow" /\ Len(text[i].value) \in Nat
    BY <1>3, <2>1
  <2>3. ASSUME NEW k \in lines
        PROVE  IF text[k].key = "allow" THEN Len(text[k].value) < Len(text[i].value)
                                        ELSE Len(text[k].value) <= Len(text[i].value)
    <3>1. PICK l \in matching : rules[l].path = text[k].value /\ (rules[l].allow <=> text[k].key = "allow")
      BY <1>5
    <3>2. Len(text[k].value) \in Nat /\ Len(text[k].value) <= Len(text[i].value)
      BY <1>3, <2>1, <3>1
    <3>3. CASE text[k].key = "allow" /\ Len(text[k].value) = Len(text[i].value)
      <4>1. l \in longest
        BY <2>1, <3>1, <3>3
      <4> QED
        BY <3>1, <3>3, <4>1
    <3> QED
      BY <2>2, <3>2, <3>3
  <2> QED
    BY <1>2, <1>7, <2>2, <2>3
<1> QED
  BY <1>1, <1>6, <1>7 DEF rules

\* What the crawler asks its record is what the text says.
LEMMA ParseDecides ==
    ASSUME text \in RobotsTexts \union {<<>>}, robots = Parse(text)
    PROVE  \A path : Allowed(robots.rules, path) <=> ~Forbidden(path)
<1>1. text \in Seq(ToSet(text))
  <2>1. CASE text \in RobotsTexts
    BY <2>1, SiteAssumption
  <2>2. CASE text = <<>>
    BY <2>2
  <2> QED
    BY <2>1, <2>2
<1>2. \A i \in DOMAIN text : text[i].key \in {"allow", "disallow"} => Len(text[i].value) \in Nat
  <2>1. CASE text \in RobotsTexts
    <3>1. ASSUME NEW i \in DOMAIN text, text[i].key \in {"allow", "disallow"}
          PROVE  Len(text[i].value) \in Nat
      <4>1. text[i] \in ToSet(text)
        BY DEF ToSet
      <4>2. text[i].value \in Seq(ToSet(text[i].value))
        BY <2>1, <3>1, <4>1, SiteAssumption
      <4> QED
        BY <4>2
    <3> QED
      BY <3>1
  <2>2. CASE text = <<>>
    BY <2>2
  <2> QED
    BY <2>1, <2>2
<1>3. PICK r : Read(r, Len(text)) /\ r = FoldLeft(ReadLine, Start, text)
  BY <1>1, ParserReads
<1>4. /\ Holds(r.any, "*", Len(text)) /\ Holds(r.ours, "ours", Len(text))
      /\ r.any \in Record(ToSet(text)) /\ r.ours \in Record(ToSet(text))
  BY <1>3 DEF Read, Parser
<1>5. robots = IF r.ours.rules # <<>> \/ r.ours.delay > 0 THEN r.ours ELSE r.any
  BY <1>3, Zenon DEF Parse
<1>6. r.ours.rules # <<>> \/ r.ours.delay > 0 <=> Governs("ours")
  <2>1. r.ours.rules # <<>> <=> RuleLines("ours", Len(text)) # {}
    <3>1. {r.ours.rules[j] : j \in DOMAIN r.ours.rules} =
             {Rule(text[i]) : i \in RuleLines("ours", Len(text))}
      BY <1>4, Zenon DEF Holds
    <3>2. r.ours.rules \in Seq({Rule(line) : line \in ToSet(text)})
      BY <1>4, Zenon DEF Record
    <3> DEFINE rules == r.ours.rules
               lines == RuleLines("ours", Len(text))
    <3> HIDE DEF rules, lines
    <3>3. ASSUME NEW S, rules \in Seq(S)
          PROVE  rules # <<>> <=> {rules[j] : j \in DOMAIN rules} # {}
      BY <3>3
    <3>4. {Rule(text[i]) : i \in lines} # {} <=> lines # {}
      OBVIOUS
    <3> QED
      BY <3>1, <3>2, <3>3, <3>4 DEF rules, lines
  <2>2. RuleLines("ours", Len(text)) # {} <=>
           \/ RulesFor("ours") # {}
           \/ \E i \in DOMAIN text : text[i].key = "allow" /\ "ours" \in AgentsOf(i)
    BY <1>1 DEF RuleLines, RulesFor, IsRule
  <2>3. r.ours.delay > 0 <=> Delays("ours", Len(text))
    BY <1>4 DEF Holds
  <2>4. DOMAIN text = 1..Len(text)
    BY <1>1
  <2> QED
    BY <2>1, <2>2, <2>3, <2>4 DEF Governs, Delays
<1>7. PICK who, record : /\ who = IF Governs("ours") THEN "ours" ELSE "*"
                         /\ record = robots /\ Holds(record, who, Len(text))
  <2>1. CASE Governs("ours")
    BY <1>4, <1>5, <1>6, <2>1
  <2>2. CASE ~Governs("ours")
    BY <1>4, <1>5, <1>6, <2>2
  <2> QED
    BY <2>1, <2>2
<1> QED
  BY <1>1, <1>2, <1>7, RecordDecides

LEMMA ParseNone == Parse(<<>>) = AllowAll
<1>1. FoldLeft(ReadLine, Start, <<>>) = Reading!Folded({}, Start, <<>>)
  BY Zenon DEF Reads, FoldLeft, MapThenFoldSet, Max,
     Reading!Folded, Reading!FoldLeft, Reading!MapThenFoldSet, Reading!Max
<1>2. Reading!Keeps({}, {Start}, {}) /\ <<>> \in Seq({}) /\ Len(<<>>) = 0 /\ Start \in {Start}
  BY DEF Reading!Keeps
<1>3. PICK run : Reading!IsRun({}, Start, <<>>, run)
  BY <1>2, Reading!FoldRuns, Zenon
<1>4. FoldLeft(ReadLine, Start, <<>>) = Start
  BY <1>1, <1>2, <1>3, Zenon DEF Reading!IsRun
<1>5. Parse(<<>>) = IF Start.ours.rules # <<>> \/ Start.ours.delay > 0 THEN Start.ours ELSE Start.any
  BY <1>4, Zenon DEF Parse
<1> QED
  BY <1>5 DEF Start, NoRecord, AllowAll

\* What was requested was asked for, or a redirect of what was asked for leads to it.
RedirectTarget(url) == \E from \in asked : \E k \in DOMAIN Hops(from) : Hops(from)[k] = url

RobotsInv ==
    /\ text \in RobotsTexts \union {<<>>} /\ robots = Parse(text)
    /\ pc = "robots" => requested = {} /\ asked = {} /\ refused = {} /\ text = <<>>
    /\ \A url \in requested : url \in asked \/ RedirectTarget(url)
    /\ RobotsObeyed

LEMMA HopsType ==
    ASSUME NEW url
    PROVE  Len(Hops(url)) \in Nat /\ DOMAIN Hops(url) = 1..Len(Hops(url))
<1>1. CASE url \in DOMAIN Redirects
  BY <1>1, SiteAssumption DEF Hops
<1>2. CASE url \notin DOMAIN Redirects
  BY <1>2 DEF Hops
<1> QED
  BY <1>1, <1>2

LEMMA RobotsInit == Init => RobotsInv
BY ParseNone DEF Init, RobotsInv, RobotsObeyed

LEMMA RobotsStep == RobotsInv /\ [Next]_vars => RobotsInv'
<1> SUFFICES ASSUME RobotsInv, [Next]_vars
             PROVE  RobotsInv'
  OBVIOUS
<1>1. \A path : Allowed(robots.rules, path) <=> ~Forbidden(path)
  BY ParseDecides DEF RobotsInv
<1>2. ASSUME text' = text
      PROVE  \A path : Forbidden(path)' <=> Forbidden(path)
  BY <1>2 DEF Forbidden, RulesFor, Governs, AgentsOf
<1>3. CASE LoadRobots
  <2>1. /\ asked' = {} /\ refused' = {} /\ requested' = {} /\ pc' = "crawl"
        /\ text' \in RobotsTexts \union {<<>>} /\ robots' = Parse(text')
    BY <1>3 DEF LoadRobots, RobotsInv
  <2> QED
    BY <2>1 DEF RobotsInv, RobotsObeyed
<1>4. ASSUME UNCHANGED <<text, robots>>, pc # "robots", pc' # "robots",
             asked' \in {asked, asked \union {Url}}, refused' \subseteq refused \union {Url},
             \A url \in requested' \ requested : url \in asked' \/ RedirectTarget(url)',
             Url \in asked' \ asked => Allowed(robots.rules, PathText(Url)),
             Url \in refused' \ refused => ~Allowed(robots.rules, PathText(Url))
      PROVE  RobotsInv'
  <2>1. \A url \in asked' : ~Forbidden(PathText(url))
    BY <1>1, <1>4 DEF RobotsInv, RobotsObeyed
  <2>2. \A url \in refused' : Forbidden(PathText(url))
    BY <1>1, <1>4 DEF RobotsInv, RobotsObeyed
  <2>3. \A url \in requested' : url \in asked' \/ RedirectTarget(url)'
    <3>1. \A url : RedirectTarget(url) => RedirectTarget(url)'
      BY <1>4 DEF RedirectTarget
    <3> QED
      BY <1>4, <3>1 DEF RobotsInv
  <2>4. RobotsObeyed'
    BY <1>2, <1>4, <2>1, <2>2, <2>3 DEF RobotsObeyed, RedirectTarget
  <2> QED
    BY <1>4, <2>3, <2>4 DEF RobotsInv
<1>5. CASE Refuse
  BY <1>4, <1>5 DEF Refuse, Turning
<1>6. CASE Fail \/ Duplicate \/ Hand
  <2>1. /\ UNCHANGED <<pc, text, robots, refused>> /\ pc = "crawl"
        /\ Allowed(robots.rules, PathText(Url))
        /\ \E n \in 0..Len(Hops(Url)) : Request(n)
    <3>1. Len(Hops(Url)) \in 0..Len(Hops(Url))
      BY HopsType
    <3> QED
      BY <1>6, <3>1 DEF Fail, Duplicate, Hand, MayAsk, Turning
  <2>2. PICK n \in 0..Len(Hops(Url)) :
           /\ asked' = asked \union {Url}
           /\ requested' = requested \union {Url} \union {Hops(Url)[k] : k \in 1..n}
    BY <2>1 DEF Request
  <2>3. \A url \in requested' \ requested : url \in asked' \/ RedirectTarget(url)'
    <3>1. 1..n \subseteq DOMAIN Hops(Url)
      BY HopsType
    <3> QED
      BY <2>2, <3>1 DEF RedirectTarget
  <2> QED
    BY <1>4, <2>1, <2>2, <2>3
<1>7. CASE Finish
  BY <1>4, <1>7 DEF Finish
<1>8. CASE UNCHANGED vars
  <2>1. RobotsObeyed'
    BY <1>2, <1>8 DEF vars, RobotsInv, RobotsObeyed
  <2>2. \A url : RedirectTarget(url)' <=> RedirectTarget(url)
    BY <1>8 DEF vars, RedirectTarget
  <2> QED
    BY <1>8, <2>1, <2>2 DEF vars, RobotsInv
<1> QED
  BY <1>3, <1>5, <1>6, <1>7, <1>8 DEF Next, Done

\* Crawl.tla's RobotsObeyed.  Whatever a robots.txt says, the record that the parser
\* makes of it line by line decides as the text does, read record by record: no path
\* of the queue that it forbids is asked for, and no other is left out; whatever else
\* is requested of the host although it is forbidden is where a redirect led.
THEOREM ObeysRobots == Spec => []RobotsObeyed
<1>1. RobotsInv => RobotsObeyed
  BY DEF RobotsInv
<1> QED
  BY <1>1, RobotsInit, RobotsStep, PTL DEF Spec

=============================================================================
