------------------------------- MODULE Links --------------------------------
(* Urls and what a page's anchors lead to: resolve_url, normalize_path and     *)
(* links_from (net/crawl.cpp).  A url is a record [host, segs, slash, query]:  *)
(* the segments of its path, whether it ends in "/" (for a bare host, whether  *)
(* the path is there at all), and its query.  Fragments never reach a url.     *)
EXTENDS Integers, SequencesExt

NoUrl == [host |-> "", segs |-> <<>>, slash |-> FALSE, query |-> ""]

\* split_url's path, as the symbols a robots rule is compared with.
PathText(url) ==
    (IF url.segs = <<>> THEN <<"/">>
     ELSE FlattenSeq([k \in DOMAIN url.segs |-> <<"/", url.segs[k]>>])
          \o IF url.slash THEN <<"/">> ELSE <<>>)
    \o IF url.query = "" THEN <<>> ELSE <<url.query>>

Step(out, seg) ==
    CASE seg = ".." -> IF out = <<>> THEN out ELSE Front(out)
      [] seg = "."  -> out
      [] OTHER      -> Append(out, seg)

Normalize(segs) == FoldLeft(Step, <<>>, segs)

OnHost(host, segs, slash, query) ==
    LET path == Normalize(segs) IN
    [host |-> host, segs |-> path, slash |-> slash \/ path = <<>>, query |-> query]

\* The part of a path up to its last "/".
Directory(url) == IF url.slash \/ url.segs = <<>> THEN url.segs ELSE Front(url.segs)

\* An href is a url with a kind: "unusable" (a fragment, mailto: and the like),
\* "absolute" or "network" (with a host, taken as it stands), "rooted" ("/..."),
\* "query" ("?...") or "relative".
Resolve(base, href) ==
    CASE href.kind = "unusable" -> NoUrl
      [] href.kind \in {"absolute", "network"} -> href.url
      [] href.kind = "rooted" ->
            OnHost(base.host, href.url.segs, href.url.slash, href.url.query)
      [] href.kind = "query" -> OnHost(base.host, base.segs, base.slash, href.url.query)
      [] href.kind = "relative" ->
            OnHost(base.host, Directory(base) \o href.url.segs, href.url.slash, href.url.query)

AddNew(out, url) == IF url = NoUrl \/ Contains(out, url) THEN out ELSE Append(out, url)

\* Pagination first, then the rest, each in document order.
Sort(sorted, anchor) ==
    IF anchor.paginates THEN [sorted EXCEPT !.ordered = Append(@, anchor)]
                        ELSE [sorted EXCEPT !.rest = Append(@, anchor)]

Ordered(anchors) ==
    LET sorted == FoldLeft(Sort, [ordered |-> <<>>, rest |-> <<>>], anchors) IN
    sorted.ordered \o sorted.rest

\* Each url once, and no more than the limit.
LinksFrom(url, anchors, limit) ==
    LET ordered == Ordered(anchors)
        found == FoldLeft(AddNew, <<>>,
                          [k \in DOMAIN ordered |-> Resolve(url, ordered[k].href)]) IN
    IF Len(found) > limit THEN SubSeq(found, 1, limit) ELSE found
=============================================================================
