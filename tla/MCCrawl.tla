------------------------------ MODULE MCCrawl -------------------------------
(* A county site: a list of two pages whose first is served under two urls, a  *)
(* record that redirects to another host by way of the file, a private page,   *)
(* an old page that redirects to it, and one url more than the queue has room  *)
(* for.                                                                        *)
EXTENDS Crawl

At(segs, query) == [host |-> "county", segs |-> segs, slash |-> FALSE, query |-> query]
List == At(<<"tax", "list">>, "")
Page1 == At(<<"tax", "list">>, "p1")
Page2 == At(<<"tax", "list">>, "p2")
Parcel == At(<<"tax", "parcel">>, "")
Private == At(<<"private">>, "")
Roll == At(<<"roll">>, "")
Old == At(<<"tax", "old">>, "")
Elsewhere == [host |-> "vendor", segs |-> <<"roll">>, slash |-> FALSE, query |-> ""]

Answer(body, html) == [body |-> body, html |-> html]
Site ==
    [url \in {List, Page1, Page2, Parcel, Private, Roll, Old} |->
        CASE url \in {List, Page1} -> Answer("first", TRUE)
          [] url = Page2 -> Answer("second", TRUE)
          [] url = Parcel -> Answer("parcel", TRUE)
          [] url = Private -> Answer("private", TRUE)
          [] url = Roll -> Answer("roll", FALSE)
          [] url = Old -> Answer("private", TRUE)]
Sent == (Parcel :> <<Roll, Elsewhere>>) @@ (Old :> <<Private>>)

Href(kind, segs, query) == [kind |-> kind, url |-> [At(segs, query) EXCEPT !.slash = FALSE]]
Leads(href) == [href |-> href, paginates |-> FALSE]
Turns(href) == [href |-> href, paginates |-> TRUE]
Html ==
    [body \in {"first", "second", "parcel", "private", "roll"} |->
        CASE body = "first" -> <<Leads(Href("unusable", <<>>, "")),
                                 Leads(Href("relative", <<"parcel">>, "")),
                                 Leads([kind |-> "absolute", url |-> Elsewhere]),
                                 Turns(Href("query", <<>>, "p2"))>>
          [] body = "second" -> <<Turns(Href("query", <<>>, "p1")),
                                  Leads(Href("relative", <<"old">>, "")),
                                  Leads(Href("rooted", <<"private">>, "")),
                                  Leads(Href("relative", <<"..", "roll">>, ""))>>
          [] body = "parcel" -> <<Leads(Href("absolute", <<"private">>, "")),
                                  Leads(Href("relative", <<"list">>, ""))>>
          [] body = "private" -> <<Leads(Href("rooted", <<"tax", "list">>, "")),
                                   Leads(Href("rooted", <<"roll">>, ""))>>
          [] OTHER -> <<Leads(Href("rooted", <<"private">>, ""))>>]

Agent(who) == [key |-> "agent", value |-> who]
Lines ==
    {Agent("*"), Agent("ours"), [key |-> "disallow", value |-> <<>>],
     [key |-> "disallow", value |-> <<"/", "tax">>],
     [key |-> "allow", value |-> <<"/", "tax", "/", "list">>],
     [key |-> "delay", value |-> 1]}
Texts ==
    {<<Agent(who)>> \o rest : who \in {"*", "ours", "other"}, rest \in SeqOf(Lines, 3)}
    \union {<<Agent("*"), [key |-> "disallow", value |-> <<"/">>], Agent("ours"),
              [key |-> "disallow", value |-> <<"/", "private">>], a, b>> : a, b \in Lines}
=============================================================================
