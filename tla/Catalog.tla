------------------------------ MODULE Catalog -------------------------------
(* harvest::discover (engine/harvest.cpp): the datasets three kinds of portal  *)
(* offer, one query after the other.  A url is [at, padded]: where it points   *)
(* and whether white space surrounds it as the portal wrote it.  An entry that *)
(* lacks what the code needs of it (its keys, a plausible domain and id, four  *)
(* columns) has usable = FALSE.                                                *)
EXTENDS Integers, SequencesExt

CONSTANTS
    PerQuery,       \* datasets_per_query
    NoAnswer,       \* a request that failed, or an answer that cannot be read
    NoRows          \* the address of a service that has no rows to ask for

Nothing == [seen |-> {}, out |-> <<>>, taken |-> 0]

\* One more dataset under its key, unless it was seen.
Offer(found, key, name, url) ==
    IF key \in found.seen THEN found
    ELSE [seen |-> found.seen \union {key},
          out |-> Append(found.out, [name |-> name, url |-> url]),
          taken |-> found.taken + 1]

TakeDataset(found, entry) ==
    IF found.taken < PerQuery /\ entry.usable
    THEN Offer(found, entry.id, entry.name, [at |-> <<entry.domain, entry.id>>, padded |-> FALSE])
    ELSE found

\* A service answers rows through one of its layers; without one named, the first
\* of a feature server.
RowsUrl(service) ==
    CASE service.layer # NoRows -> <<service.base, service.layer>>
      [] service.layer = NoRows /\ service.feature -> <<service.base, 0>>
      [] OTHER -> NoRows

TakeService(found, entry) ==
    IF found.taken < PerQuery /\ entry.usable /\ RowsUrl(entry.service) # NoRows
    THEN Offer(found, <<"arcgis", entry.id>>, entry.name,
               [at |-> RowsUrl(entry.service), padded |-> FALSE])
    ELSE found

\* Of a package the first usable resource that was not seen; no limit but the portal's.
TakePackage(found, package) ==
    LET key(r) == <<"ckan", r.id>>
        fresh == {i \in DOMAIN package.resources : /\ package.resources[i].usable
                                                   /\ key(package.resources[i]) \notin found.seen} IN
    IF fresh = {} THEN found
    ELSE LET r == package.resources[Min(fresh)] IN Offer(found, key(r), package.name, r.url)

Take(kind, found, entry) ==
    CASE kind = "socrata" -> TakeDataset(found, entry)
      [] kind = "arcgis" -> TakeService(found, entry)
      [] kind = "ckan" -> TakePackage(found, entry)

\* One query's answer: what is taken of it is counted anew.
TakeAnswer(kind, found, answer) ==
    IF answer = NoAnswer THEN found
    ELSE FoldLeft(LAMBDA f, entry : Take(kind, f, entry), [found EXCEPT !.taken = 0], answer)

Answered(kind, found, answers) ==
    FoldLeft(LAMBDA f, answer : TakeAnswer(kind, f, answer), found, answers)

\* What the portals answered, per kind and in the order they are asked.
Discover(answers) ==
    Answered("ckan", Answered("arcgis", Answered("socrata", Nothing, answers.socrata),
                              answers.arcgis), answers.ckan).out
=============================================================================
