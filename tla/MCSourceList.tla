--------------------------- MODULE MCSourceList -----------------------------
(* One seed, one source the operator types, and three answers of the portals:  *)
(* a dataset and two items of one map service; two resources of one package,   *)
(* one written with a space; and a dataset without a name before a known one.  *)
EXTENDS SourceList

CONSTANTS seed, fixture, typed, d0, d1, i1, i2, r1, r2, n1, n2

At(x) == [at |-> x, padded |-> FALSE]
MCSeeds == <<[id |-> seed, name |-> n1, url |-> At(fixture), enabled |-> TRUE,
              copied |-> TRUE, by |-> "seed"]>>
MCUrls == {At(<<"county", d1>>), [at |-> typed, padded |-> TRUE]}

Dataset(id, name) == [id |-> id, domain |-> "county", name |-> name, usable |-> TRUE]
Item(id, layer) ==
    [id |-> id, name |-> n2, usable |-> TRUE,
     service |-> [base |-> "service", layer |-> layer, feature |-> layer = NoRows]]
Resource(id, padded) == [id |-> id, usable |-> TRUE, url |-> [at |-> id, padded |-> padded]]
Package == [name |-> n2, resources |-> <<Resource(r1, FALSE), Resource(r2, TRUE)>>]

MCAnswers ==
    {[socrata |-> <<<<Dataset(d1, n1)>>, NoAnswer, <<Dataset(d1, n1)>> >>,
      arcgis |-> <<<<Item(i1, NoRows), Item(i2, 0)>> >>, ckan |-> <<>>],
     [socrata |-> <<>>, arcgis |-> <<>>, ckan |-> <<<<Package>>, <<Package>> >>],
     [socrata |-> <<<<Dataset(d0, Blank), Dataset(d1, n1)>> >>, arcgis |-> <<>>, ckan |-> <<>>]}
=============================================================================
