----------------------------- MODULE MCTraining -----------------------------
(* Two fields, one portal the models learn from and one held out.  Between two *)
(* harvests a column of the first fills with dates, so that its label changes; *)
(* the third answer has a column whose two names disagree and near misses.     *)
EXTENDS Training

CONSTANTS tax_due, sale_date, tax_du, misc, price, day, word

MCFields == <<"amount", "date">>
MCWords == [f \in {"amount", "date"} |-> IF f = "amount" THEN {tax_due} ELSE {sale_date}]
MCOverlaps == {<<tax_due, tax_due>>, <<sale_date, sale_date>>, <<tax_du, tax_due>>}
MCFits == [value \in {price, day, word} |->
               CASE value = price -> {"amount"} [] value = day -> {"amount", "date"} [] OTHER -> {}]

Column(field, display, values) == [field |-> field, display |-> display, values |-> values]
Dataset(domain, id, columns) ==
    [domain |-> domain, id |-> id, plausible |-> TRUE, columns |-> columns, served |-> TRUE]

Taught(values) ==
    Dataset("taught", 1, <<Column(tax_due, tax_due, <<price>>), Column(misc, misc, values),
                           Column(tax_du, tax_du, <<word, word>>)>>)
Unseen == Dataset("unseen", 2, <<Column(tax_due, Unnamed, <<price>>),
                                 Column(tax_du, misc, <<price, price, price, word>>)>>)
Mixed == Dataset("taught", 3, <<Column(tax_due, sale_date, <<word>>), Column(misc, tax_due, <<>>),
                                Column(misc, misc, <<day, day>>), Column(misc, Unnamed, <<word>>)>>)

\* What one more harvest has another label for, and the held-out portal; one was made
\* when the schema did not know a word yet, as the corpus in data/ has longitudes
\* that are labelled "none".
MCShipped ==
    {NoCorpus, <<Example(Taught(<<>>), Column(misc, misc, <<>>), "none"),
                 Example(Taught(<<>>), Column(tax_due, tax_due, <<>>), "none")>>,
     <<Example(Taught(<<>>), Column(misc, misc, <<>>), "amount"),
       Example(Unseen, Column(misc, misc, <<>>), "amount")>>}

MCAnswers ==
    {<< <<Taught(<<word>>)>>, <<Taught(<<word>>), Unseen>> >>,
     << <<>>, <<Unseen, Taught(<<price, price>>), Mixed>> >>,
     << <<Mixed>> >>}
=============================================================================
