---------------------------- MODULE MCConsolidation ----------------------------
(* Values of the constants of Consolidation for TLC.                        *)
EXTENDS Consolidation

Rank == [p \in Provider |-> IF p = "himalayas" THEN 2 ELSE 1]
Letters == [p \in Provider |-> IF p = "himalayas" THEN 1 ELSE 2]

\* "Engineer" in EMEA, with or without pay, for somebody who knows a few things.
Aliases == [word \in {"postgres", "js"} |-> IF word = "js" THEN "javascript" ELSE "postgresql"]
JoinedTerms == [term \in {<<"node", "js">>} |-> "nodejs"]
Search == [query |-> <<<<"engineer">>>>, location |-> <<"emea">>, minimumSalary |-> NoMinimum,
           statedOnly |-> FALSE, since |-> 0]
Known == {<<"postgresql">>, <<"javascript">>, <<"node", "js">>, <<"go">>}
Places == {<<"emea">>, <<"remote", "emea">>}

Plain(words) == [within |-> "plain", words |-> words]
Round(words) == [within |-> "round", words |-> words]
Square(words) == [within |-> "square", words |-> words]

Listing(provider, id, company, title, countries, high, length) ==
  [provider |-> provider, id |-> id, company |-> company, title |-> title,
   remote |-> "remote", countries |-> countries, location |-> <<"emea">>, low |-> 0,
   high |-> high, length |-> length, text |-> <<>>, posted |-> 1]

Senior   == Listing("himalayas", 1, <<"acme", "inc">>,
                    <<Plain(<<"engineer">>), Round(<<"senior">>)>>, {"us"}, 0, 1)
\* The same listing, edited between two pages.
Edited   == Listing("himalayas", 1, <<"acme", "inc">>,
                    <<Plain(<<"engineer">>), Round(<<"senior">>)>>, {"us"}, 2, 1)
Anonymous == Listing("himalayas", 2, <<"inc">>, <<Plain(<<"engineer">>)>>, {"us"}, 0, 1)
Twin     == [Listing("remoteok", 1, <<"acme">>,
                     <<Plain(<<"engineer", "senior">>), Square(<<"hybrid">>)>>, {"us"}, 1, 2)
               EXCEPT !.text = <<"postgres", "js", "go">>, !.posted = 0]
Relisted == [Listing("remoteok", 3, <<"acme", "gmbh">>,
                     <<Plain(<<"engineer", "senior">>), Round(<<"m", "f", "w">>)>>, {"us"}, 1, 2)
               EXCEPT !.text = <<"postgres">>, !.location = <<"remote", "emea">>]
\* Dated ahead of the clock.
Junior   == [Listing("remoteok", 2, <<"acme">>,
                     <<Plain(<<"engineer">>), Round(<<"junior">>)>>, {"us"}, 0, 1)
               EXCEPT !.posted = 3]
\* The twin again, retitled.
Retitled == Listing("remoteok", 1, <<"acme">>, <<Plain(<<"engineer">>)>>, {"us"}, 1, 1)

\* The same role elsewhere, which the location filter does not let pass.
Foreign  == [Senior EXCEPT !.id = 3, !.countries = {"de"}, !.location = <<"berlin">>]

Offers == {Senior, Edited, Anonymous, Foreign, Twin, Relisted, Junior, Retitled}
=============================================================================
