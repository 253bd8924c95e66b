--------------------------------- MODULE BTC ---------------------------------
(***************************************************************************)
(* The plans of BTCprov, with the patterns of the comment in each.  All of *)
(* them print their rows and their provenance; PostFiltering, which would  *)
(* take rows out again, returns at its first line.  q07 is left out: it is *)
(* commented out wherever it was called.                                   *)
(***************************************************************************)
EXTENDS PlanSteps, Sequences

q01 == Plan(
    {<<Star("?a", <<<<Anything, "Eiffel Tower">>, <<"gn:inCountry", "FR">>>>,
            <<<<"geo:lat", "?lat">>, <<"geo:long", "?long">>>>)>>},
    {"?lat", "?long"}, TRUE,
    {<< <<"?a", Anything, "Eiffel Tower">>, <<"?a", "gn:inCountry", "FR">>,
        <<"?a", "geo:lat", "?lat">>, <<"?a", "geo:long", "?long">> >>})

q02 == Plan(
    {<<Star("?a", <<<<Anything, "Tim Berners-Lee">>>>,
            <<<<"dbp:dateOfBirth", "?b">>, <<"dbp:placeOfBirth", "?p">>, <<"dbp:name", "?bn">>>>)>>},
    {"?b", "?p", "?bn"}, TRUE,
    {<< <<"?a", Anything, "Tim Berners-Lee">>, <<"?a", "dbp:dateOfBirth", "?b">>,
        <<"?a", "dbp:placeOfBirth", "?p">>, <<"?a", "dbp:name", "?bn">> >>})

\* The projections of q03 and q10.
site == <<<<"dbp:title", "?t">>, <<"geo:lat", "?lat">>, <<"geo:long", "?long">>>>

listed == <<"?a", "dbp:wikilink", "dbr:List_of_World_Heritage_Sites_in_Europe">>

siteWhere == << listed, <<"?a", "dbp:title", "?t">>, <<"?a", "geo:lat", "?lat">>,
                <<"?a", "geo:long", "?long">> >>

q03 == Plan(
    {<<Star("?a", <<<<"dbp:wikilink", listed[3]>>, <<"dbp:wikilink", "dbr:Middle_Ages">>>>, site)>>},
    {"?t", "?lat", "?long"}, TRUE,
    {siteWhere \o << <<"?a", "dbp:wikilink", "dbr:Middle_Ages">> >>})

\* All the places of death become constraints of one TriplePatern; without any,
\* its first constraint is TripleIDs(0, 0, 0, 0).
q04 == Plan(
    {<<Star("?p", <<<<"dbp:name", "Krebs, Emil">>>>, <<<<"dbp:deathPlace", "?l">>>>),
       StarOfAll("?c", "?l", TRUE, <<<<"gn:featureClass", "gn:P">>, <<"gn:inCountry", "DE">>>>,
                 <<<<"geo:lat", "?lat">>, <<"geo:long", "?long">>>>)>>},
    {"?l", "?lat", "?long"}, TRUE,
    {<< <<"?p", "dbp:name", "Krebs, Emil">>, <<"?p", "dbp:deathPlace", "?l">>,
        <<"?c", Anything, "?l">>, <<"?c", "gn:featureClass", "gn:P">>,
        <<"?c", "gn:inCountry", "DE">>, <<"?c", "geo:lat", "?lat">>,
        <<"?c", "geo:long", "?long">> >>})

q05 == Plan(
    {<<Star("?a", <<<<Anything, "Barack Obama">>>>, <<<<"dbp:placeOfBirth", "?l">>>>),
       Star("?l", <<<<"geo:lat", Anything>>, <<"geo:long", Anything>>>>,
            <<<<"geo:lat", "?lat">>, <<"geo:long", "?long">>>>)>>},
    {"?l", "?lat", "?long"}, TRUE,
    {<< <<"?a", Anything, "Barack Obama">>, <<"?a", "dbp:placeOfBirth", "?l">>,
        <<"?l", "geo:lat", "?lat">>, <<"?l", "geo:long", "?long">> >>})

\* The molecules that the index lists for both ?c and ?b, each then asked for
\* both; the index alone would do for the candidates.
q06 == Plan(
    {<<SubMap("?c", "dbp:profession", "dbr:Veterinarian"), SubMap("?b", "gn:inCountry", "US"),
       Star("?a", <<<<"dbp:senators", "?c">>, <<"owl:sameAs", "?b">>>>, <<<<"dbp:name", "?d">>>>)>>},
    {"?d"}, TRUE,
    {<< <<"?c", "dbp:profession", "dbr:Veterinarian">>, <<"?b", "gn:inCountry", "US">>,
        <<"?a", "dbp:senators", "?c">>, <<"?a", "owl:sameAs", "?b">>, <<"?a", "dbp:name", "?d">> >>})

\* Politicians are those that have the type of one of them.
q08 == Plan(
    {<<Star("?b", <<<<"dc:subject", "Blackwater">>>>, <<<<Anything, "?n">>>>),
       Star("?a", <<<<"foaf:name", "?n">>>>, <<<<"dbp:years", "?y">>>>),
       TypeAs("?a", "dbr:Paul_Boateng")>>},
    {"?y"}, TRUE,
    {<< <<"?b", "dc:subject", "Blackwater">>, <<"?b", Anything, "?n">>,
        <<"?a", "rdf:type", "yago:Politician">>, <<"?a", "foaf:name", "?n">>,
        <<"?a", "dbp:years", "?y">> >>})

q09 == Plan(
    {<<Sub("?s", "foaf:name", "Samuel")>>, <<Sub("?s", "foaf:name", "Elisabeth")>>},
    {"?s"}, TRUE,
    {<< <<"?s", "foaf:name", "Samuel">> >>, << <<"?s", "foaf:name", "Elisabeth">> >>})

q10 == Plan(
    {<<StarOptional("?a", <<<<"dbp:wikilink", listed[3]>>>>,
                    <<<<"dbp:wikilink", "dbr:Middle_Ages">>>>, site)>>},
    {"?t", "?lat", "?long"}, TRUE, {siteWhere})
=============================================================================
