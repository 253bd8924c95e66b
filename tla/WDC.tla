--------------------------------- MODULE WDC ---------------------------------
(***************************************************************************)
(* The plans of WDCqueries, with the patterns of the comment in each.  All *)
(* of them print their rows and their provenance.                          *)
(***************************************************************************)
EXTENDS PlanSteps, Sequences

q01 == Plan(
    {<<Star("?a", <<<<Anything, "fortis-angelo">>, <<"og:site_name", "PagineBianche">>>>,
            <<<<"og:title", "?title">>, <<"og:description", "?desc">>>>)>>},
    {"?title", "?desc"}, TRUE,
    {<< <<"?a", Anything, "fortis-angelo">>, <<"?a", "og:site_name", "PagineBianche">>,
        <<"?a", "og:title", "?title">>, <<"?a", "og:description", "?desc">> >>})

q02 == Plan(
    {<<Star("?a", <<<<Anything, "fortyagency">>>>,
            <<<<"ogp:image", "?b">>, <<"ogp:description", "?p">>, <<"ogp:title", "?bn">>>>)>>},
    {"?b", "?p", "?bn"}, TRUE,
    {<< <<"?a", Anything, "fortyagency">>, <<"?a", "ogp:image", "?b">>,
        <<"?a", "ogp:description", "?p">>, <<"?a", "ogp:title", "?bn">> >>})

\* The projections of q03 and q07.
place == <<<<"og:title", "?t">>, <<"og:latitude", "?lat">>, <<"og:longitude", "?long">>>>

placeWhere == << <<"?a", "og:region", "Maine">>, <<"?a", "og:title", "?t">>,
                 <<"?a", "og:latitude", "?lat">>, <<"?a", "og:longitude", "?long">> >>

q03 == Plan(
    {<<Star("?a", <<<<"og:region", "Maine">>, <<"og:country-name", "United States">>>>, place)>>},
    {"?t", "?lat", "?long"}, TRUE,
    {placeWhere \o << <<"?a", "og:country-name", "United States">> >>})

\* As BTCprov::q04, but nothing takes the place of an empty list of functions:
\* then every molecule with the stock unit is printed.
q04 == Plan(
    {<<Star("?p", <<<<"foaf:page", "france-artifices">>>>, <<<<"gr:hasBusinessFunction", "?l">>>>),
       StarOfAll("?c", "?l", FALSE, <<<<"gr:hasStockKeepingUnit", "DUB073">>>>,
                 <<<<"gr:description", "?desc">>, <<"foaf:page", "?page">>>>)>>},
    {"?desc", "?page"}, TRUE,
    {<< <<"?p", "foaf:page", "france-artifices">>, <<"?p", "gr:hasBusinessFunction", "?l">>,
        <<"?c", Anything, "?l">>, <<"?c", "gr:hasStockKeepingUnit", "DUB073">>,
        <<"?c", "gr:description", "?desc">>, <<"?c", "foaf:page", "?page">> >>})

q05 == Plan(
    {<<SubMap("?b", "foaf:name", "Anonymous"), SubMap("?c", "sioc:has_container", "announcements"),
       Star("?a", <<<<"sioc:reply_of", "?c">>, <<"sioc:has_creator", "?b">>>>,
            <<<<"dc:date", "?d">>>>)>>},
    {"?d"}, TRUE,
    {<< <<"?c", "sioc:has_container", "announcements">>, <<"?b", "foaf:name", "Anonymous">>,
        <<"?a", "sioc:reply_of", "?c">>, <<"?a", "sioc:has_creator", "?b">>,
        <<"?a", "dc:date", "?d">> >>})

q06 == Plan(
    {<<Sub("?s", "ogp:site_name", "fosiki")>>, <<Sub("?s", "ogp:site_name", "Fotogard")>>},
    {"?s"}, TRUE,
    {<< <<"?s", "ogp:site_name", "fosiki">> >>, << <<"?s", "ogp:site_name", "Fotogard">> >>})

q07 == Plan(
    {<<StarOptional("?a", <<<<"og:region", "Maine">>>>, <<<<"og:country-name", "United States">>>>,
                    place)>>},
    {"?t", "?lat", "?long"}, TRUE, {placeWhere})
=============================================================================
