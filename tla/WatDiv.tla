------------------------------- MODULE WatDiv -------------------------------
(***************************************************************************)
(* The plans of WatDivprov, with the patterns of the comment above each.   *)
(*                                                                         *)
(* Four of them have a pattern of rdf:type. They look for it under another *)
(* URI, <.../22-rdf-syntax-ns/type>; and LoadData keeps no quad of         *)
(* rdf:type anyway, but the types of the keys.                             *)
(***************************************************************************)
EXTENDS PlanSteps, Sequences

rdf_type == "rdf-syntax-ns/type"

\* The provenance printed for every row is that of the first ?v0.
l1 == Plan(
    {<<SubFirst("?v0", "wsdbm:subscribes", "wsdbm:Website10096"),
       Obj("?v0", "wsdbm:likes", "?v2"), Obj("?v2", "sorg:caption", "?v3")>>},
    {"?v0", "?v2", "?v3"}, TRUE,
    {<< <<"?v0", "wsdbm:subscribes", "wsdbm:Website10096">>,
        <<"?v2", "sorg:caption", "?v3">>, <<"?v0", "wsdbm:likes", "?v2">> >>})

l2 == Plan(
    {<<Obj("wsdbm:City121", "gn:parentCountry", "?v1"),
       Star("?v2", <<<<"wsdbm:likes", "wsdbm:Product0">>, <<"sorg:nationality", "?v1">>>>, <<>>)>>},
    {"?v1"}, TRUE,
    {<< <<"wsdbm:City121", "gn:parentCountry", "?v1">>,
        <<"?v2", "wsdbm:likes", "wsdbm:Product0">>, <<"?v2", "sorg:nationality", "?v1">> >>})

l4 == Plan(
    {<<Star("?v0", <<<<"og:tag", "wsdbm:Topic45">>>>, <<<<"sorg:caption", "?v2">>>>)>>},
    {"?v2"}, TRUE,
    {<< <<"?v0", "og:tag", "wsdbm:Topic45">>, <<"?v0", "sorg:caption", "?v2">> >>})

\* What is found of ?v0 only decides whether ?v3 is printed.
l5 == Plan(
    {<<Obj("wsdbm:City199", "gn:parentCountry", "?v3"),
       Star("?v0", <<<<"sorg:nationality", "?v3">>>>, <<<<"sorg:jobTitle", "?v1">>>>)>>},
    {"?v3"}, TRUE,
    {<< <<"?v0", "sorg:jobTitle", "?v1">>, <<"wsdbm:City199", "gn:parentCountry", "?v3">>,
        <<"?v0", "sorg:nationality", "?v3">> >>})

\* ?v1 is looked up and must have a value, but is not printed, nor its provenance.
s1 == Plan(
    {<<Obj("wsdbm:Retailer8811", "gr:offers", "?v0"), ObjHidden("?v0", "gr:includes", "?v1"),
       Obj("?v0", "gr:price", "?v3"), Obj("?v0", "gr:serialNumber", "?v4"),
       Obj("?v0", "gr:validFrom", "?v5"), Obj("?v0", "gr:validThrough", "?v6"),
       Obj("?v0", "sorg:eligibleQuantity", "?v7"), Obj("?v0", "sorg:eligibleRegion", "?v8"),
       Obj("?v0", "sorg:priceValidUntil", "?v9")>>},
    {"?v0", "?v3", "?v4", "?v5", "?v6", "?v7", "?v8", "?v9"}, TRUE,
    {<< <<"?v0", "gr:includes", "?v1">>, <<"wsdbm:Retailer8811", "gr:offers", "?v0">>,
        <<"?v0", "gr:price", "?v3">>, <<"?v0", "gr:serialNumber", "?v4">>,
        <<"?v0", "gr:validFrom", "?v5">>, <<"?v0", "gr:validThrough", "?v6">>,
        <<"?v0", "sorg:eligibleQuantity", "?v7">>, <<"?v0", "sorg:eligibleRegion", "?v8">>,
        <<"?v0", "sorg:priceValidUntil", "?v9">> >>})

\* results_v0, the intersection with those of the nationality, is not used.
s4 == Plan(
    {<<Sub("?v0", "foaf:age", "wsdbm:AgeGroup4"), Obj("?v0", "foaf:familyName", "?v2"),
       Sub("?v3", "mo:artist", "?v0")>>},
    {"?v0", "?v2", "?v3"}, FALSE,
    {<< <<"?v0", "foaf:age", "wsdbm:AgeGroup4">>, <<"?v0", "foaf:familyName", "?v2">>,
        <<"?v3", "mo:artist", "?v0">>, <<"?v0", "sorg:nationality", "wsdbm:Country1">> >>})

s7 == Plan(
    {<<Obj("wsdbm:User818157", "wsdbm:likes", "?v0"), Obj("?v0", rdf_type, "?v1"),
       Obj("?v0", "sorg:text", "?v2")>>},
    {"?v0", "?v1", "?v2"}, FALSE,
    {<< <<"?v0", "rdf:type", "?v1">>, <<"?v0", "sorg:text", "?v2">>,
        <<"wsdbm:User818157", "wsdbm:likes", "?v0">> >>})

\* ?u3 is the v3 whose trailer and keywords are read; the innermost loops range
\* over all values of v3 again.
f1 == Plan(
    {<<Sub("?v0", "og:tag", "wsdbm:Topic245"), Obj("?v0", rdf_type, "?v2"),
       Sub("?u3", "wsdbm:hasGenre", "?v0"), Sub("?u3", rdf_type, "wsdbm:ProductCategory2"),
       Obj("?u3", "sorg:trailer", "?v4"), Obj("?u3", "sorg:keywords", "?v5"),
       Sub("?v3", "wsdbm:hasGenre", "?v0"), Sub("?v3", rdf_type, "wsdbm:ProductCategory2")>>},
    {"?v0", "?v2", "?v3", "?v4", "?v5"}, FALSE,
    {<< <<"?v0", "og:tag", "wsdbm:Topic245">>, <<"?v0", "rdf:type", "?v2">>,
        <<"?v3", "sorg:trailer", "?v4">>, <<"?v3", "sorg:keywords", "?v5">>,
        <<"?v3", "wsdbm:hasGenre", "?v0">>, <<"?v3", "rdf:type", "wsdbm:ProductCategory2">> >>})

f2 == Plan(
    {<<Sub("?v0", "wsdbm:hasGenre", "wsdbm:SubGenre79"), Obj("?v0", "og:title", "?v2"),
       Obj("?v0", rdf_type, "?v3"), Obj("?v0", "sorg:caption", "?v4"),
       Obj("?v0", "sorg:description", "?v5"), Obj("?v0", "foaf:homepage", "?v1"),
       Obj("?v1", "sorg:url", "?v6"), Obj("?v1", "wsdbm:hits", "?v7")>>},
    {"?v0", "?v1", "?v2", "?v3", "?v4", "?v5", "?v6", "?v7"}, FALSE,
    {<< <<"?v0", "foaf:homepage", "?v1">>, <<"?v0", "og:title", "?v2">>, <<"?v0", "rdf:type", "?v3">>,
        <<"?v0", "sorg:caption", "?v4">>, <<"?v0", "sorg:description", "?v5">>,
        <<"?v1", "sorg:url", "?v6">>, <<"?v1", "wsdbm:hits", "?v7">>,
        <<"?v0", "wsdbm:hasGenre", "wsdbm:SubGenre79">> >>})

f3 == Plan(
    {<<Sub("?v0", "wsdbm:hasGenre", "wsdbm:SubGenre73"), Obj("?v0", "sorg:contentRating", "?v1"),
       Obj("?v0", "sorg:contentSize", "?v2"), Sub("?v5", "wsdbm:purchaseFor", "?v0"),
       Sub("?v4", "wsdbm:makesPurchase", "?v5"), Obj("?v5", "wsdbm:purchaseDate", "?v6")>>},
    {"?v0", "?v1", "?v2", "?v4", "?v5", "?v6"}, FALSE,
    {<< <<"?v0", "sorg:contentRating", "?v1">>, <<"?v0", "sorg:contentSize", "?v2">>,
        <<"?v0", "wsdbm:hasGenre", "wsdbm:SubGenre73">>, <<"?v4", "wsdbm:makesPurchase", "?v5">>,
        <<"?v5", "wsdbm:purchaseDate", "?v6">>, <<"?v5", "wsdbm:purchaseFor", "?v0">> >>})

\* The homepages kept are those that are not in the language.
f4 == Plan(
    {<<Sub("?v0", "og:tag", "wsdbm:Topic232"), Obj("?v0", "foaf:homepage", "?v1"),
       NotSub("?v1", "sorg:language", "wsdbm:Language0"), Sub("?v2", "gr:includes", "?v0"),
       Obj("?v0", "sorg:description", "?v4"), Sub("?v7", "wsdbm:likes", "?v0"),
       Obj("?v0", "sorg:contentSize", "?v8"), Obj("?v1", "sorg:url", "?v5"),
       Obj("?v1", "wsdbm:hits", "?v6")>>},
    {"?v0", "?v1", "?v2", "?v4", "?v5", "?v6", "?v7", "?v8"}, FALSE,
    {<< <<"?v0", "foaf:homepage", "?v1">>, <<"?v2", "gr:includes", "?v0">>,
        <<"?v0", "og:tag", "wsdbm:Topic232">>, <<"?v0", "sorg:description", "?v4">>,
        <<"?v0", "sorg:contentSize", "?v8">>, <<"?v1", "sorg:url", "?v5">>,
        <<"?v1", "wsdbm:hits", "?v6">>, <<"?v1", "sorg:language", "wsdbm:Language0">>,
        <<"?v7", "wsdbm:likes", "?v0">> >>})

\* The loop of ?v6 ranges over the titles; the types are looked up and not used.
f5 == Plan(
    {<<Obj("wsdbm:Retailer222", "gr:offers", "?v0"), Obj("?v0", "gr:price", "?v3"),
       Obj("?v0", "gr:validThrough", "?v4"), Obj("?v0", "gr:includes", "?v1"),
       Obj("?v1", "og:title", "?v5"), Obj("?v1", "og:title", "?v6")>>},
    {"?v0", "?v1", "?v3", "?v4", "?v5", "?v6"}, FALSE,
    {<< <<"?v0", "gr:includes", "?v1">>, <<"wsdbm:Retailer222", "gr:offers", "?v0">>,
        <<"?v0", "gr:price", "?v3">>, <<"?v0", "gr:validThrough", "?v4">>,
        <<"?v1", "og:title", "?v5">>, <<"?v1", "rdf:type", "?v6">> >>})

\* The ratings WatDiv generates; another one in the data would not be found.
contentRatingValues == {"8", "9", "6", "7", "11", "13", "16", "10", "14", "18", "12", "17", "15"}

c1 == Plan(
    {<<OneOf("?v3", contentRatingValues), Sub("?v0", "sorg:contentRating", "?v3"),
       Obj("?v0", "sorg:caption", "?v1"), Obj("?v0", "sorg:text", "?v2"),
       Obj("?v0", "rev:hasReview", "?v4"), Obj("?v4", "rev:title", "?v5"),
       Obj("?v4", "rev:reviewer", "?v6"), Sub("?v7", "sorg:actor", "?v6"),
       Obj("?v7", "sorg:language", "?v8")>>},
    {"?v0", "?v1", "?v2", "?v3", "?v4", "?v5", "?v6", "?v7", "?v8"}, FALSE,
    {<< <<"?v0", "sorg:caption", "?v1">>, <<"?v0", "sorg:text", "?v2">>,
        <<"?v0", "sorg:contentRating", "?v3">>, <<"?v0", "rev:hasReview", "?v4">>,
        <<"?v4", "rev:title", "?v5">>, <<"?v4", "rev:reviewer", "?v6">>,
        <<"?v7", "sorg:actor", "?v6">>, <<"?v7", "sorg:language", "?v8">> >>})

c2 == Plan(
    {<<Sub("?v2", "sorg:eligibleRegion", "wsdbm:Country5"), Sub("?v0", "gr:offers", "?v2"),
       Obj("?v0", "sorg:legalName", "?v1"), Obj("?v2", "gr:includes", "?v3"),
       Sub("?v7", "wsdbm:purchaseFor", "?v3"), Obj("?v3", "rev:hasReview", "?v8"),
       Obj("?v8", "rev:totalVotes", "?v9"), Sub("?v4", "wsdbm:makesPurchase", "?v7"),
       Obj("?v4", "sorg:jobTitle", "?v5"), Obj("?v4", "foaf:homepage", "?v6")>>},
    {"?v0", "?v1", "?v2", "?v3", "?v4", "?v5", "?v6", "?v7", "?v8", "?v9"}, FALSE,
    {<< <<"?v0", "sorg:legalName", "?v1">>, <<"?v0", "gr:offers", "?v2">>,
        <<"?v2", "sorg:eligibleRegion", "wsdbm:Country5">>, <<"?v2", "gr:includes", "?v3">>,
        <<"?v4", "sorg:jobTitle", "?v5">>, <<"?v4", "foaf:homepage", "?v6">>,
        <<"?v4", "wsdbm:makesPurchase", "?v7">>, <<"?v7", "wsdbm:purchaseFor", "?v3">>,
        <<"?v3", "rev:hasReview", "?v8">>, <<"?v8", "rev:totalVotes", "?v9">> >>})

\* The only plan that runthemall and benchmark run.
c3 == Plan(
    {<<OneOf("?v5", {"wsdbm:Gender0", "wsdbm:Gender1"}),
       Star("?v0", <<<<"wsdbm:gender", "?v5">>>>,
            <<<<"wsdbm:likes", "?v1">>, <<"wsdbm:friendOf", "?v2">>, <<"dc:Location", "?v3">>,
              <<"foaf:age", "?v4">>, <<"foaf:givenName", "?v6">>>>)>>},
    {"?v1", "?v2", "?v3", "?v4", "?v6"}, TRUE,
    {<< <<"?v0", "wsdbm:likes", "?v1">>, <<"?v0", "wsdbm:friendOf", "?v2">>,
        <<"?v0", "dc:Location", "?v3">>, <<"?v0", "foaf:age", "?v4">>,
        <<"?v0", "wsdbm:gender", "?v5">>, <<"?v0", "foaf:givenName", "?v6">> >>})
=============================================================================
