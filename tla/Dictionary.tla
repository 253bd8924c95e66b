----------------------------- MODULE Dictionary -----------------------------
(***************************************************************************)
(* What the KeyManager promises to whoever holds a KEY_ID: once a URI has  *)
(* its key it keeps it, no two URIs share one, and 0 is never given.       *)
(***************************************************************************)
EXTENDS Naturals

CONSTANT Uri

VARIABLE named    \* the pairs of a URI and its key

\* The pairs read as a dictionary in both directions.
OneToOne(pairs) ==
    \A a, b \in pairs : a.uri = b.uri <=> a.key = b.key

Init == named = {}

\* Some more URIs are given their keys.
Assign ==
    /\ named \subseteq named'
    /\ named' \subseteq [uri: Uri, key: Nat \ {0}]
    /\ OneToOne(named')

Next == Assign

Spec == Init /\ [][Next]_named
=============================================================================
