------------------------------ MODULE QuadStore ------------------------------
(***************************************************************************)
(* What the in-memory store promises of one load, whatever its indexes:    *)
(* the quads of the input that are to be stored become answerable one      *)
(* after the other, no other quad ever does, none is forgotten, and        *)
(* queries are served only once all of them are in.  MoleculeStore         *)
(* implements this specification; there is no deletion in the program.     *)
(***************************************************************************)
CONSTANT Quad            \* the quads <<subject, predicate, object, prov>>

VARIABLES accepted,      \* the quads of the input the store has to keep
          stored,        \* the quads that can be read back
          serving        \* TRUE once queries are answered

vars == <<accepted, stored, serving>>

Init ==
    /\ accepted \in SUBSET Quad
    /\ stored = {}
    /\ serving = FALSE

\* One more accepted quad can be read back.
Store(q) ==
    /\ ~serving
    /\ q \in accepted
    /\ stored' = stored \cup {q}
    /\ UNCHANGED <<accepted, serving>>

\* The load is over.
Serve ==
    /\ stored = accepted
    /\ serving' = TRUE
    /\ UNCHANGED <<accepted, stored>>

Next == (\E q \in accepted : Store(q)) \/ Serve

Spec == Init /\ [][Next]_vars
=============================================================================
