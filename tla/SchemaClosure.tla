--------------------------- MODULE SchemaClosure ---------------------------
(***************************************************************************)
(* What loading a set of schema documents promises, whatever the order in  *)
(* which xs:import and xs:include are followed: the resolver is asked at   *)
(* most once for each reference key, only for keys some loaded document    *)
(* names, and loading succeeds only when no loaded document names a key    *)
(* that was never asked for.                                               *)
(***************************************************************************)
CONSTANTS Key,      \* what a reference is remembered by
          Top       \* the top-level document, which no key names

VARIABLES refs,     \* the keys each document names; chosen once
          asked,    \* the keys the resolver was asked for
          loaded,   \* the documents that were read
          outcome   \* "running", "ok" or "error"

vars == <<refs, asked, loaded, outcome>>

\* The keys that loaded documents name and nobody has asked for.
Unasked == (UNION {refs[k] : k \in loaded}) \ asked

Init == /\ refs \in [Key \cup {Top} -> SUBSET Key]
        /\ asked = {}
        /\ loaded = {Top}
        /\ outcome = "running"

\* The resolver answers with a document, or with none.
Ask(k) == /\ outcome = "running"
          /\ k \in Unasked
          /\ asked' = asked \cup {k}
          /\ loaded' \in {loaded, loaded \cup {k}}
          /\ UNCHANGED <<refs, outcome>>

\* The load may give up at any time, also on what the resolver answers.
Fail == /\ outcome = "running"
        /\ outcome' = "error"
        /\ \/ asked' = asked
           \/ \E k \in Unasked : asked' = asked \cup {k}
        /\ UNCHANGED <<refs, loaded>>

Finish == /\ outcome = "running"
          /\ Unasked = {}
          /\ outcome' = "ok"
          /\ UNCHANGED <<refs, asked, loaded>>

Next == (\E k \in Key : Ask(k)) \/ Fail \/ Finish

Spec == Init /\ [][Next]_vars
============================================================================
