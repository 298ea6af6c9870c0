------------------------------ MODULE MCAgent ------------------------------
(* Instances of Agent and AgentService for TLC. *)
EXTENDS AgentService

\* The server of each origin may declare itself authoritative for all of them.
AllOrigins == {Origins}

\* Each caller may ask for any key.
AllCalls == [Listeners -> Options \X Origins]

\* Nothing relates an origin of one option to an origin of another: renamed within
\* one option, the origins of any choice make one of these.
AlignedCalls ==
  {f \in AllCalls :
     \E o \in Origins : \A l \in Listeners : <<f[l][1], o>> \in {f[m] : m \in Listeners}}

\* Where all callers are alike, three of them, renamed as their keys may be, make
\* one choice for each number of keys.
AlikeCalls ==
  {CHOOSE f \in AllCalls : Cardinality({f[l] : l \in Listeners}) = n : n \in 1..3}

\* Requests are interchangeable, and so are the callers of getSession(), the origins
\* and the options: the agent orders none of them.
Interchangeable ==
  Permutations(Requests \ Malformed) \cup Permutations(Listeners \ Requests)
  \cup Permutations(Origins) \cup Permutations(Options)
=============================================================================
