----------------------------- MODULE AgentService -----------------------------
(* The pool of Agent implements SessionService. *)
EXTENDS Agent

\* The keys of the entries a waiting caller is registered with.
Wants(l) ==
  IF status[l] = "waiting"
  THEN {<<options[e], origin[e]>> : e \in {x \in Entries : l \in listeners[x]}} ELSE {}

\* A session serves the origin it was created for and those of its origin set.
Serves(e) == {<<options[e], o>> : o \in (originSet[e] \cup {origin[e]}) \cap Origins}

Service == INSTANCE SessionService WITH
  Callers <- Listeners, Sessions <- Entries, Keys <- Options \X Origins,
  wants <- [l \in Listeners |-> Wants(l)],
  serves <- [e \in Entries |-> Serves(e)],
  live <- {e \in Entries : life[e] # "destroyed"},
  accepting <- {e \in Entries : Accepting(Now, e)}

\* However entries are emptied, replaced and served by the handlers of other
\* sessions (_accept(), processListeners()), every caller is answered once, by a
\* live session of the options it gave that serves the origin it asked for.
ImplementsService == Service!Spec
=============================================================================
