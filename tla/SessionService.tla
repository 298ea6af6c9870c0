---------------------------- MODULE SessionService ----------------------------
(***************************************************************************)
(* What the pool of source/agent.js promises each caller of getSession()   *)
(* and request(), without queue, entries, lists or counters: a call is     *)
(* answered once, a caller that waits keeps waiting for what it asked for, *)
(* and what it is given is a live session for just that, given at once or  *)
(* after any wait.                                                         *)
(* A step of the pool is a step, or none, of every caller.                 *)
(***************************************************************************)
CONSTANTS Callers, Sessions, Keys, None

VARIABLES
  status,     \* of each call, as in Agent
  asked,      \* the key (options and origin) of each call, until it is answered
  wants,      \* the keys a caller is registered under while it waits: none or one
  given,      \* the session a call was answered with, or None
  serves,     \* the keys each session may be used for
  live,       \* the sessions that are not destroyed
  accepting   \* the sessions that take new streams

caller == <<status, asked, wants, given>>
vars == <<status, asked, wants, given, serves, live, accepting>>

Wait(c) ==
  /\ status[c] = "idle" /\ status'[c] = "waiting"
  /\ asked'[c] = asked[c] /\ wants'[c] = {asked[c]}
  /\ given'[c] = given[c]

\* resolve(session); request() opens a stream with it, or fails to.
Answer(c) ==
  /\ status[c] \in {"idle", "waiting"} /\ status'[c] \in {"holding", "streaming", "refused"}
  /\ given'[c] \in live
  /\ asked[c] \in serves'[given'[c]]
  /\ status'[c] = "streaming" => given'[c] \in accepting'

Reject(c) ==
  /\ status[c] \in {"idle", "waiting"} /\ status'[c] = "rejected"
  /\ given'[c] = given[c]

\* A caller that was given a session makes its request later.
Use(c) ==
  /\ status[c] = "holding" /\ status'[c] \in {"streaming", "refused"}
  /\ given'[c] = given[c]
  /\ status'[c] = "streaming" => given[c] \in accepting

\* The listener of a rejected call may still be served: its promise ignores that.
Late(c) == status[c] = "rejected" /\ status'[c] \in {"rejected", "orphan"}

End(c) == status[c] \in {"streaming", "orphan"} /\ status'[c] = "done"

Stay(c) ==
  /\ status'[c] = status[c] /\ asked'[c] = asked[c]
  /\ wants'[c] = wants[c] /\ given'[c] = given[c]

Init ==
  /\ status = [c \in Callers |-> "idle"] /\ asked \in [Callers -> Keys]
  /\ wants = [c \in Callers |-> {}] /\ given = [c \in Callers |-> None]

Next ==
  \A c \in Callers :
    Wait(c) \/ Answer(c) \/ Reject(c) \/ Use(c) \/ Late(c) \/ End(c) \/ Stay(c)

Spec == Init /\ [][Next]_caller
=============================================================================
