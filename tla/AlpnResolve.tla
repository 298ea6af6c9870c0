----------------------------- MODULE AlpnResolve -----------------------------
(***************************************************************************)
(* source/auto.js: calls of auto() find out which protocol their host      *)
(* speaks, and then make an HTTP/2 or an HTTP/1.1 request.  Calls for one  *)
(* host share a pending resolution through the map `queue` and its result  *)
(* through `cache`.                                                        *)
(*                                                                         *)
(* A step is the code between two awaits; other calls run in between.  A   *)
(* resolution is named after the call that started it, its owner: the      *)
(* owner is the first to await its promise, so it resumes first.  Options  *)
(* are private to a call, which replaces options.path before its await and *)
(* restores it in both branches after it; the path is left out.            *)
(***************************************************************************)
CONSTANTS Calls,        \* each calls auto() once
          Names,        \* host:port:ALPNProtocols, the keys of cache and queue
          Negotiates,   \* Negotiates[n]: what a TLS socket to n says, alpnProtocol
          Failures,     \* how a resolution may fail, within {"timeout", "error"}
          None

Protocols == {"h2", "http/1.1", "false"}

ASSUME NegotiatesAssumption == Negotiates \in [Names -> Protocols]
ASSUME FailuresAssumption == Failures \subseteq {"timeout", "error"}
ASSUME NoneAssumption ==
  None \notin Calls \cup Names \cup Protocols \cup {"null", "pending", "timeout", "error"}

VARIABLES cache,        \* cache[n]: a protocol, or None
          queue,        \* queue[n]: the owner of the pending resolution, or None
          resolution,   \* resolution[c]: what became of the one c owns, if any
          phase, name,  \* per call: where it is, and the host it is for
          waitsFor,     \* whose resolution it awaits
          answer,       \* the alpnProtocol it was given
          socket        \* the socket it got from its own resolution

vars == <<cache, queue, resolution, phase, name, waitsFor, answer, socket>>

Phases == {"idle", "owner", "joined", "answered", "timedOut",
           "http2", "http1", "error"}
Ended == {"http2", "http1", "error"}

\* A socket that did not finish its handshake has no alpnProtocol.
Answers == Protocols \cup {"null"}
AlpnProtocol_Mutant(outcome) == outcome

AlpnProtocol(outcome) == IF outcome = "timeout" THEN "null" ELSE outcome

IsHttp2_Mutant(protocol) == protocol # "http/1.1"

IsHttp2(protocol) == protocol = "h2"

Init ==
  /\ cache = [n \in Names |-> None]
  /\ queue = [n \in Names |-> None]
  /\ resolution = [c \in Calls |-> None]
  /\ phase = [c \in Calls |-> "idle"]
  /\ name = [c \in Calls |-> None]
  /\ waitsFor = [c \in Calls |-> None]
  /\ answer = [c \in Calls |-> None]
  /\ socket = [c \in Calls |-> "none"]
------------------------------------------------------------------------------
(* auto() up to its await of resolveProtocol() *)

Begin(c, p) == phase[c] = "idle" /\ phase' = [phase EXCEPT ![c] = p]

\* Invalid ALPNProtocols or agent.
CallInvalid(c) ==
  /\ Begin(c, "error")
  /\ UNCHANGED <<cache, queue, resolution, name, waitsFor, answer, socket>>

\* `http:` is not resolved.
CallPlain(c) ==
  /\ Begin(c, "http1")
  /\ UNCHANGED <<cache, queue, resolution, name, waitsFor, answer, socket>>

CallCached(c, n) ==
  /\ cache[n] # None
  /\ Begin(c, "answered")
  /\ name' = [name EXCEPT ![c] = n]
  /\ answer' = [answer EXCEPT ![c] = cache[n]]
  /\ UNCHANGED <<cache, queue, resolution, waitsFor, socket>>

CallJoins(c, n) ==
  /\ cache[n] = None /\ queue[n] # None
  /\ Begin(c, "joined")
  /\ name' = [name EXCEPT ![c] = n]
  /\ waitsFor' = [waitsFor EXCEPT ![c] = queue[n]]
  /\ UNCHANGED <<cache, queue, resolution, answer, socket>>

CallResolves(c, n) ==
  /\ cache[n] = None /\ queue[n] = None
  /\ Begin(c, "owner")
  /\ name' = [name EXCEPT ![c] = n]
  /\ queue' = [queue EXCEPT ![n] = c]
  /\ waitsFor' = [waitsFor EXCEPT ![c] = c]
  /\ resolution' = [resolution EXCEPT ![c] = "pending"]
  /\ UNCHANGED <<cache, answer, socket>>
------------------------------------------------------------------------------
(* resolveProtocol() after its await *)

\* resolve-alpn settles its promise.
Settle(c) ==
  /\ resolution[c] = "pending"
  /\ \E outcome \in {Negotiates[name[c]]} \cup Failures :
       resolution' = [resolution EXCEPT ![c] = outcome]
  /\ UNCHANGED <<cache, queue, phase, name, waitsFor, answer, socket>>

Succeeded(c) == resolution[c] \in Protocols \cup {"timeout"}

\* The owner gets the whole result: the timeout, and the socket.
OwnerSucceeds(c) ==
  /\ phase[c] = "owner" /\ Succeeded(c)
  /\ cache' = [cache EXCEPT ![name[c]] = AlpnProtocol(resolution[c])]
  /\ queue' = [queue EXCEPT ![name[c]] = None]
  /\ phase' = [phase EXCEPT ![c] = IF resolution[c] = "timeout" THEN "timedOut"
                                                                ELSE "answered"]
  /\ answer' = [answer EXCEPT ![c] = AlpnProtocol(resolution[c])]
  /\ socket' = [socket EXCEPT ![c] = "open"]
  /\ UNCHANGED <<resolution, name, waitsFor>>

OwnerFails_Mutant(c) ==
  /\ phase[c] = "owner" /\ resolution[c] = "error"
  /\ phase' = [phase EXCEPT ![c] = "error"]
  /\ UNCHANGED <<cache, queue, resolution, name, waitsFor, answer, socket>>

OwnerFails(c) ==
  /\ phase[c] = "owner" /\ resolution[c] = "error"
  /\ queue' = [queue EXCEPT ![name[c]] = None]
  /\ phase' = [phase EXCEPT ![c] = "error"]
  /\ UNCHANGED <<cache, resolution, name, waitsFor, answer, socket>>

\* A call that joined gets the protocol only, or the same error.
JoinerResumes_Mutant(c) ==
  /\ phase[c] = "joined" /\ phase[waitsFor[c]] # "owner" /\ Succeeded(waitsFor[c])
  /\ phase' = [phase EXCEPT ![c] = "answered"]
  /\ answer' = [answer EXCEPT ![c] = AlpnProtocol(resolution[waitsFor[c]])]
  /\ UNCHANGED <<cache, queue, resolution, name, waitsFor, socket>>

JoinerResumes(c) ==
  /\ phase[c] = "joined" /\ phase[waitsFor[c]] # "owner"
  /\ \/ /\ Succeeded(waitsFor[c])
        /\ phase' = [phase EXCEPT ![c] = "answered"]
        /\ answer' = [answer EXCEPT ![c] = AlpnProtocol(resolution[waitsFor[c]])]
     \/ /\ resolution[waitsFor[c]] = "error"
        /\ phase' = [phase EXCEPT ![c] = "error"]
        /\ UNCHANGED answer
  /\ UNCHANGED <<cache, queue, resolution, name, waitsFor, socket>>
------------------------------------------------------------------------------
(* auto() after its await *)

ThrowTimeout(c) ==
  /\ phase[c] = "timedOut"
  /\ phase' = [phase EXCEPT ![c] = "error"]
  /\ socket' = [socket EXCEPT ![c] = "destroyed"]
  /\ UNCHANGED <<cache, queue, resolution, name, waitsFor, answer>>

\* The agents a call may end up with: `false`, one with the default
\* createConnection() (the global agents, too), one that overrides it.
AgentKinds == {"false", "default", "custom"}

Disposed_Mutant(protocol, agent, custom) ==
  IF custom \/ agent = "custom" THEN "destroyed"
  ELSE IF agent = "false" THEN "open"
  ELSE IF IsHttp2(protocol) THEN "reused" ELSE "installed"

\* What becomes of the resolved socket; `custom` is options.createConnection.
Disposed(protocol, agent, custom) ==
  IF custom \/ agent # "default" THEN "destroyed"
  ELSE IF IsHttp2(protocol) THEN "reused" ELSE "installed"

\* The constructor of the request may throw on what it is given: a socket it was to
\* reuse is then still open, and in options that nobody keeps.
MakeRequest(c) ==
  /\ phase[c] = "answered"
  /\ \E p \in {IF IsHttp2(answer[c]) THEN "http2" ELSE "http1", "error"},
        agent \in AgentKinds, custom \in BOOLEAN :
       LET fate == Disposed(answer[c], agent, custom)
       IN /\ phase' = [phase EXCEPT ![c] = p]
          /\ socket' = IF socket[c] = "none" THEN socket
                       ELSE [socket EXCEPT ![c] =
                               IF fate = "reused" /\ p = "error" THEN "open" ELSE fate]
  /\ UNCHANGED <<cache, queue, resolution, name, waitsFor, answer>>

\* The LRU cache drops an entry, or a user clears it.
Evict(n) ==
  /\ cache[n] # None
  /\ cache' = [cache EXCEPT ![n] = None]
  /\ UNCHANGED <<queue, resolution, phase, name, waitsFor, answer, socket>>

Resume(c) == OwnerSucceeds(c) \/ OwnerFails(c) \/ JoinerResumes(c)
Finish(c) == ThrowTimeout(c) \/ MakeRequest(c)

Next ==
  \/ \E c \in Calls : CallInvalid(c) \/ CallPlain(c) \/ Settle(c) \/ Resume(c) \/ Finish(c)
  \/ \E c \in Calls, n \in Names : CallCached(c, n) \/ CallJoins(c, n) \/ CallResolves(c, n)
  \/ \E n \in Names : Evict(n)

Spec == Init /\ [][Next]_vars

\* Every resolution settles, and promise jobs run.
FairSpec == Spec /\ \A c \in Calls : WF_vars(Settle(c)) /\ WF_vars(Resume(c) \/ Finish(c))
------------------------------------------------------------------------------
(* Properties *)

TypeOK ==
  /\ cache \in [Names -> Answers \cup {None}]
  /\ queue \in [Names -> Calls \cup {None}]
  /\ resolution \in [Calls -> {None, "pending"} \cup Protocols \cup {"timeout", "error"}]
  /\ phase \in [Calls -> Phases]
  /\ name \in [Calls -> Names \cup {None}]
  /\ waitsFor \in [Calls -> Calls \cup {None}]
  /\ answer \in [Calls -> Answers \cup {None}]
  /\ socket \in [Calls -> {"none", "open", "destroyed", "reused", "installed"}]

\* One resolution at a time per host: the queue holds exactly the resolutions whose
\* owner has not resumed, so a call joins none that is over, two calls never resolve
\* one host at once, and a host whose protocol is known is not being resolved.
QueueTracksPending ==
  \A n \in Names :
    /\ \A c \in Calls : queue[n] = c <=> phase[c] = "owner" /\ name[c] = n
    /\ cache[n] # None => queue[n] = None

TimedOut(n) == \E c \in Calls : name[c] = n /\ resolution[c] = "timeout"

\* "Returns a Promise giving proper `ClientRequest` instance (depending on the ALPN)"
\* (README.md:95): an HTTP/2 request for the hosts that negotiate h2, and only them.
ProperRequest ==
  \A c \in Calls :
    /\ phase[c] = "http2" => Negotiates[name[c]] = "h2"
    /\ phase[c] = "http1" /\ name[c] # None => Negotiates[name[c]] # "h2"

\* The same of every host no resolution of which timed out, whichever way a call got
\* its answer: its own resolution, another's, or a cache that forgets at any moment.
ProperUnlessTimedOut ==
  \A c \in Calls : phase[c] \in {"http2", "http1"} /\ name[c] # None /\ ~TimedOut(name[c]) =>
    (phase[c] = "http2" <=> Negotiates[name[c]] = "h2")

\* The constructor of the HTTP/2 request threw (auto.js:195).
Unmade(c) == phase[c] = "error" /\ IsHttp2(answer[c])

\* Once auto() has settled, the socket of its resolution was destroyed, or it is
\* owned by what speaks its protocol: an HTTP/2 request that was made, or the agent
\* of an HTTP/1.1 one.  The one exception is the socket that a request which could
\* not be made was to reuse: it stays open, and nobody owns it.  Only the call that
\* owned the resolution ever has a socket.
SocketsSettled ==
  \A c \in Calls :
    /\ phase[c] \in Ended => socket[c] # "open" \/ Unmade(c)
    /\ socket[c] = "reused" => phase[c] = "http2"
    /\ socket[c] = "installed" => ~IsHttp2(answer[c])
    /\ socket[c] # "none" => waitsFor[c] = c

\* Every call ends, also one that joined another's resolution that fails.
CallsEnd == \A c \in Calls : phase[c] # "idle" ~> phase[c] \in Ended
=============================================================================
