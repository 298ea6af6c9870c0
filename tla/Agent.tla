-------------------------------- MODULE Agent --------------------------------
(***************************************************************************)
(* The HTTP/2 session pool of source/agent.js: the queue of entries that   *)
(* create sessions, the pool of sessions sorted by stream capacity, the    *)
(* listeners waiting for a session, and every handler the agent installs   *)
(* on a session and its streams.                                           *)
(*                                                                         *)
(* JavaScript runs each handler to completion, so a handler is one action. *)
(* A handler is a chain of calls that read what the earlier ones wrote;    *)
(* the helpers below are therefore functions from a state `st' of the      *)
(* agent to the state they leave, and an action composes them in the order *)
(* of the source and ends with Become.                                     *)
(*                                                                         *)
(* An entry function runs once and creates at most one session, so entry   *)
(* and session share one identifier.  Listeners of an entry are a set: no  *)
(* property depends on their order of arrival.                             *)
(***************************************************************************)
EXTENDS Integers, FiniteSets, Sequences, SequencesExt

CONSTANTS
  Entries,          \* entries (and their sessions), numbered in creation order
  Listeners,        \* callers of getSession() and request(), one call each
  Requests,         \* those that call request(): resolve() opens a stream
  Malformed,        \* requests whose headers make session.request() throw
  Origins,          \* normalized origins
  Options,          \* normalized options
  Calls,            \* what callers may ask for: options and origin, per caller
  MaxSessions,
  MaxEmptySessions,
  Limits,           \* values a server gives MAX_CONCURRENT_STREAMS
  OriginFrames,     \* origin sets a server sends in an ORIGIN frame
  Environment,      \* which of the optional events below may happen
  None

Events == {"settings", "origin", "plain", "mismatch", "connectError", "lost",
           "close", "agentDestroy", "closeEmpty", "badServername"}

ASSUME EntriesAssumption == IsFiniteSet(Entries) /\ Entries \subseteq Nat
ASSUME ListenersAssumption ==
  IsFiniteSet(Listeners) /\ Requests \subseteq Listeners /\ Malformed \subseteq Requests
ASSUME KeysAssumption == IsFiniteSet(Origins) /\ IsFiniteSet(Options)
ASSUME CallsAssumption == Calls \subseteq [Listeners -> Options \X Origins]
ASSUME BoundsAssumption == MaxSessions \in Nat \ {0} /\ MaxEmptySessions \in Nat
ASSUME EnvironmentAssumption ==
  Limits \subseteq Nat /\ OriginFrames \subseteq SUBSET Origins /\ Environment \subseteq Events
ASSUME NoneAssumption == None \notin Entries \cup Origins \cup Options

VARIABLES
  \* The agent
  queue,                 \* this.queue[normalizedOptions][normalizedOrigin]
  kLength,               \* this.queue[normalizedOptions][kLength]
  sessions,              \* this.sessions[normalizedOptions], sorted by capacity
  sessionCount,          \* this._sessionCount
  emptySessionCount,     \* this._emptySessionCount
  relay,                 \* the entry whose leftover listeners _accept() is moving
  \* The entries
  origin, options,       \* the key the entry was created for
  listeners,             \* entry.listeners
  phase,                 \* how far the entry function got, see Phases
  destroyed,             \* entries with entry.destroyed
  \* Their sessions
  life,                  \* "open", "closed" (session.closed), "destroyed"
  gracefullyClosing,     \* sessions with session[kGracefullyClosing]
  maxConcurrentStreams,  \* session.remoteSettings.maxConcurrentStreams
  originSet,             \* session[kOriginSet]
  currentStreamCount,    \* session[kCurrentStreamCount]
  \* The callers
  asked,                 \* the options and origin of a call, until it is answered
  status,                \* what became of the call, see Statuses
  given                  \* the session resolve() was called with, until its stream closes

vars == <<queue, kLength, sessions, sessionCount, emptySessionCount, relay, origin, options,
          listeners, phase, destroyed, life, gracefullyClosing, maxConcurrentStreams,
          originSet, currentStreamCount, asked, status, given>>

\* "queued" is an entry with completed = false; "connecting" awaits
\* createConnection(); "connected" has a session without SETTINGS; "ready" has
\* one in this.sessions; "closed" has seen its `close' event or its connection fail.
Phases == {"none", "queued", "connecting", "connected", "ready", "closed"}

\* "holding" has been given a session and no stream yet; "refused" had
\* session.request() throw; "orphan" was rejected and got a stream later.
Statuses == {"idle", "waiting", "holding", "streaming", "refused", "rejected", "orphan", "done"}

Now ==
  [queue |-> queue, kLength |-> kLength, sessions |-> sessions, sessionCount |-> sessionCount,
   emptySessionCount |-> emptySessionCount, relay |-> relay, origin |-> origin,
   options |-> options, listeners |-> listeners, phase |-> phase, destroyed |-> destroyed,
   life |-> life, gracefullyClosing |-> gracefullyClosing,
   maxConcurrentStreams |-> maxConcurrentStreams, originSet |-> originSet,
   currentStreamCount |-> currentStreamCount, status |-> status, given |-> given]

\* The one-element set makes TLC evaluate the state once.
Become(state) == \E st \in {state} :
  /\ queue' = st.queue /\ kLength' = st.kLength /\ sessions' = st.sessions
  /\ sessionCount' = st.sessionCount /\ emptySessionCount' = st.emptySessionCount
  /\ relay' = st.relay /\ origin' = st.origin /\ options' = st.options
  /\ listeners' = st.listeners /\ phase' = st.phase /\ destroyed' = st.destroyed
  /\ life' = st.life /\ gracefullyClosing' = st.gracefullyClosing
  /\ maxConcurrentStreams' = st.maxConcurrentStreams /\ originSet' = st.originSet
  /\ currentStreamCount' = st.currentStreamCount /\ status' = st.status /\ given' = st.given
  /\ asked' = [l \in Listeners |->
                 IF st.status[l] \in {"idle", "waiting"} THEN asked[l] ELSE None]

BecomeOneOf(S) == \E st \in S : Become(st)

------------------------------------------------------------------------------
(* Streams and closing: what Node's Http2Session does for the agent.        *)

Listed(st, p) == ToSet(st.sessions[p])

IsFree(st, e) == st.currentStreamCount[e] < st.maxConcurrentStreams[e]

\* The shim of session.request() and the native one both let a stream open.
Accepting(st, e) == st.life[e] = "open" /\ e \notin st.gracefullyClosing

\* Those among the callers T whose session.request() on e returns a stream.
Opened(st, e, T) == IF Accepting(st, e) THEN (T \cap Requests) \ Malformed ELSE {}

OpenStreams_Mutant(st, e, n) ==
  [st EXCEPT !.currentStreamCount[e] = @ + n,
             !.emptySessionCount = IF n > 0 THEN @ - 1 ELSE @]

OpenStreams(st, e, n) ==
  [st EXCEPT !.currentStreamCount[e] = @ + n,
             !.emptySessionCount = IF st.currentStreamCount[e] = 0 /\ n > 0 THEN @ - 1 ELSE @]

\* session.close(): without streams the session is destroyed at once.
Close(st, S) ==
  [st EXCEPT !.life = [e \in Entries |->
     IF e \notin S \/ st.life[e] # "open" THEN st.life[e]
     ELSE IF st.currentStreamCount[e] = 0 THEN "destroyed" ELSE "closed"]]

Destroy(st, S) ==
  [st EXCEPT !.life = [e \in Entries |-> IF e \in S THEN "destroyed" ELSE st.life[e]]]

Reject(st, T) ==
  [st EXCEPT !.status = [l \in Listeners |->
     IF l \in T /\ st.status[l] = "waiting" THEN "rejected" ELSE st.status[l]]]

\* Nothing the agent does reads entries D or their sessions any more.
Forget(st, D, ph) ==
  LET reset(f, value) == [e \in Entries |-> IF e \in D THEN value ELSE f[e]]
  IN [st EXCEPT !.phase = reset(@, ph), !.listeners = reset(@, {}),
                !.origin = reset(@, None), !.options = reset(@, None),
                !.originSet = reset(@, {}), !.maxConcurrentStreams = reset(@, 0),
                !.destroyed = @ \ D, !.gracefullyClosing = @ \ D]

------------------------------------------------------------------------------
(* Serving listeners.                                                       *)

ServesUntilFull_Mutant(st, e, W, T) ==
  LET n == st.currentStreamCount[e] + Cardinality(Opened(st, e, T))
      limit == st.maxConcurrentStreams[e]
  IN /\ T # {} => n <= limit + 1
     /\ T # W => n > limit

\* The loops of _accept() and processListeners() go on while listeners are
\* left and the session is free; T is what they served of the listeners W.
ServesUntilFull(st, e, W, T) ==
  LET n == st.currentStreamCount[e] + Cardinality(Opened(st, e, T))
      limit == st.maxConcurrentStreams[e]
  IN /\ T # {} => IsFree(st, e) /\ n <= limit
     /\ T # W => n >= limit

StatusOffered(st, e, l) ==
  LET opens == l \in Opened(st, e, {l})
  IN CASE st.status[l] = "rejected" -> IF opens THEN "orphan" ELSE "rejected"
       [] st.status[l] # "rejected" /\ l \notin Requests -> "holding"
       [] OTHER -> IF opens THEN "streaming" ELSE "refused"

\* resolve(session) for every listener of T.
Serve(st, e, T) ==
  [OpenStreams(st, e, Cardinality(Opened(st, e, T))) EXCEPT
     !.status = [l \in Listeners |-> IF l \in T THEN StatusOffered(st, e, l) ELSE st.status[l]],
     !.given = [l \in Listeners |-> IF l \in T THEN e ELSE st.given[l]]]

\* What _accept() serves of the listeners of entry e on session s.
Accept(st, s, e, T) == [Serve(st, s, T) EXCEPT !.listeners[e] = @ \ T]

------------------------------------------------------------------------------
(* The queue.                                                               *)

InQueue(st, p) == {st.queue[p][o] : o \in Origins} \ {None}

\* Deletes entries D from queue[p], and queue[p] itself once kLength is 0.
Unqueue(st, p, D) ==
  LET left == st.kLength[p] - Cardinality(D)
  IN [st EXCEPT !.kLength[p] = left,
                !.queue[p] = [o \in Origins |->
                   IF left = 0 \/ st.queue[p][o] \in D THEN None ELSE st.queue[p][o]]]

RemoveFromQueue_Mutant(st, e) ==
  LET p == st.options[e] IN Unqueue(st, p, {st.queue[p][st.origin[e]]} \ {None})

\* The key may belong to a newer entry, which stays.
RemoveFromQueue(st, e) == Unqueue(st, st.options[e], {e} \cap InQueue(st, st.options[e]))

Candidates_Mutant(st, e) ==
  {st.queue[st.options[e]][o] : o \in {st.origin[e]} \cap st.originSet[e]} \ {None}

\* The entries processListeners() of session e looks at: an empty originSet finds none.
Candidates(st, e) == {st.queue[st.options[e]][o] : o \in st.originSet[e]} \ {None}

\* The listeners it may serve.
WaitingFor(st, e) == UNION {st.listeners[x] : x \in Candidates(st, e)}

\* It serves listeners of one origin after the other, so at most one entry is
\* left with some but not all of its listeners served.
ServesInTurn(st, e, T) ==
  /\ ServesUntilFull(st, e, WaitingFor(st, e), T)
  /\ \A x, y \in Candidates(st, e) :
       /\ st.listeners[x] \cap T \notin {{}, st.listeners[x]}
       /\ st.listeners[y] \cap T \notin {{}, st.listeners[y]}
       => x = y

Emptied_Mutant(st, e, T) == {x \in Candidates(st, e) : st.phase[x] = "queued"}

\* An entry left without listeners is deleted unless its function already ran.
Emptied(st, e, T) ==
  {x \in Candidates(st, e) : st.phase[x] = "queued" /\ st.listeners[x] \subseteq T}

ProcessListeners(st, e, T) ==
  LET C == Candidates(st, e)
      dropped == Emptied(st, e, T)
      served == [Serve(st, e, T) EXCEPT !.listeners = [x \in Entries |->
                   IF x \in C THEN st.listeners[x] \ T ELSE st.listeners[x]]]
  IN Forget(Unqueue(served, st.options[e], dropped), dropped, "none")

------------------------------------------------------------------------------
(* Covered sessions.                                                        *)

Covers(st, session, covered) ==
  /\ st.originSet[covered] # {}
  /\ st.originSet[covered] \subseteq st.originSet[session]
  /\ st.originSet[covered] # st.originSet[session]
  /\ st.currentStreamCount[covered] + st.currentStreamCount[session]
       <= st.maxConcurrentStreams[session]

GracefullyClose_Mutant(st, S) == [st EXCEPT !.gracefullyClosing = @ \cup S]

GracefullyClose(st, S) ==
  Close([st EXCEPT !.gracefullyClosing = @ \cup S],
        {e \in S : st.currentStreamCount[e] = 0})

CloseCoveredSessions(st, e) ==
  GracefullyClose(st, {c \in Listed(st, st.options[e]) : Covers(st, e, c)})

IsCovered(st, e) == \E s \in Listed(st, st.options[e]) : Covers(st, s, e)

CloseSessionIfCovered(st, e) == IF IsCovered(st, e) THEN GracefullyClose(st, {e}) ELSE st

------------------------------------------------------------------------------
(* Empty sessions and the start of queued entries.                          *)

Empties(st, p) == {e \in Listed(st, p) : st.currentStreamCount[e] = 0}

TooManyEmpty_Mutant(st) == st.emptySessionCount > MaxEmptySessions + 1

TooManyEmpty(st) == st.emptySessionCount > MaxEmptySessions

AllEmpties(st) == UNION {Empties(st, p) : p \in Options}

\* The scan closes at least one empty session and stops at the maxCount-th, list
\* by list (in an order the model leaves open) and from the front of each list.
ScannedFirst(st, C) ==
  /\ \A p \in Options : \A i, j \in 1..Len(st.sessions[p]) :
       i < j /\ st.sessions[p][i] \in Empties(st, p) /\ st.sessions[p][j] \in C
         => st.sessions[p][i] \in C
  /\ \A p, q \in Options :
       /\ Empties(st, p) \cap C \notin {{}, Empties(st, p)}
       /\ Empties(st, q) \cap C \notin {{}, Empties(st, q)}
       => p = q

CloseEmptySessions(st, maxCount) ==
  LET least == IF maxCount < 1 THEN 1 ELSE maxCount
      all == Cardinality(AllEmpties(st))
      n == IF all < least THEN all ELSE least
  IN {Close(st, C) : C \in {D \in SUBSET AllEmpties(st) : Cardinality(D) = n /\ ScannedFirst(st, D)}}

StartEntries_Mutant(st) ==
  LET starting == UNION {InQueue(st, p) : p \in Options}
  IN [st EXCEPT
        !.phase = [e \in Entries |-> IF e \in starting THEN "connecting" ELSE st.phase[e]],
        !.sessionCount = @ + Cardinality(starting)]

\* item(): the entry function up to its first await.
StartEntries(st) ==
  LET starting == {e \in UNION {InQueue(st, p) : p \in Options} : st.phase[e] = "queued"}
  IN [st EXCEPT
        !.phase = [e \in Entries |-> IF e \in starting THEN "connecting" ELSE st.phase[e]],
        !.sessionCount = @ + Cardinality(starting)]

ProcessQueue_OffByOne(st) ==
  IF st.sessionCount + 1 >= MaxSessions
  THEN CloseEmptySessions(st, MaxSessions - st.sessionCount + 1)
  ELSE {StartEntries(st)}

ProcessQueue_KeepsEmpties(st) ==
  IF st.sessionCount >= MaxSessions THEN {st} ELSE {StartEntries(st)}

\* maxSessions is compared once, before the loop that starts the entries.
ProcessQueue(st) ==
  IF st.sessionCount >= MaxSessions
  THEN CloseEmptySessions(st, MaxSessions - st.sessionCount + 1)
  ELSE {StartEntries(st)}

------------------------------------------------------------------------------
(* Choosing a session and queueing.                                         *)

Available_Mutant(st, e, o) ==
  IsFree(st, e) /\ e \notin st.gracefullyClosing /\ st.life[e] # "destroyed"

\* `closed' is not looked at.
Available(st, e, o) ==
  /\ o \in st.originSet[e]
  /\ IsFree(st, e)
  /\ e \notin st.gracefullyClosing
  /\ st.life[e] # "destroyed"

AvailableAt(st, o, p) == {i \in 1..Len(st.sessions[p]) : Available(st, st.sessions[p][i], o)}

PickedAt_Mutant(st, o, p, i) ==
  LET found == AvailableAt(st, o, p)
      streams(j) == st.currentStreamCount[st.sessions[p][j]]
  IN i \in found /\ \A j \in found : streams(j) > streams(i) \/ (streams(j) = streams(i) /\ i <= j)

\* The scan remembers the capacity of the first session available, stops at a
\* smaller one, and takes the first of those with the biggest stream count.
PickedAt(st, o, p, i) ==
  LET list == st.sessions[p]
      found == AvailableAt(st, o, p)
      streams(j) == st.currentStreamCount[list[j]]
      scanned(j) == \E first \in found :
        /\ \A f \in found : first <= f
        /\ \A k \in first..j :
             st.maxConcurrentStreams[list[k]] >= st.maxConcurrentStreams[list[first]]
  IN /\ i \in found /\ scanned(i)
     /\ \A j \in found : scanned(j) =>
          streams(j) < streams(i) \/ (streams(j) = streams(i) /\ i <= j)

Fresh(st) == {e \in Entries : st.phase[e] = "none"}

Join_Mutant(st, e, T) == [st EXCEPT !.listeners[e] = T]

Join(st, e, T) == [st EXCEPT !.listeners[e] = @ \cup T]

\* Joins the entry queued for the key, or queues a new one and runs the queue.
\* Entries bounds the entries there can be: without a fresh one nothing is left.
Enqueue(st, o, p, T) ==
  LET joined == st.queue[p][o]
      waiting == [st EXCEPT !.status = [l \in Listeners |->
                              IF l \in T /\ st.status[l] = "idle" THEN "waiting" ELSE st.status[l]]]
  IN IF joined # None
     THEN {Join(waiting, joined, T)}
     ELSE UNION {ProcessQueue([waiting EXCEPT
                   !.queue[p][o] = e, !.kLength[p] = @ + 1, !.origin[e] = o, !.options[e] = p,
                   !.listeners[e] = T, !.phase[e] = "queued"])
                 : e \in {f \in Fresh(st) : \A g \in Fresh(st) : f <= g}}

------------------------------------------------------------------------------
(* Calls of the agent's users.                                              *)

\* getSession(origin, options, listeners) with the one listener of the caller.
GetSession(l, o, p) ==
  /\ relay = None
  /\ status[l] = "idle" /\ asked[l] = <<p, o>>
  /\ IF AvailableAt(Now, o, p) # {}
     THEN \E i \in AvailableAt(Now, o, p) :
            PickedAt(Now, o, p, i) /\ Become(Serve(Now, sessions[p][i], {l}))
     ELSE BecomeOneOf(Enqueue(Now, o, p, {l}))

\* The servername given with the call differs from the hostname.
RejectServername(l) ==
  /\ relay = None
  /\ "badServername" \in Environment
  /\ status[l] = "idle"
  /\ Become([Now EXCEPT !.status[l] = "rejected"])

\* A caller of getSession() uses its session: the agent cannot refuse overload.
UserRequest(l) ==
  /\ relay = None
  /\ status[l] = "holding"
  /\ LET e == given[l]
     IN IF Accepting(Now, e)
        THEN Become([OpenStreams(Now, e, 1) EXCEPT !.status[l] = "streaming"])
        ELSE Become([Now EXCEPT !.status[l] = "refused"])

CloseEmpty ==
  /\ relay = None
  /\ "closeEmpty" \in Environment
  /\ \E n \in 1..Cardinality(Entries) : BecomeOneOf(CloseEmptySessions(Now, n))

AgentDestroy ==
  /\ relay = None
  /\ "agentDestroy" \in Environment
  /\ Become([Destroy(Now, UNION {Listed(Now, p) : p \in Options}) EXCEPT
               !.destroyed = @ \cup UNION {InQueue(Now, p) : p \in Options},
               !.queue = [p \in Options |-> [o \in Origins |-> None]],
               !.kLength = [p \in Options |-> 0]])

------------------------------------------------------------------------------
(* The entry function after its first await.                                *)

Connected(e) ==
  /\ relay = None
  /\ phase[e] = "connecting"
  /\ Become([Now EXCEPT !.phase[e] = "connected"])

\* createConnection() or http2.connect() failed: the catch block.
ConnectFailed(e) ==
  /\ relay = None
  /\ "connectError" \in Environment
  /\ phase[e] = "connecting"
  /\ LET st == Reject(RemoveFromQueue(Now, e), listeners[e])
     IN Become(Forget([st EXCEPT !.sessionCount = @ - 1], {e}, "closed"))

\* The agent was destroyed, or the server is not the requested one.
FirstSettingsRefused(e) ==
  /\ relay = None
  /\ phase[e] = "connected" /\ life[e] = "open"
  /\ e \in destroyed \/ "mismatch" \in Environment
  /\ Become(Destroy(Reject(Now, listeners[e]), {e}))

\* getSortedIndex(sessions, session, compareSessions): how many sessions of the
\* list, sorted or not, may stand before a session of capacity n.
SortedIndexes(st, p, n) ==
  LET limit(i) == st.maxConcurrentStreams[st.sessions[p][i]]
  IN {i \in 0..Len(st.sessions[p]) :
        /\ i > 0 => limit(i) > n
        /\ i < Len(st.sessions[p]) => limit(i + 1) <= n}

\* What the first `remoteSettings' handler does once _accept() has returned.
AfterAccept(st, e) ==
  IF st.currentStreamCount[e] = 0 /\ TooManyEmpty(st)
  THEN CloseEmptySessions(st, st.emptySessionCount - MaxEmptySessions)
  ELSE {st}

FirstOriginSet_Mutant(e, plain) == IF plain THEN {None} ELSE {origin[e]}

\* getOriginSet() || []: without TLS there is no origin set.
FirstOriginSet(e, plain) == IF plain THEN {} ELSE {origin[e]}

\* The session of e enters the list of its options, behind i others.
EnterPool(st, e, i, n, origins) ==
  [st EXCEPT !.sessions[st.options[e]] = InsertAt(@, i + 1, e),
             !.maxConcurrentStreams[e] = n,
             !.originSet[e] = origins,
             !.phase[e] = "ready",
             !.emptySessionCount = @ + 1]

\* _accept() leaves the listeners the session has no room for to Relay.
FirstSettings(e, n, plain) ==
  /\ relay = None
  /\ phase[e] = "connected" /\ life[e] = "open" /\ e \notin destroyed
  /\ \E i \in SortedIndexes(Now, options[e], n), T \in SUBSET listeners[e] :
       LET st == EnterPool(RemoveFromQueue(Now, e), e, i, n, FirstOriginSet(e, plain))
           accepted == Accept(st, e, e, T)
       IN /\ ServesUntilFull(st, e, listeners[e], T)
          /\ IF T = listeners[e]
             THEN BecomeOneOf(AfterAccept(accepted, e))
             ELSE Fresh(Now) # {} /\ Become([accepted EXCEPT !.relay = e])

\* The getSession() call _accept() makes for its leftover listeners, which may
\* itself leave some to a further one.  Nothing runs in between.
Relay(e) ==
  /\ relay = e
  /\ LET o == origin[e]
         p == options[e]
     IN IF AvailableAt(Now, o, p) # {}
        THEN \E i \in AvailableAt(Now, o, p), T \in SUBSET listeners[e] :
               LET s == sessions[p][i]
                   accepted == Accept(Now, s, e, T)
               IN /\ PickedAt(Now, o, p, i)
                  /\ ServesUntilFull(Now, s, listeners[e], T)
                  /\ IF T = listeners[e]
                     THEN BecomeOneOf(AfterAccept([accepted EXCEPT !.relay = None], e))
                     ELSE Become(accepted)
        ELSE \E st \in Enqueue([Now EXCEPT !.listeners[e] = {}, !.relay = None], o, p, listeners[e]) :
               BecomeOneOf(AfterAccept(st, e))

------------------------------------------------------------------------------
(* Events of a session and of its streams.                                  *)

\* A later SETTINGS frame changes the capacity: the list is not sorted again.
SettingsUpdate(e, n) ==
  /\ relay = None
  /\ "settings" \in Environment
  /\ phase[e] = "ready" /\ life[e] # "destroyed"
  /\ LET st == [Now EXCEPT !.maxConcurrentStreams[e] = n]
     IN IF ~IsFree(st, e) THEN Become(st)
        ELSE \E T \in SUBSET WaitingFor(st, e) :
               LET served == ProcessListeners(st, e, T)
               IN /\ ServesInTurn(st, e, T)
                  /\ Become(IF IsFree(served, e) THEN CloseCoveredSessions(served, e) ELSE served)

OriginFrame(e, frame) ==
  /\ relay = None
  /\ "origin" \in Environment
  /\ phase[e] = "ready" /\ life[e] # "destroyed" /\ originSet[e] # {}
  /\ LET st == CloseSessionIfCovered([Now EXCEPT !.originSet[e] = @ \cup frame,
                                                 !.gracefullyClosing = @ \ {e}], e)
     IN IF e \in st.gracefullyClosing \/ ~IsFree(st, e) THEN Become(st)
        ELSE \E T \in SUBSET WaitingFor(st, e) :
               LET served == ProcessListeners(st, e, T)
               IN /\ ServesInTurn(st, e, T)
                  /\ Become(IF IsFree(served, e) THEN CloseCoveredSessions(served, e) ELSE served)

\* The `close' event of the stream opened for l.
StreamClose(l) ==
  /\ relay = None
  /\ status[l] \in {"streaming", "orphan"}
  /\ LET e == given[l]
         last == currentStreamCount[e] = 1
         st == [Now EXCEPT !.status[l] = "done", !.given[l] = None,
                           !.currentStreamCount[e] = @ - 1,
                           !.emptySessionCount = IF last THEN @ + 1 ELSE @]
         closing == last /\ (TooManyEmpty(st) \/ e \in gracefullyClosing)
         usable == ~closing /\ life[e] = "open" /\ IsFree(st, e)
     IN \/ closing /\ Become(Close(st, {e}))
        \/ ~closing /\ ~usable /\ Become(st)
        \/ usable /\ IsCovered(st, e) /\ Become(CloseSessionIfCovered(st, e))
        \/ /\ usable /\ ~IsCovered(st, e)
           /\ \E T \in SUBSET WaitingFor(st, e) :
                LET covering == CloseCoveredSessions(st, e)
                    served == ProcessListeners(covering, e, T)
                IN /\ ServesInTurn(covering, e, T)
                   /\ BecomeOneOf(IF served.currentStreamCount[e] = 0
                                  THEN ProcessQueue(served) ELSE {served})

\* session.close() by a user, or a GOAWAY frame without error.
SessionClose(e) ==
  /\ relay = None
  /\ "close" \in Environment
  /\ phase[e] = "ready" /\ life[e] = "open"
  /\ Become(Close(Now, {e}))

\* A connection error, the agent's timeout, or session.destroy() by a user.
SessionLost(e) ==
  /\ relay = None
  /\ "lost" \in Environment
  /\ phase[e] \in {"connected", "ready"} /\ life[e] # "destroyed"
  /\ Become(Destroy(Now, {e}))

\* Node destroys a closed session some time after its last stream closed.
SessionDrained(e) ==
  /\ relay = None
  /\ life[e] = "closed" /\ currentStreamCount[e] = 0
  /\ Become(Destroy(Now, {e}))

\* The `error' and `close' events of a session, after those of its streams.
SessionClosed(e) ==
  /\ relay = None
  /\ phase[e] \in {"connected", "ready"} /\ life[e] = "destroyed" /\ currentStreamCount[e] = 0
  /\ LET p == options[e]
         st == [Now EXCEPT !.sessionCount = @ - 1]
     IN IF phase[e] = "ready"
        THEN \E i \in 1..Len(sessions[p]) :
               LET left == [st EXCEPT !.emptySessionCount = @ - 1, !.sessions[p] = RemoveAt(@, i)]
               IN sessions[p][i] = e /\ BecomeOneOf(ProcessQueue(Forget(left, {e}, "closed")))
        ELSE LET left == Reject(RemoveFromQueue(st, e), listeners[e])
             IN BecomeOneOf(ProcessQueue(Forget(left, {e}, "closed")))

------------------------------------------------------------------------------
Init ==
  /\ queue = [p \in Options |-> [o \in Origins |-> None]]
  /\ kLength = [p \in Options |-> 0]
  /\ sessions = [p \in Options |-> <<>>]
  /\ sessionCount = 0 /\ emptySessionCount = 0 /\ relay = None
  /\ origin = [e \in Entries |-> None] /\ options = [e \in Entries |-> None]
  /\ listeners = [e \in Entries |-> {}]
  /\ phase = [e \in Entries |-> "none"] /\ destroyed = {}
  /\ life = [e \in Entries |-> "open"] /\ gracefullyClosing = {}
  /\ maxConcurrentStreams = [e \in Entries |-> 0]
  /\ originSet = [e \in Entries |-> {}]
  /\ currentStreamCount = [e \in Entries |-> 0]
  /\ asked \in Calls
  /\ status = [l \in Listeners |-> "idle"] /\ given = [l \in Listeners |-> None]

\* Every step but a call that looks for a session.
OtherStep ==
  \/ \E l \in Listeners : RejectServername(l) \/ UserRequest(l) \/ StreamClose(l)
  \/ CloseEmpty \/ AgentDestroy
  \/ \E e \in Entries : Connected(e) \/ ConnectFailed(e) \/ FirstSettingsRefused(e)
  \/ \E e \in Entries, n \in Limits : FirstSettings(e, n, FALSE)
  \/ "plain" \in Environment /\ \E e \in Entries, n \in Limits : FirstSettings(e, n, TRUE)
  \/ \E e \in Entries : Relay(e)
  \/ \E e \in Entries, n \in Limits : SettingsUpdate(e, n)
  \/ \E e \in Entries, frame \in OriginFrames : OriginFrame(e, frame)
  \/ \E e \in Entries : SessionClose(e) \/ SessionLost(e) \/ SessionDrained(e) \/ SessionClosed(e)

Next ==
  \/ \E l \in Listeners, o \in Origins, p \in Options : GetSession(l, o, p)
  \/ OtherStep

Spec == Init /\ [][Next]_vars

\* What the environment owes the agent: connection attempts end, a connected
\* server sends SETTINGS, streams end, and Node delivers the events of what was
\* closed.  Relay is the rest of a handler already running.  Each conjunct is
\* WF_vars of the action it ends with, ENABLED written out: `Entries' must be
\* large enough never to keep FirstSettings from moving leftover listeners.
Fairness ==
  /\ \A e \in Entries :
       /\ []<>(phase[e] # "connecting" \/ relay # None)
            \/ []<><<Connected(e) \/ ConnectFailed(e)>>_vars
       /\ []<>(phase[e] # "connected" \/ life[e] # "open" \/ relay # None)
            \/ []<><<FirstSettingsRefused(e) \/ \E n \in Limits : FirstSettings(e, n, FALSE)>>_vars
       /\ []<>(relay # e) \/ []<><<Relay(e)>>_vars
       /\ []<>(life[e] # "closed" \/ currentStreamCount[e] # 0 \/ relay # None)
            \/ []<><<SessionDrained(e)>>_vars
       /\ []<>(life[e] # "destroyed" \/ phase[e] \notin {"connected", "ready"}
               \/ currentStreamCount[e] # 0 \/ relay # None)
            \/ []<><<SessionClosed(e)>>_vars
  /\ \A l \in Listeners :
       []<>(status[l] \notin {"streaming", "orphan"} \/ relay # None)
         \/ []<><<StreamClose(l)>>_vars

FairSpec == Spec /\ Fairness

------------------------------------------------------------------------------
(* Properties.                                                              *)

StateType ==
  [queue : [Options -> [Origins -> Entries \cup {None}]], kLength : [Options -> Int],
   sessions : [Options -> Seq(Entries)], sessionCount : Int, emptySessionCount : Int,
   relay : Entries \cup {None}, origin : [Entries -> Origins \cup {None}],
   options : [Entries -> Options \cup {None}], listeners : [Entries -> SUBSET Listeners],
   phase : [Entries -> Phases], destroyed : SUBSET Entries,
   life : [Entries -> {"open", "closed", "destroyed"}], gracefullyClosing : SUBSET Entries,
   maxConcurrentStreams : [Entries -> Nat], originSet : [Entries -> SUBSET Origins],
   currentStreamCount : [Entries -> Int], status : [Listeners -> Statuses],
   given : [Listeners -> Entries \cup {None}]]

\* Every variable has its type, and an entry in use has its key.
TypeOK ==
  /\ Now \in StateType /\ asked \in [Listeners -> (Options \X Origins) \cup {None}]
  /\ \A e \in Entries : phase[e] \notin {"none", "closed"} => origin[e] # None /\ options[e] # None

\* The agent's counters are running totals kept by ++ and -- in seven places;
\* they always equal what they count: entries that run, sessions in the pool
\* without a stream, streams of each session, entries of each queue map.
CountersExact ==
  /\ sessionCount = Cardinality({e \in Entries : phase[e] \in {"connecting", "connected", "ready"}})
  /\ emptySessionCount = Cardinality(AllEmpties(Now))
  /\ \A e \in Entries : currentStreamCount[e] =
       Cardinality({l \in Listeners : given[l] = e /\ status[l] \in {"streaming", "orphan"}})
  /\ \A p \in Options : kLength[p] = Cardinality(InQueue(Now, p))

\* The queue maps a key to an entry of that key that can still serve it, an
\* entry that has not run has someone waiting for it, and it cannot be lost: it
\* stays in the queue until it runs, is emptied or the agent is destroyed.
QueueConsistent ==
  /\ \A p \in Options, o \in Origins : queue[p][o] # None =>
       /\ origin[queue[p][o]] = o /\ options[queue[p][o]] = p
       /\ phase[queue[p][o]] \in {"queued", "connecting", "connected"}
       /\ queue[p][o] \notin destroyed
  /\ \A e \in Entries : phase[e] = "queued" =>
       /\ listeners[e] # {}
       /\ e \in destroyed \/ queue[options[e]][origin[e]] = e

\* The pool lists every session that received SETTINGS, once, under its options,
\* until its `close' event.
PoolConsistent ==
  /\ \A e \in Entries : phase[e] = "ready" <=> \E p \in Options : e \in Listed(Now, p)
  /\ \A p \in Options : \A i, j \in 1..Len(sessions[p]) :
       /\ options[sessions[p][i]] = p
       /\ sessions[p][i] = sessions[p][j] => i = j

\* Queue and pool agree with what the entries themselves say.
KeysConsistent == QueueConsistent /\ PoolConsistent

\* Entry e is in the queue, where the queue runs it and other sessions find its
\* listeners, or it has run and its session, or the want of one, settles them.
Attending(e) ==
  \/ phase[e] = "queued" /\ queue[options[e]][origin[e]] = e
  \/ phase[e] \in {"connecting", "connected"}

\* agent.destroy() took e out of the queue before it ran: nothing will run it.
Abandoned(e) == phase[e] = "queued" /\ e \in destroyed

\* A caller that waits is in the listeners of exactly one entry, and the agent
\* still attends to that one: moving the leftovers of _accept() or emptying and
\* replacing queue entries loses and doubles nobody.  The exception are the
\* callers of entries agent.destroy() abandoned, which DestroyAnswersCallers is about.
WaitersAccounted ==
  \A l \in Listeners :
    /\ status[l] = "waiting" => \E e \in Entries :
         l \in listeners[e] /\ (relay = e \/ Attending(e) \/ Abandoned(e))
    /\ Cardinality({e \in Entries : l \in listeners[e]}) <= 1

\* request() never pushes a session over its limit of concurrent streams: not
\* when several listeners are served in a row, nor when another session's
\* handler moves listeners.  ("Prevents session overloading", agent.js:492.)
NoOverload ==
  [][\A l \in Requests : status'[l] \in {"streaming", "orphan"} /\ status[l] # status'[l] =>
       currentStreamCount'[given'[l]] <= maxConcurrentStreams'[given'[l]]]_vars

\* A gracefully closing session without streams is closed by the handler that
\* made it so: whichever comes last, the covering or the end of its streams.
GracefulSessionsClose ==
  \A e \in gracefullyClosing : currentStreamCount[e] = 0 => life[e] # "open"

\* No lost wakeup: nobody waits in the queue for an origin while a session of the
\* same options that is authoritative for it accepts streams.
NoMissedWakeup ==
  relay = None =>
    \A p \in Options, o \in Origins : queue[p][o] # None =>
      \A l \in listeners[queue[p][o]], e \in Listed(Now, p) :
        ~(status[l] = "waiting" /\ o \in originSet[e] /\ IsFree(Now, e) /\ Accepting(Now, e))

\* Nor does an entry wait to run while the agent may create another session.
NoIdleCapacity ==
  relay = None /\ (\E e \in Entries : phase[e] = "queued" /\ e \notin destroyed)
    => sessionCount >= MaxSessions

\* Open sessions without streams never outnumber maxEmptySessions once a
\* handler is done, whatever order sessions become empty and close in.
MaxEmptyRespected ==
  relay = None =>
    Cardinality({e \in AllEmpties(Now) : life[e] = "open"}) <= MaxEmptySessions

\* getSession() gives the session of the highest capacity, and among those the
\* one with most streams ("uses sessions which are more loaded to use fewer connections").
PicksBest ==
  [][\A l \in Listeners, o \in Origins, p \in Options :
       GetSession(l, o, p) /\ given'[l] # None =>
         \A i \in AvailableAt(Now, o, p) :
           LET e == sessions[p][i]
               best == given'[l]
           IN \/ maxConcurrentStreams[e] < maxConcurrentStreams[best]
              \/ /\ maxConcurrentStreams[e] = maxConcurrentStreams[best]
                 /\ currentStreamCount[e] <= currentStreamCount[best]]_vars

\* Every caller is answered in the end.
CallersAnswered == \A l \in Listeners : status[l] = "waiting" ~> status[l] # "waiting"

\* A session told to close gracefully does close, unless an ORIGIN frame lifts that.
GracefulSessionsEnd ==
  \A e \in Entries : e \in gracefullyClosing ~> e \notin gracefullyClosing
------------------------------------------------------------------------------
(* What the documentation, the comments and the tests say, and the code does *)
(* not do: each of these is refuted by a run.                                *)

\* "The maximum amount of sessions in total." (README.md:251)
MaxSessionsRespected == sessionCount <= MaxSessions

\* "`agent.destroy()` makes pending sessions throw" (test/agent.js:1440)
DestroyAnswersCallers ==
  \A e \in destroyed : phase[e] = "queued" => \A l \in listeners[e] : status[l] # "waiting"
=============================================================================
