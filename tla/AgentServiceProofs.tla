-------------------------- MODULE AgentServiceProofs --------------------------
(***************************************************************************)
(* Theorems about what the session pool does for its callers: entries wait *)
(* only at the session limit, few empty sessions are kept, nobody waits    *)
(* beside a session that could serve, and no session is overloaded.        *)
(*                                                                         *)
(* Each action is a chain of helpers.  The lemmas say what a kind of       *)
(* helper does, ending sessions, answering callers, queueing them, and the *)
(* actions put them together.                                              *)
(***************************************************************************)
EXTENDS AgentService, AgentAccountProofs

------------------------------------------------------------------------------
(* The inductive invariant.                                                 *)

Usable(st, e) == Accepting(st, e) /\ IsFree(st, e)

\* Entries waiting to run that still may.
Unstarted(st) == {e \in Entries : st.phase[e] = "queued" /\ e \notin st.destroyed}

\* A connection that fails frees its place without a look at the queue.
AtLimit(st) ==
  "connectError" \notin Environment /\ Unstarted(st) # {} => st.sessionCount >= MaxSessions

Vacant(st) == {e \in Unused(st) : st.life[e] = "open"}

\* The session r is still serving its own listeners.
FewVacant(st, r) == Cardinality(Vacant(st) \ {r}) <= MaxEmptySessions

\* Nobody waits beside a usable session, but for b, whose handler has yet to serve.
Awake(st, b) ==
  \A p \in Options, o \in Origins : st.queue[p][o] # None =>
    \A l \in st.listeners[st.queue[p][o]], s \in Listed(st, p) :
      st.status[l] = "waiting" /\ s # b /\ o \in st.originSet[s] => ~Usable(st, s)

\* A list stays sorted by capacity as long as no capacity changes.
Ordered(st) ==
  "settings" \notin Environment =>
    \A p \in Options : \A i, j \in 1..Len(st.sessions[p]) : i < j =>
      st.maxConcurrentStreams[st.sessions[p][i]] >= st.maxConcurrentStreams[st.sessions[p][j]]

Decided(st) ==
  \A l \in Listeners : /\ st.status[l] = "holding" => l \notin Requests
                       /\ st.status[l] = "idle" => st.given[l] = None

Calm(st, r, b) == FewVacant(st, r) /\ Awake(st, b) /\ Ordered(st) /\ Decided(st)

Fit(st, r, b) == AtLimit(st) /\ Calm(st, r, b)

SInv == AInv /\ Fit(Now, relay, None)

------------------------------------------------------------------------------
(* Ending sessions.                                                         *)

LEMMA CountSubset ==
  ASSUME NEW S, NEW T, S \subseteq T, T \subseteq Entries
  PROVE  Cardinality(S) <= Cardinality(T) /\ Cardinality(S) \in Nat /\ Cardinality(T) \in Nat
  BY EntriesFinite, FS_Subset

\* Sessions end; nothing else happens.
Shuts(st, t) ==
  /\ SameAccounts(st, t) /\ SameCapacity(st, t) /\ t.relay = st.relay
  /\ st.gracefullyClosing \subseteq t.gracefullyClosing
  /\ \A e \in Entries : t.life[e] = "open" => st.life[e] = "open"

Spares(st, t, e) == Accepting(st, e) => Accepting(t, e)

LEMMA ShutsFit ==
  ASSUME NEW st \in StateType, NEW t, Shuts(st, t), NEW r, NEW b
  PROVE  /\ Calm(st, r, b) => Calm(t, r, b)
         /\ AtLimit(st) => AtLimit(t)
<1>1. Vacant(t) \subseteq Vacant(st) /\ Vacant(st) \subseteq Entries
  BY DEF Shuts, SameAccounts, SameKeys, SameStreams, Vacant, Unused
<1>2. FewVacant(st, r) => FewVacant(t, r)
  <2>1. /\ Cardinality(Vacant(t) \ {r}) <= Cardinality(Vacant(st) \ {r})
        /\ Cardinality(Vacant(t) \ {r}) \in Nat /\ Cardinality(Vacant(st) \ {r}) \in Nat
    <3>1. Vacant(t) \ {r} \subseteq Vacant(st) \ {r} /\ Vacant(st) \ {r} \subseteq Entries
      BY <1>1
    <3>. QED
      BY <3>1, CountSubset
  <2>. QED
    BY <2>1, BoundsAssumption DEF FewVacant
<1>3. \A s \in Entries : Usable(t, s) => Usable(st, s)
  BY DEF Shuts, SameAccounts, SameStreams, SameCapacity, Usable, Accepting, IsFree
<1>4. Awake(st, b) => Awake(t, b)
  <2>1. /\ t.queue = st.queue /\ t.listeners = st.listeners /\ t.status = st.status
        /\ t.originSet = st.originSet /\ \A p \in Options : Listed(t, p) = Listed(st, p)
    BY DEF Shuts, SameAccounts, SameFiles, SamePool, SameCallers, SameCapacity, Listed
  <2>2. \A p \in Options : Listed(st, p) \subseteq Entries
    BY ListedEntries
  <2>. QED
    BY <1>3, <2>1, <2>2 DEF Awake
<1>5. Ordered(st) => Ordered(t)
  BY DEF Shuts, SameAccounts, SamePool, SameCapacity, Ordered
<1>6. Decided(st) => Decided(t)
  BY DEF Shuts, SameAccounts, SameCallers, Decided
<1>7. AtLimit(st) => AtLimit(t)
  BY DEF Shuts, SameAccounts, SamePool, SameKeys, AtLimit, Unstarted
<1>. QED
  BY <1>2, <1>4, <1>5, <1>6, <1>7 DEF Calm

LEMMA ShutsAgain ==
  ASSUME NEW st, NEW t, NEW u, Shuts(st, t), Shuts(t, u)
  PROVE  Shuts(st, u)
  BY SameAccountsTransitive DEF Shuts, SameCapacity

LEMMA CloseShuts ==
  ASSUME NEW st \in StateType, NEW S
  PROVE  Shuts(st, Close(st, S)) /\ \A e \in Entries \ S : Spares(st, Close(st, S), e)
<1>1. \A e \in Entries : /\ Close(st, S).life[e] = "open" => st.life[e] = "open"
                         /\ e \notin S => Close(st, S).life[e] = st.life[e]
  BY DEF Close, StateType
<1>2. Close(st, S).gracefullyClosing = st.gracefullyClosing
  BY DEF Close, StateType
<1>. QED
  BY <1>1, <1>2, CloseSame DEF Shuts, Spares, Accepting

LEMMA DestroyShuts ==
  ASSUME NEW st \in StateType, NEW S
  PROVE  Shuts(st, Destroy(st, S))
<1>1. \A e \in Entries : Destroy(st, S).life[e] = "open" => st.life[e] = "open"
  BY DEF Destroy, StateType
<1>2. Destroy(st, S).gracefullyClosing = st.gracefullyClosing
  BY DEF Destroy, StateType
<1>. QED
  BY <1>1, <1>2, DestroySame DEF Shuts

LEMMA GracefullyCloseShuts ==
  ASSUME NEW st \in StateType, NEW S, S \subseteq Entries
  PROVE  LET t == GracefullyClose(st, S)
         IN  Shuts(st, t) /\ \A e \in Entries \ S : Spares(st, t, e)
<1>. DEFINE G == st.gracefullyClosing \cup S
            C == {e \in S : st.currentStreamCount[e] = 0}
            u == [st EXCEPT !.gracefullyClosing = G]
            t == Close(u, C)
<1>1. t = GracefullyClose(st, S)
  BY DEF GracefullyClose
<1>2. G \subseteq Entries
  BY DEF StateType
<1>3. u \in StateType /\ u.gracefullyClosing = G /\ u.life = st.life
      /\ SameAccounts(st, u) /\ SameCapacity(st, u) /\ u.relay = st.relay
  <2>. HIDE DEF G
  <2>. QED
    BY <1>2 DEF StateType, SameAccounts, SameFiles, SameKeys, SamePool, SameStreams,
       SameCallers, SameCapacity
<1>4. Shuts(st, u)
  BY <1>3 DEF Shuts
<1>. HIDE DEF u
<1>5. Shuts(u, t) /\ \A e \in Entries \ C : Spares(u, t, e)
  BY <1>3, CloseShuts
<1>. HIDE DEF t
<1>6. Shuts(st, t)
  BY <1>4, <1>5, ShutsAgain
<1>7. \A e \in Entries \ S : Spares(st, t, e)
  BY <1>3, <1>5 DEF Spares, Accepting
<1>. QED
  BY <1>1, <1>6, <1>7

\* A session does not cover itself.
LEMMA CloseCoveredSessionsShuts ==
  ASSUME NEW st, Good(st), NEW e \in Entries, st.phase[e] = "ready"
  PROVE  LET t == CloseCoveredSessions(st, e) IN Shuts(st, t) /\ Spares(st, t, e)
<1>. DEFINE S == {c \in Listed(st, st.options[e]) : Covers(st, e, c)}
<1>1. S \subseteq Entries
  BY ReadyKeyed, ListedEntries DEF Good
<1>2. e \notin S
  BY DEF Covers
<1>. QED
  BY <1>1, <1>2, GracefullyCloseShuts DEF CloseCoveredSessions, Good

LEMMA CloseSessionIfCoveredShuts ==
  ASSUME NEW st, Good(st), NEW e \in Entries
  PROVE  LET t == CloseSessionIfCovered(st, e)
         IN  Shuts(st, t) /\ (IsCovered(st, e) => ~Accepting(t, e))
<1>1. CASE IsCovered(st, e)
  <2>1. Shuts(st, GracefullyClose(st, {e}))
    BY GracefullyCloseShuts DEF Good
  <2>2. e \in GracefullyClose(st, {e}).gracefullyClosing
    BY DEF GracefullyClose, Close, Good, StateType
  <2>. QED
    BY <1>1, <2>1, <2>2 DEF CloseSessionIfCovered, Accepting
<1>2. CASE ~IsCovered(st, e)
  BY <1>2 DEF CloseSessionIfCovered, Shuts, SameAccounts, SameFiles, SameKeys, SamePool,
              SameStreams, SameCallers, SameCapacity
<1>. QED
  BY <1>1, <1>2

\* Only sessions without streams are closed.
LEMMA CloseEmptySessionsShuts ==
  ASSUME NEW st \in StateType, NEW n, NEW t \in CloseEmptySessions(st, n)
  PROVE  /\ Shuts(st, t)
         /\ \A e \in Entries : st.currentStreamCount[e] # 0 => Spares(st, t, e)
<1>1. PICK C \in SUBSET AllEmpties(st) : t = Close(st, C)
  BY DEF CloseEmptySessions
<1>2. \A e \in C : st.currentStreamCount[e] = 0
  BY DEF AllEmpties, Empties
<1>. QED
  BY <1>1, <1>2, CloseShuts

LEMMA AfterAcceptShuts ==
  ASSUME NEW st \in StateType, NEW e, NEW t \in AfterAccept(st, e)
  PROVE  /\ Shuts(st, t)
         /\ \A x \in Entries : st.currentStreamCount[x] # 0 => Spares(st, t, x)
<1>1. CASE t = st
  BY <1>1 DEF Shuts, Spares, SameAccounts, SameFiles, SameKeys, SamePool, SameStreams,
              SameCallers, SameCapacity
<1>2. CASE t # st
  BY <1>2, CloseEmptySessionsShuts DEF AfterAccept
<1>. QED
  BY <1>1, <1>2

\* The empty sessions the scan finds are those the counter counts.
LEMMA AllEmptiesUnused ==
  ASSUME NEW st \in StateType, Listing(st)
  PROVE  AllEmpties(st) = Unused(st)
<1>1. \A p \in Options : Listed(st, p) \subseteq Entries
  BY ListedEntries
<1>. QED
  BY <1>1 DEF AllEmpties, Empties, Unused, Listing

\* A new session without streams counts, and as many are closed as are too many.
LEMMA AfterAcceptFewVacant ==
  ASSUME NEW st, Idle(st), NEW e \in Entries, FewVacant(st, e), NEW t \in AfterAccept(st, e)
  PROVE  FewVacant(t, None)
<1>1. /\ st \in StateType /\ st.emptySessionCount = Cardinality(Unused(st))
      /\ IsFiniteSet(Unused(st)) /\ st.emptySessionCount \in Nat /\ AllEmpties(st) = Unused(st)
  <2>1. IsFiniteSet(Unused(st)) /\ Cardinality(Unused(st)) \in Nat
    BY EntriesFinite DEF Unused
  <2>2. Listing(st) /\ UnusedCounted(st) /\ st \in StateType
    BY DEF Idle, Accounted, Good
  <2>. QED
    BY <2>1, <2>2, AllEmptiesUnused DEF UnusedCounted
<1>2. Vacant(st) \subseteq Unused(st) /\ Unused(st) \subseteq Entries
  BY DEF Vacant, Unused
<1>3. CASE st.currentStreamCount[e] # 0
  <2>1. t = st /\ e \notin Vacant(st)
    BY <1>3 DEF AfterAccept, Vacant, Unused
  <2>2. Vacant(st) \ {None} = Vacant(st) \ {e}
    BY <1>2, <2>1, NoneAssumption
  <2>. QED
    BY <2>1, <2>2 DEF FewVacant
<1>4. CASE ~TooManyEmpty(st)
  <2>1. t = st
    BY <1>4 DEF AfterAccept
  <2>2. Vacant(st) \ {None} \subseteq Unused(st)
    BY <1>2
  <2>3. /\ Cardinality(Vacant(st) \ {None}) <= st.emptySessionCount
        /\ Cardinality(Vacant(st) \ {None}) \in Nat
    BY <1>1, <1>2, <2>2, CountSubset
  <2>. QED
    BY <1>1, <1>4, <2>1, <2>3, BoundsAssumption DEF FewVacant, TooManyEmpty
<1>5. CASE st.currentStreamCount[e] = 0 /\ TooManyEmpty(st)
  <2>. DEFINE n == st.emptySessionCount - MaxEmptySessions
  <2>1. n \in Nat \ {0} /\ n <= st.emptySessionCount
    BY <1>1, <1>5, BoundsAssumption DEF TooManyEmpty
  <2>2. t \in CloseEmptySessions(st, n)
    BY <1>5 DEF AfterAccept
  <2>. HIDE DEF n
  <2>3. PICK C \in SUBSET Unused(st) : t = Close(st, C) /\ Cardinality(C) = n
    BY <1>1, <2>1, <2>2 DEF CloseEmptySessions
  <2>4. Vacant(t) \ {None} \subseteq Unused(st) \ C
    <3>1. SUFFICES ASSUME NEW x \in Entries, t.phase[x] = "ready", t.currentStreamCount[x] = 0,
                          t.life[x] = "open"
                   PROVE  x \in Unused(st) \ C
      BY DEF Vacant, Unused
    <3>2. st.phase[x] = "ready" /\ st.currentStreamCount[x] = 0
      BY <1>1, <2>3, <3>1, CloseShuts DEF Shuts, SameAccounts, SameKeys, SameStreams
    <3>3. t.life[x] = IF x \notin C \/ st.life[x] # "open" THEN st.life[x]
                      ELSE IF st.currentStreamCount[x] = 0 THEN "destroyed" ELSE "closed"
      BY <1>1, <2>3 DEF Close, StateType
    <3>. QED
      BY <3>1, <3>2, <3>3 DEF Unused
  <2>5. Cardinality(Unused(st) \ C) = st.emptySessionCount - n
    BY <1>1, <2>3, CountDifference
  <2>6. Cardinality(Vacant(t) \ {None}) <= Cardinality(Unused(st) \ C)
    BY <1>2, <2>4, CountSubset
  <2>7. st.emptySessionCount - n = MaxEmptySessions
    BY <1>1, BoundsAssumption DEF n
  <2>. QED
    BY <2>5, <2>6, <2>7 DEF FewVacant
<1>. QED
  BY <1>3, <1>4, <1>5

LEMMA AfterAcceptFit ==
  ASSUME NEW st, Idle(st), NEW e \in Entries, Fit(st, e, None), NEW t \in AfterAccept(st, e)
  PROVE  Fit(t, None, None)
<1>1. Shuts(st, t) /\ st \in StateType
  BY AfterAcceptShuts DEF Idle, Good
<1>2. Calm(t, e, None) /\ AtLimit(t)
  BY <1>1, ShutsFit DEF Fit
<1>3. FewVacant(t, None)
  BY AfterAcceptFewVacant DEF Fit, Calm
<1>. QED
  BY <1>2, <1>3 DEF Fit, Calm

\* The queue is run: below the session limit nothing that may start is left.
LEMMA ProcessQueueFit ==
  ASSUME NEW st, Good(st), NEW r, NEW T, Accounted(st, r, T), Attended(st), NEW b, NEW q,
         Calm(st, q, b), NEW t \in ProcessQueue(st)
  PROVE  Fit(t, q, b)
<1>1. st \in StateType /\ st.sessionCount \in Int
  BY DEF Good, StateType
<1>2. CASE st.sessionCount >= MaxSessions
  <2>1. Shuts(st, t)
    BY <1>1, <1>2, CloseEmptySessionsShuts DEF ProcessQueue
  <2>2. AtLimit(st)
    BY <1>2 DEF AtLimit
  <2>. QED
    BY <1>1, <2>1, <2>2, ShutsFit DEF Fit
<1>3. CASE ~(st.sessionCount >= MaxSessions)
  <2>1. Started(st, t)
    BY <1>1, <1>3, StartEntriesFields DEF ProcessQueue
  <2>2. AtLimit(t)
    BY <2>1, StartEntriesAccounted DEF AtLimit, Unstarted
  <2>3. /\ \A e \in Entries : t.phase[e] = "ready" <=> st.phase[e] = "ready"
        /\ t.queue = st.queue /\ t.listeners = st.listeners /\ t.status = st.status
        /\ t.given = st.given /\ t.life = st.life /\ t.sessions = st.sessions
        /\ t.gracefullyClosing = st.gracefullyClosing
        /\ t.originSet = st.originSet /\ t.maxConcurrentStreams = st.maxConcurrentStreams
        /\ t.currentStreamCount = st.currentStreamCount
    BY <2>1 DEF Started, Starting, SameFiles, SameStreams, SameCallers, SameCapacity
  <2>4. Vacant(t) = Vacant(st)
    BY <2>3 DEF Vacant, Unused
  <2>5. FewVacant(t, q) /\ Ordered(t) /\ Decided(t)
    BY <2>3, <2>4 DEF Calm, FewVacant, Ordered, Decided
  <2>6. Awake(t, b)
    BY <2>3 DEF Calm, Awake, Listed, Usable, Accepting, IsFree
  <2>. QED
    BY <2>2, <2>5, <2>6 DEF Fit, Calm
<1>. QED
  BY <1>2, <1>3

------------------------------------------------------------------------------
(* Steps that leave nobody new waiting and no session emptier.              *)

LEMMA BecomeFit ==
  ASSUME NEW t, Become(t), Fit(t, t.relay, None)
  PROVE  Fit(Now', relay', None)
<1>1. /\ Now'.queue = t.queue /\ Now'.sessions = t.sessions /\ Now'.sessionCount = t.sessionCount
      /\ Now'.listeners = t.listeners /\ Now'.phase = t.phase /\ Now'.destroyed = t.destroyed
      /\ Now'.life = t.life /\ Now'.gracefullyClosing = t.gracefullyClosing
      /\ Now'.maxConcurrentStreams = t.maxConcurrentStreams /\ Now'.originSet = t.originSet
      /\ Now'.currentStreamCount = t.currentStreamCount /\ Now'.status = t.status
      /\ Now'.given = t.given /\ relay' = t.relay
  BY DEF Become, Now
<1>. DEFINE now == Now'
<1>. HIDE DEF now
<1>2. Unstarted(now) = Unstarted(t) /\ Vacant(now) = Vacant(t)
  BY <1>1 DEF Unstarted, Vacant, Unused, now
<1>3. AtLimit(now) /\ FewVacant(now, t.relay) /\ Ordered(now) /\ Decided(now)
  BY <1>1, <1>2 DEF Fit, Calm, AtLimit, FewVacant, Ordered, Decided, now
<1>4. Awake(now, None)
  BY <1>1 DEF Fit, Calm, Awake, Listed, Usable, Accepting, IsFree, now
<1>. QED
  BY <1>1, <1>3, <1>4 DEF Fit, Calm, now

LEMMA BecomeOneOfFit ==
  ASSUME NEW S, \A t \in S : Fit(t, t.relay, None), BecomeOneOf(S)
  PROVE  Fit(Now', relay', None)
  BY BecomeFit DEF BecomeOneOf

Quiets(st, t) ==
  /\ Vacant(t) \subseteq Vacant(st)
  /\ \A p \in Options, o \in Origins : t.queue[p][o] \in {None, st.queue[p][o]}
  /\ \A x \in Entries : t.listeners[x] \subseteq st.listeners[x]
  /\ \A l \in Listeners : t.status[l] = "waiting" => st.status[l] = "waiting"
  /\ \A p \in Options : Listed(t, p) \subseteq Listed(st, p)
  /\ \A p \in Options : \A s \in Listed(t, p) :
       t.originSet[s] \subseteq st.originSet[s] /\ (Usable(t, s) => Usable(st, s))

Decides(st, t) ==
  \A l \in Listeners :
    /\ t.status[l] = "holding" => st.status[l] = "holding" \/ l \notin Requests
    /\ t.status[l] = "idle" => st.status[l] = "idle" /\ t.given[l] = st.given[l]

SameOrder(st, t) ==
  /\ t.sessions = st.sessions
  /\ \A p \in Options : \A s \in Listed(st, p) :
       t.maxConcurrentStreams[s] = st.maxConcurrentStreams[s]

LEMMA FewerVacant ==
  ASSUME NEW st, NEW t, Vacant(t) \subseteq Vacant(st), NEW r, FewVacant(st, r)
  PROVE  FewVacant(t, r)
<1>1. Vacant(t) \ {r} \subseteq Vacant(st) \ {r} /\ Vacant(st) \ {r} \subseteq Entries
  BY DEF Vacant, Unused
<1>2. /\ Cardinality(Vacant(t) \ {r}) <= Cardinality(Vacant(st) \ {r})
      /\ Cardinality(Vacant(t) \ {r}) \in Nat /\ Cardinality(Vacant(st) \ {r}) \in Nat
  BY <1>1, CountSubset
<1>. QED
  BY <1>2, BoundsAssumption DEF FewVacant

LEMMA SameOrderOrdered ==
  ASSUME NEW st \in StateType, NEW t, SameOrder(st, t), Ordered(st)
  PROVE  Ordered(t)
<1>1. SUFFICES ASSUME "settings" \notin Environment, NEW p \in Options,
                      NEW i \in 1..Len(st.sessions[p]), NEW j \in 1..Len(st.sessions[p]), i < j
               PROVE  t.maxConcurrentStreams[st.sessions[p][i]] >= t.maxConcurrentStreams[st.sessions[p][j]]
  BY DEF Ordered, SameOrder
<1>2. st.sessions[p] \in Seq(Entries)
  BY DEF StateType
<1>3. st.sessions[p][i] \in Listed(st, p) /\ st.sessions[p][j] \in Listed(st, p)
  BY <1>2, ListElements DEF Listed
<1>. QED
  BY <1>1, <1>3 DEF Ordered, SameOrder

LEMMA QuietsAwake ==
  ASSUME NEW st \in StateType, NEW t, Quiets(st, t), NEW b, Awake(st, b)
  PROVE  Awake(t, b)
<1>1. SUFFICES ASSUME NEW p \in Options, NEW o \in Origins, t.queue[p][o] # None,
                      NEW l \in t.listeners[t.queue[p][o]], NEW s \in Listed(t, p),
                      t.status[l] = "waiting", s # b, o \in t.originSet[s]
               PROVE  ~Usable(t, s)
  BY DEF Awake
<1>2. t.queue[p][o] = st.queue[p][o] /\ st.queue[p][o] \in Entries
  BY <1>1 DEF Quiets, StateType
<1>3. l \in st.listeners[st.queue[p][o]] /\ l \in Listeners
  BY <1>2 DEF Quiets, StateType
<1>4. st.status[l] = "waiting" /\ s \in Listed(st, p) /\ o \in st.originSet[s]
  BY <1>1, <1>3 DEF Quiets
<1>5. ~Usable(st, s)
  BY <1>1, <1>2, <1>3, <1>4 DEF Awake
<1>. QED
  BY <1>5 DEF Quiets

LEMMA QuietsCalm ==
  ASSUME NEW st \in StateType, NEW t, Quiets(st, t), Decides(st, t), SameOrder(st, t), NEW r, NEW b,
         Calm(st, r, b)
  PROVE  Calm(t, r, b)
<1>1. FewVacant(t, r)
  BY FewerVacant DEF Quiets, Calm
<1>2. Awake(t, b)
  BY QuietsAwake DEF Calm
<1>3. Ordered(t)
  BY SameOrderOrdered DEF Calm
<1>4. Decided(t)
  BY DEF Calm, Decided, Decides
<1>. QED
  BY <1>1, <1>2, <1>3, <1>4 DEF Calm

\* Once the session b cannot serve either, nobody is left out.
LEMMA AwakeAll ==
  ASSUME NEW st, NEW b, Awake(st, b), ~Usable(st, b)
  PROVE  Awake(st, None)
  BY DEF Awake

------------------------------------------------------------------------------
(* Answering callers.                                                       *)

LEMMA StreamCounts ==
  ASSUME NEW st, Idle(st) \/ Streaming(st), NEW e \in Entries
  PROVE  st.currentStreamCount[e] \in Nat
<1>1. st.currentStreamCount[e] = Cardinality(Streams(st, e))
  BY DEF Idle, Accounted, Streaming
<1>2. Streams(st, e) \subseteq Listeners
  BY DEF Streams
<1>. QED
  BY <1>1, <1>2, ListenersFinite

\* What resolve() does to a caller leaves nobody waiting or undecided.
LEMMA OfferDecides ==
  ASSUME NEW st, NEW e, NEW l
  PROVE  /\ StatusOffered(st, e, l) \notin {"idle", "waiting"}
         /\ StatusOffered(st, e, l) = "holding" => l \notin Requests
  BY DEF StatusOffered

\* More streams on one session.
LEMMA MoreStreams ==
  ASSUME NEW st \in StateType, Streaming(st), NEW e \in Entries, NEW n \in Nat,
         NEW t, t.currentStreamCount = [st.currentStreamCount EXCEPT ![e] = @ + n]
  PROVE  \A x \in Entries :
           /\ t.currentStreamCount[x] \in Nat /\ st.currentStreamCount[x] \in Nat
           /\ t.currentStreamCount[x] = IF x = e THEN st.currentStreamCount[x] + n
                                        ELSE st.currentStreamCount[x]
<1>1. st.currentStreamCount \in [Entries -> Int]
  BY DEF StateType
<1>2. \A x \in Entries : st.currentStreamCount[x] \in Nat
  BY StreamCounts
<1>. QED
  BY <1>1, <1>2

LEMMA ServeQuiets ==
  ASSUME NEW st \in StateType, Streaming(st), NEW e \in Entries, NEW T, NEW t,
         ServeChanges(st, t, e, T), \A x \in Entries : t.listeners[x] \subseteq st.listeners[x]
  PROVE  /\ Quiets(st, t) /\ Decides(st, t) /\ SameOrder(st, t)
         /\ AtLimit(st) => AtLimit(t)
<1>. DEFINE n == Cardinality(Opened(st, e, T))
<1>1. n \in Nat
  BY OpenedFinite
<1>2. t.currentStreamCount = [st.currentStreamCount EXCEPT ![e] = @ + n]
  BY DEF ServeChanges
<1>. HIDE DEF n
<1>3. \A x \in Entries : /\ t.currentStreamCount[x] \in Nat /\ st.currentStreamCount[x] \in Nat
                         /\ t.currentStreamCount[x] >= st.currentStreamCount[x]
  BY <1>1, <1>2, MoreStreams
<1>4. /\ t.phase = st.phase /\ t.life = st.life /\ t.queue = st.queue /\ t.sessions = st.sessions
      /\ t.sessionCount = st.sessionCount /\ t.destroyed = st.destroyed
      /\ t.maxConcurrentStreams = st.maxConcurrentStreams /\ t.originSet = st.originSet
      /\ t.gracefullyClosing = st.gracefullyClosing
  BY DEF ServeChanges, SameFiles, SameKeys, SamePool, SameCapacity
<1>5. Vacant(t) \subseteq Vacant(st)
  BY <1>3, <1>4 DEF Vacant, Unused
<1>6. \A s \in Entries : Usable(t, s) => Usable(st, s)
  <2>1. st.maxConcurrentStreams \in [Entries -> Nat]
    BY DEF StateType
  <2>. QED
    BY <1>3, <1>4, <2>1 DEF Usable, Accepting, IsFree
<1>7. \A l \in Listeners : t.status[l] \in {"waiting", "idle"} =>
        t.status[l] = st.status[l] /\ t.given[l] = st.given[l]
  BY OfferDecides DEF ServeChanges
<1>8. \A l \in Listeners : t.status[l] = "holding" => st.status[l] = "holding" \/ l \notin Requests
  BY OfferDecides DEF ServeChanges
<1>9. \A p \in Options : Listed(t, p) = Listed(st, p) /\ Listed(st, p) \subseteq Entries
  BY <1>4, ListedEntries DEF Listed
<1>10. Quiets(st, t)
  BY <1>4, <1>5, <1>6, <1>7, <1>9 DEF Quiets
<1>11. AtLimit(st) => AtLimit(t)
  BY <1>4 DEF AtLimit, Unstarted
<1>. QED
  BY <1>4, <1>7, <1>8, <1>10, <1>11 DEF Decides, SameOrder

LEMMA ListenersServedQuiets ==
  ASSUME NEW st, Good(st), Accounted(st, None, {}), NEW e \in Entries, st.phase[e] = "ready", NEW T, NEW t,
         ListenersServed(st, t, e, T)
  PROVE  /\ Quiets(st, t) /\ Decides(st, t) /\ SameOrder(st, t)
         /\ AtLimit(st) => AtLimit(t)
<1>. DEFINE n == Cardinality(Opened(st, e, T))
            D == Emptied(st, e, T)
<1>1. n \in Nat /\ st \in StateType /\ Streaming(st) /\ Listing(st)
  BY OpenedFinite DEF Good, Accounted
<1>2. t.currentStreamCount = [st.currentStreamCount EXCEPT ![e] = @ + n]
  BY DEF ListenersServed
<1>3. D \subseteq Entries /\ \A x \in D : st.phase[x] = "queued"
  BY EmptiedQueued
<1>. HIDE DEF n
<1>4. \A x \in Entries : /\ t.currentStreamCount[x] \in Nat /\ st.currentStreamCount[x] \in Nat
                         /\ t.currentStreamCount[x] >= st.currentStreamCount[x]
  BY <1>1, <1>2, MoreStreams
<1>5. /\ \A x \in Entries : t.phase[x] = IF x \in D THEN "none" ELSE st.phase[x]
      /\ t.life = st.life /\ t.sessions = st.sessions
      /\ t.sessionCount = st.sessionCount /\ t.destroyed = st.destroyed \ D
      /\ \A x \in Entries \ D : t.maxConcurrentStreams[x] = st.maxConcurrentStreams[x]
                                /\ t.originSet[x] = st.originSet[x]
      /\ t.gracefullyClosing = st.gracefullyClosing \ D
      /\ \A q \in Options, o \in Origins : t.queue[q][o] \in {None, st.queue[q][o]}
      /\ \A x \in Entries : t.listeners[x] \subseteq st.listeners[x]
  <2>1. /\ t.phase = [x \in Entries |-> IF x \in D THEN "none" ELSE st.phase[x]]
        /\ t.originSet = [x \in Entries |-> IF x \in D THEN {} ELSE st.originSet[x]]
        /\ t.maxConcurrentStreams =
             [x \in Entries |-> IF x \in D THEN 0 ELSE st.maxConcurrentStreams[x]]
        /\ t.destroyed = st.destroyed \ D /\ t.gracefullyClosing = st.gracefullyClosing \ D
        /\ t.life = st.life /\ t.sessions = st.sessions /\ t.sessionCount = st.sessionCount
    BY DEF ListenersServed, SamePool
  <2>2. \A q \in Options, o \in Origins : t.queue[q][o] \in {None, st.queue[q][o]}
    BY DEF ListenersServed
  <2>3. \A x \in Entries : t.listeners[x] \subseteq st.listeners[x]
    BY DEF ListenersServed
  <2>. HIDE DEF D
  <2>. QED
    BY <2>1, <2>2, <2>3
<1>. HIDE DEF D
<1>6. Vacant(t) \subseteq Vacant(st)
  BY <1>4, <1>5 DEF Vacant, Unused
<1>7. \A p \in Options : Listed(t, p) = Listed(st, p) /\ Listed(st, p) \subseteq Entries \ D
  <2>1. \A p \in Options : \A s \in Listed(st, p) : s \in Entries /\ st.phase[s] = "ready"
    BY <1>1, ListedEntries DEF Listing
  <2>. QED
    BY <1>3, <1>5, <2>1 DEF Listed
<1>8. \A s \in Entries \ D : Usable(t, s) => Usable(st, s)
  <2>1. st.maxConcurrentStreams \in [Entries -> Nat]
    BY <1>1 DEF StateType
  <2>. QED
    BY <1>4, <1>5, <2>1 DEF Usable, Accepting, IsFree
<1>9. \A l \in Listeners : t.status[l] \in {"waiting", "idle"} =>
        t.status[l] = st.status[l] /\ t.given[l] = st.given[l]
  BY OfferDecides DEF ListenersServed
<1>10. \A l \in Listeners : t.status[l] = "holding" => st.status[l] = "holding" \/ l \notin Requests
  BY OfferDecides DEF ListenersServed
<1>11. Quiets(st, t)
  BY <1>5, <1>6, <1>7, <1>8, <1>9 DEF Quiets
<1>12. AtLimit(st) => AtLimit(t)
  <2>1. Unstarted(t) \subseteq Unstarted(st)
    BY <1>5 DEF Unstarted
  <2>. QED
    BY <1>5, <2>1 DEF AtLimit
<1>13. SameOrder(st, t)
  BY <1>5, <1>7 DEF SameOrder
<1>. QED
  BY <1>9, <1>10, <1>11, <1>12, <1>13 DEF Decides

\* processListeners() ends with nobody left to serve, or a full session.
LEMMA ListenersServedAwake ==
  ASSUME NEW st, Good(st), Accounted(st, None, {}), NEW e \in Entries, st.phase[e] = "ready",
         NEW T \in SUBSET WaitingFor(st, e), ServesInTurn(st, e, T), NEW t,
         ListenersServed(st, t, e, T), NEW r, Fit(st, r, e)
  PROVE  Fit(t, r, None)
<1>1. /\ Quiets(st, t) /\ Decides(st, t) /\ SameOrder(st, t) /\ AtLimit(t)
      /\ st \in StateType /\ Streaming(st) /\ Listing(st)
  BY ListenersServedQuiets DEF Fit, Good, Accounted
<1>2. Calm(t, r, e)
  BY <1>1, QuietsCalm DEF Fit
<1>3. ASSUME Usable(t, e), NEW p \in Options, NEW o \in Origins, t.queue[p][o] # None,
             NEW l \in t.listeners[t.queue[p][o]], e \in Listed(t, p), o \in t.originSet[e]
      PROVE  FALSE
  <2>. DEFINE x == t.queue[p][o]
  <2>1. x = st.queue[p][o] /\ x \in Entries /\ p = st.options[e] /\ o \in st.originSet[e]
    <3>1. x = st.queue[p][o] /\ x \in Entries /\ e \in Listed(st, p) /\ o \in st.originSet[e]
      BY <1>1, <1>3 DEF Quiets, StateType
    <3>2. st.sessions[p] \in Seq(Entries)
      BY <1>1 DEF StateType
    <3>3. PICK i \in 1..Len(st.sessions[p]) : st.sessions[p][i] = e
      BY <3>1, <3>2, ListElements DEF Listed
    <3>. QED
      BY <1>1, <3>1, <3>3 DEF Listing
  <2>2. x \in Candidates(st, e)
    BY <1>3, <2>1 DEF Candidates
  <2>3. x \notin Emptied(st, e, T)
    <3>1. st.queue[p][o] \in Emptied(st, e, T) => t.queue[p][o] = None
      BY DEF ListenersServed
    <3>. QED
      BY <1>3, <2>1, <3>1
  <2>4. l \in st.listeners[x] \ T
    BY <1>3, <2>1, <2>2, <2>3 DEF ListenersServed
  <2>5. l \in WaitingFor(st, e) \ T
    BY <2>2, <2>4 DEF WaitingFor
  <2>6. st.currentStreamCount[e] + Cardinality(Opened(st, e, T)) >= st.maxConcurrentStreams[e]
    BY <2>5 DEF ServesInTurn, ServesUntilFull
  <2>7. t.currentStreamCount[e] = st.currentStreamCount[e] + Cardinality(Opened(st, e, T))
    BY <1>1 DEF ListenersServed, StateType
  <2>8. t.maxConcurrentStreams[e] = st.maxConcurrentStreams[e] /\ st.maxConcurrentStreams[e] \in Nat
    <3>1. e \notin Emptied(st, e, T)
      BY EmptiedQueued
    <3>. QED
      BY <1>1, <3>1 DEF ListenersServed, StateType
  <2>9. t.currentStreamCount[e] \in Int
    <3>1. Cardinality(Opened(st, e, T)) \in Nat /\ st.currentStreamCount[e] \in Int
      BY <1>1, OpenedFinite DEF StateType
    <3>. QED
      BY <2>7, <3>1
  <2>. QED
    BY <1>3, <2>6, <2>7, <2>8, <2>9 DEF Usable, IsFree
<1>4. Awake(t, None)
  BY <1>2, <1>3 DEF Calm, Awake
<1>. QED
  BY <1>1, <1>2, <1>4 DEF Fit, Calm

------------------------------------------------------------------------------
(* Queueing callers.                                                        *)

LEMMA NoneAvailable ==
  ASSUME NEW st \in StateType, NEW o, NEW p \in Options, AvailableAt(st, o, p) = {},
         NEW s \in Listed(st, p), o \in st.originSet[s]
  PROVE  ~Usable(st, s)
<1>1. st.sessions[p] \in Seq(Entries)
  BY DEF StateType
<1>2. PICK i \in 1..Len(st.sessions[p]) : st.sessions[p][i] = s
  BY <1>1, ListElements DEF Listed
<1>3. ~Available(st, s, o)
  BY <1>2 DEF AvailableAt
<1>. QED
  BY <1>3 DEF Available, Usable, Accepting

\* Callers T wait under a key none of whose sessions is usable.
LEMMA WaitingAwake ==
  ASSUME NEW st, Good(st), Filed(st), NEW T, Listening(st, None, T),
         NEW o \in Origins, NEW p \in Options, AvailableAt(st, o, p) = {}, Awake(st, None), NEW t,
         \A q \in Options, h \in Origins : q # p \/ h # o => t.queue[q][h] = st.queue[q][h],
         \A q \in Options, h \in Origins : (q # p \/ h # o) /\ st.queue[q][h] # None =>
           t.listeners[st.queue[q][h]] = st.listeners[st.queue[q][h]],
         \A l \in Listeners : t.status[l] = "waiting" => st.status[l] \in {"idle", "waiting"},
         \A s \in Entries : Usable(t, s) => Usable(st, s),
         t.sessions = st.sessions, t.originSet = st.originSet
  PROVE  Awake(t, None)
<1>1. SUFFICES ASSUME NEW q \in Options, NEW h \in Origins, t.queue[q][h] # None,
                      NEW l \in t.listeners[t.queue[q][h]], NEW s \in Listed(t, q),
                      t.status[l] = "waiting", s # None, h \in t.originSet[s]
               PROVE  ~Usable(t, s)
  BY DEF Awake
<1>2. s \in Listed(st, q) /\ h \in st.originSet[s] /\ s \in Entries /\ st \in StateType
  BY <1>1, ListedEntries DEF Listed, Good
<1>3. CASE q = p /\ h = o
  BY <1>2, <1>3, NoneAvailable
<1>4. CASE q # p \/ h # o
  <2>1. st.queue[q][h] # None /\ l \in st.listeners[st.queue[q][h]]
    BY <1>1, <1>4
  <2>2. st.queue[q][h] \in Entries
    BY <1>2, <2>1 DEF StateType
  <2>3. l \in Listeners /\ st.status[l] \in {"waiting", "rejected"}
    BY <1>2, <2>1, <2>2 DEF StateType, Listening
  <2>4. st.status[l] = "waiting"
    BY <1>1, <2>3
  <2>. QED
    BY <1>1, <1>2, <2>1, <2>4 DEF Awake
<1>. QED
  BY <1>3, <1>4

LEMMA EnqueueFit ==
  ASSUME NEW st, Good(st), NEW T \in SUBSET Listeners, Accounted(st, None, T), Attended(st),
         T # {}, \A l \in T : st.status[l] \in {"idle", "waiting", "rejected"},
         NEW o \in Origins, NEW p \in Options, AvailableAt(st, o, p) = {},
         NEW r, Fit(st, r, None), NEW u \in Enqueue(st, o, p, T)
  PROVE  Fit(u, r, None)
<1>1. /\ st \in StateType /\ st.status \in [Listeners -> Statuses]
      /\ st.listeners \in [Entries -> SUBSET Listeners]
      /\ st.queue \in [Options -> [Origins -> Entries \cup {None}]]
  BY DEF Good, StateType
<1>2. Filed(st) /\ Listening(st, None, T) /\ Awake(st, None)
  BY DEF Accounted, Fit, Calm
<1>3. CASE st.queue[p][o] # None
  <2>. DEFINE e == st.queue[p][o]
  <2>1. Joined(st, u, e, T)
    BY <1>1, <1>3, EnqueueFields
  <2>2. e \in Entries
    BY <1>1, <1>3
  <2>3. /\ u.queue = st.queue /\ u.phase = st.phase /\ u.destroyed = st.destroyed
        /\ u.sessions = st.sessions /\ u.sessionCount = st.sessionCount /\ u.life = st.life
        /\ u.currentStreamCount = st.currentStreamCount /\ u.originSet = st.originSet
        /\ u.maxConcurrentStreams = st.maxConcurrentStreams /\ u.given = st.given
        /\ u.gracefullyClosing = st.gracefullyClosing
        /\ \A l \in Listeners : u.status[l] =
             IF l \in T /\ st.status[l] = "idle" THEN "waiting" ELSE st.status[l]
        /\ \A x \in Entries : x # e => u.listeners[x] = st.listeners[x]
    BY <1>1, <2>1 DEF Joined, SameFiles, SameKeys, SamePool, SameStreams, SameCapacity
  <2>4. \A q \in Options, h \in Origins : (q # p \/ h # o) /\ st.queue[q][h] # None =>
          st.queue[q][h] \in Entries /\ st.queue[q][h] # e
    BY <1>1, <1>2, <1>3 DEF Filed
  <2>5. \A s \in Entries : Usable(u, s) => Usable(st, s)
    BY <2>3 DEF Usable, Accepting, IsFree
  <2>6. Awake(u, None)
    <3>1. \A l \in Listeners : u.status[l] = "waiting" => st.status[l] \in {"idle", "waiting"}
      BY <2>3
    <3>2. \A q \in Options, h \in Origins : (q # p \/ h # o) /\ st.queue[q][h] # None =>
            u.listeners[st.queue[q][h]] = st.listeners[st.queue[q][h]]
      BY <2>3, <2>4
    <3>. HIDE DEF e
    <3>. QED
      BY <1>2, <2>3, <2>5, <3>1, <3>2, WaitingAwake
  <2>7. Vacant(u) = Vacant(st) /\ Unstarted(u) = Unstarted(st)
    BY <2>3 DEF Vacant, Unused, Unstarted
  <2>8. AtLimit(u) /\ FewVacant(u, r) /\ Ordered(u) /\ Decided(u)
    BY <2>3, <2>7 DEF Fit, Calm, AtLimit, FewVacant, Ordered, Decided
  <2>. QED
    BY <2>6, <2>8 DEF Fit, Calm
<1>4. CASE st.queue[p][o] = None
  <2>1. PICK e \in Fresh(st), t \in StateType : Queued(st, t, e, o, p, T) /\ u \in ProcessQueue(t)
    BY <1>1, <1>4, EnqueueFields
  <2>2. Accounted(t, None, {}) /\ Attended(t) /\ Good(t)
    BY <1>4, <2>1, QueuedAccounted, QueuedGood
  <2>3. e \in Entries /\ st.phase[e] = "none"
    BY DEF Fresh
  <2>4. /\ t.sessions = st.sessions /\ t.life = st.life
        /\ t.currentStreamCount = st.currentStreamCount /\ t.originSet = st.originSet
        /\ t.maxConcurrentStreams = st.maxConcurrentStreams /\ t.given = st.given
        /\ t.gracefullyClosing = st.gracefullyClosing
        /\ \A l \in Listeners : t.status[l] =
             IF l \in T /\ st.status[l] = "idle" THEN "waiting" ELSE st.status[l]
        /\ \A x \in Entries : x # e => t.listeners[x] = st.listeners[x]
        /\ t.phase = [st.phase EXCEPT ![e] = "queued"]
    BY <1>1, <2>1 DEF Queued, SamePool, SameStreams, SameCapacity
  <2>5. \A q \in Options, h \in Origins : q # p \/ h # o => t.queue[q][h] = st.queue[q][h]
    BY <1>1, <2>1 DEF Queued
  <2>6. \A q \in Options, h \in Origins : st.queue[q][h] # None =>
          st.queue[q][h] \in Entries /\ st.queue[q][h] # e
    BY <1>1, <1>2, <2>3 DEF Filed, Pending
  <2>7. \A s \in Entries : Usable(t, s) => Usable(st, s)
    BY <2>4 DEF Usable, Accepting, IsFree
  <2>8. Awake(t, None)
    <3>1. \A l \in Listeners : t.status[l] = "waiting" => st.status[l] \in {"idle", "waiting"}
      BY <2>4
    <3>2. \A q \in Options, h \in Origins : (q # p \/ h # o) /\ st.queue[q][h] # None =>
            t.listeners[st.queue[q][h]] = st.listeners[st.queue[q][h]]
      BY <2>4, <2>6
    <3>. QED
      BY <1>2, <2>4, <2>5, <2>7, <3>1, <3>2, WaitingAwake
  <2>9. Vacant(t) = Vacant(st)
    <3>1. \A x \in Entries : t.phase[x] = "ready" <=> st.phase[x] = "ready"
      BY <1>1, <2>3, <2>4 DEF StateType
    <3>. QED
      BY <2>4, <3>1 DEF Vacant, Unused
  <2>10. Calm(t, r, None)
    <3>1. FewVacant(t, r) /\ Ordered(t) /\ Decided(t)
      BY <2>4, <2>9 DEF Fit, Calm, FewVacant, Ordered, Decided
    <3>. QED
      BY <2>8, <3>1 DEF Calm
  <2>. QED
    BY <2>1, <2>2, <2>10, ProcessQueueFit
<1>. QED
  BY <1>3, <1>4

------------------------------------------------------------------------------
(* The pool.                                                                *)

LEMMA EndedCalm ==
  ASSUME NEW st, Good(st), Accounted(st, None, {}),
         NEW e \in Entries, st.phase[e] \in {"connecting", "connected"}, NEW t, Ended(st, t, e),
         NEW r, NEW b, Calm(st, r, b)
  PROVE  Calm(t, r, b)
<1>1. st \in StateType /\ Listing(st)
  BY DEF Good, Accounted
<1>2. /\ t.sessions = st.sessions /\ t.life = st.life /\ t.given = st.given
      /\ t.currentStreamCount = st.currentStreamCount
      /\ t.gracefullyClosing = st.gracefullyClosing \ {e}
  BY DEF Ended, SameStreams
<1>3. \A p \in Options : /\ Listed(t, p) = Listed(st, p)
                         /\ \A s \in Listed(st, p) : s \in Entries /\ s # e
  BY <1>1, <1>2, ListedEntries DEF Listing, Listed
<1>4. \A x \in Entries \ {e} : /\ t.originSet[x] = st.originSet[x]
                               /\ t.maxConcurrentStreams[x] = st.maxConcurrentStreams[x]
  BY DEF Ended
<1>5. Vacant(t) \subseteq Vacant(st)
  <2>1. \A x \in Entries : t.phase[x] = "ready" => st.phase[x] = "ready"
    BY DEF Ended
  <2>. QED
    BY <1>2, <2>1 DEF Vacant, Unused
<1>6. /\ \A x \in Entries : t.listeners[x] \subseteq st.listeners[x]
      /\ \A q \in Options, o \in Origins : t.queue[q][o] \in {None, st.queue[q][o]}
  BY DEF Ended
<1>7. \A l \in Listeners : t.status[l] = st.status[l] \/ t.status[l] = "rejected"
  BY DEF Ended
<1>8. \A s \in Entries \ {e} : Usable(t, s) => Usable(st, s)
  BY <1>2, <1>4 DEF Usable, Accepting, IsFree
<1>9. Quiets(st, t)
  BY <1>3, <1>4, <1>5, <1>6, <1>7, <1>8 DEF Quiets
<1>10. Decides(st, t) /\ SameOrder(st, t)
  BY <1>2, <1>3, <1>4, <1>7 DEF Decides, SameOrder
<1>. QED
  BY <1>1, <1>9, <1>10, QuietsCalm

\* A list stays sorted when one session leaves it.
LEMMA RemoveOrdered ==
  ASSUME NEW s \in Seq(Entries), NEW i \in 1..Len(s), NEW f, NEW g, NEW e, Distinct(s), s[i] = e,
         \A x \in ToSet(s) \ {e} : g[x] = f[x],
         \A j, k \in 1..Len(s) : j < k => f[s[j]] >= f[s[k]]
  PROVE  LET t == RemoveAt(s, i)
         IN  \A j, k \in 1..Len(t) : j < k => g[t[j]] >= g[t[k]]
<1>. DEFINE t == RemoveAt(s, i)
            from(k) == IF k < i THEN k ELSE k + 1
<1>1. /\ t \in Seq(Entries) /\ Len(t) = Len(s) - 1
      /\ \A k \in 1..(i - 1) : t[k] = s[k]
      /\ \A k \in i..(Len(s) - 1) : t[k] = s[k + 1]
  BY RemoveAtElements
<1>. HIDE DEF t
<1>2. Len(s) \in Nat
  BY LenProperties
<1>3. ASSUME NEW k \in 1..Len(t) PROVE from(k) \in 1..Len(s) /\ from(k) # i /\ t[k] = s[from(k)]
  <2>1. CASE k < i
    BY <1>1, <1>2, <2>1
  <2>2. CASE ~(k < i)
    BY <1>1, <1>2, <2>2
  <2>. QED
    BY <2>1, <2>2
<1>4. \A j, k \in 1..Len(t) : j < k => from(j) < from(k)
  BY <1>1, <1>2
<1>5. \A k \in 1..Len(t) : s[from(k)] \in ToSet(s) \ {e}
  BY <1>3, ListElements DEF Distinct
<1>6. \A k \in 1..Len(t) : g[t[k]] = f[s[from(k)]]
  BY <1>3, <1>5
<1>7. ASSUME NEW j \in 1..Len(t), NEW k \in 1..Len(t), j < k PROVE g[t[j]] >= g[t[k]]
  BY <1>3, <1>4, <1>6, <1>7
<1>. QED
  BY <1>7 DEF t

LEMMA LeftPoolCalm ==
  ASSUME NEW st, Good(st), Accounted(st, None, {}),
         NEW e \in Entries, st.phase[e] = "ready",
         NEW i \in 1..Len(st.sessions[st.options[e]]), st.sessions[st.options[e]][i] = e,
         NEW u, LeftPool(st, u, e, i), NEW t, Forgotten(u, t, {e}, "closed"),
         NEW r, NEW b, Calm(st, r, b)
  PROVE  Calm(t, r, b)
<1>. DEFINE p == st.options[e]
<1>1. /\ st \in StateType /\ Listing(st) /\ p \in Options /\ st.sessions \in [Options -> Seq(Entries)]
  BY ReadyKeyed DEF Good, StateType, Accounted
<1>2. /\ t.queue = st.queue /\ t.status = st.status /\ t.given = st.given /\ t.life = st.life
      /\ t.currentStreamCount = st.currentStreamCount
      /\ t.gracefullyClosing = st.gracefullyClosing \ {e}
      /\ t.sessions = [st.sessions EXCEPT ![p] = RemoveAt(@, i)]
  BY DEF LeftPool, Forgotten, SameFiles, SameCallers, SamePool, SameStreams
<1>3. /\ \A x \in Entries : t.listeners[x] \subseteq st.listeners[x]
      /\ \A x \in Entries \ {e} : /\ t.originSet[x] = st.originSet[x]
                                  /\ t.maxConcurrentStreams[x] = st.maxConcurrentStreams[x]
      /\ \A x \in Entries : t.phase[x] = "ready" => st.phase[x] = "ready"
  BY DEF LeftPool, Forgotten, SameKeys, SameCapacity
<1>4. \A q \in Options : Distinct(st.sessions[q])
  BY <1>1 DEF Listing, Distinct
<1>5. \A q \in Options : \A s \in Listed(t, q) : s \in Listed(st, q) /\ s \in Entries \ {e}
  <2>1. ASSUME NEW q \in Options, NEW s \in Listed(t, q) PROVE s \in Listed(st, q) /\ s # e
    <3>1. CASE q = p
      <4>1. t.sessions[p] = RemoveAt(st.sessions[p], i) /\ st.sessions[p] \in Seq(Entries)
        BY <1>1, <1>2
      <4>. QED
        BY <1>4, <2>1, <3>1, <4>1, RemoveDistinct DEF Listed
    <3>2. CASE q # p
      <4>1. s \in Listed(st, q) /\ st.sessions[q] \in Seq(Entries)
        BY <1>1, <1>2, <2>1, <3>2 DEF Listed
      <4>2. PICK k \in 1..Len(st.sessions[q]) : st.sessions[q][k] = s
        BY <4>1, ListElements DEF Listed
      <4>3. st.options[s] = q
        BY <1>1, <4>2 DEF Listing
      <4>. QED
        BY <3>2, <4>1, <4>3
    <3>. QED
      BY <3>1, <3>2
  <2>. QED
    BY <1>1, <2>1, ListedEntries
<1>6. Vacant(t) \subseteq Vacant(st)
  BY <1>2, <1>3 DEF Vacant, Unused
<1>7. \A s \in Entries \ {e} : Usable(t, s) => Usable(st, s)
  BY <1>2, <1>3 DEF Usable, Accepting, IsFree
<1>8. Quiets(st, t)
  BY <1>2, <1>3, <1>5, <1>6, <1>7 DEF Quiets
<1>9. Awake(t, b)
  BY <1>1, <1>8, QuietsAwake DEF Calm
<1>10. FewVacant(t, r) /\ Decided(t)
  BY <1>2, <1>6, FewerVacant DEF Calm, Decided
<1>11. Ordered(t)
  <2>1. SUFFICES ASSUME "settings" \notin Environment, NEW q \in Options
                 PROVE  \A j, k \in 1..Len(t.sessions[q]) : j < k =>
                          t.maxConcurrentStreams[t.sessions[q][j]] >= t.maxConcurrentStreams[t.sessions[q][k]]
    BY DEF Ordered
  <2>2. /\ \A j, k \in 1..Len(st.sessions[q]) : j < k =>
             st.maxConcurrentStreams[st.sessions[q][j]] >= st.maxConcurrentStreams[st.sessions[q][k]]
        /\ st.sessions[q] \in Seq(Entries)
    BY <1>1, <2>1 DEF Calm, Ordered
  <2>3. CASE q = p
    <3>1. t.sessions[q] = RemoveAt(st.sessions[p], i)
      BY <1>1, <1>2, <2>3
    <3>2. \A x \in ToSet(st.sessions[p]) \ {e} : t.maxConcurrentStreams[x] = st.maxConcurrentStreams[x]
      BY <1>1, <1>3, ListedEntries DEF Listed
    <3>3. /\ st.sessions[p] \in Seq(Entries) /\ Distinct(st.sessions[p])
          /\ \A j, k \in 1..Len(st.sessions[p]) : j < k =>
               st.maxConcurrentStreams[st.sessions[p][j]] >= st.maxConcurrentStreams[st.sessions[p][k]]
      BY <1>1, <1>4, <2>2, <2>3
    <3>. DEFINE s == st.sessions[p]
    <3>. DEFINE f == st.maxConcurrentStreams
                g == t.maxConcurrentStreams
    <3>4. /\ s \in Seq(Entries) /\ i \in 1..Len(s) /\ Distinct(s) /\ s[i] = e
          /\ \A x \in ToSet(s) \ {e} : g[x] = f[x]
          /\ \A j, k \in 1..Len(s) : j < k => f[s[j]] >= f[s[k]]
      BY <3>2, <3>3
    <3>5. \A j, k \in 1..Len(RemoveAt(s, i)) : j < k => g[RemoveAt(s, i)[j]] >= g[RemoveAt(s, i)[k]]
      <4>. HIDE DEF s, f, g
      <4>. QED
        BY <3>4, RemoveOrdered, SMTT(30)
    <3>. QED
      BY <3>1, <3>5
  <2>4. CASE q # p
    <3>1. t.sessions[q] = st.sessions[q]
      BY <1>1, <1>2, <2>4
    <3>2. \A k \in 1..Len(st.sessions[q]) : st.sessions[q][k] \in Entries \ {e}
      BY <1>5, <2>2, <3>1, ListElements DEF Listed
    <3>3. \A k \in 1..Len(st.sessions[q]) : t.maxConcurrentStreams[st.sessions[q][k]]
                                             = st.maxConcurrentStreams[st.sessions[q][k]]
      BY <1>3, <3>2
    <3>. QED
      BY <2>2, <3>1, <3>3
  <2>. QED
    BY <2>3, <2>4
<1>. QED
  BY <1>9, <1>10, <1>11 DEF Calm

\* A list stays sorted when a session of capacity n enters where it belongs.
LEMMA InsertOrdered ==
  ASSUME NEW s \in Seq(Entries), NEW i \in 0..Len(s), NEW e \in Entries, NEW f, NEW g, NEW n \in Int,
         g[e] = n, \A x \in ToSet(s) : g[x] = f[x] /\ f[x] \in Int,
         i > 0 => f[s[i]] >= n, i < Len(s) => f[s[i + 1]] <= n,
         \A j, k \in 1..Len(s) : j < k => f[s[j]] >= f[s[k]]
  PROVE  LET t == InsertAt(s, i + 1, e)
         IN  \A j, k \in 1..Len(t) : j < k => g[t[j]] >= g[t[k]]
<1>. DEFINE t == InsertAt(s, i + 1, e)
            F(k) == f[s[k]]
            G(k) == g[t[k]]
<1>1. /\ t \in Seq(Entries) /\ Len(t) = Len(s) + 1 /\ t[i + 1] = e
      /\ \A k \in 1..i : t[k] = s[k]
      /\ \A k \in (i + 2)..(Len(s) + 1) : t[k] = s[k - 1]
  BY InsertEntry
<1>. HIDE DEF t
<1>2. Len(s) \in Nat /\ i \in Nat /\ i <= Len(s)
  BY LenProperties
<1>3. \A k \in 1..Len(s) : s[k] \in ToSet(s) /\ g[s[k]] = F(k) /\ F(k) \in Int
  BY ListElements
<1>4. /\ G(i + 1) = n
      /\ \A k \in 1..i : G(k) = F(k)
      /\ \A k \in (i + 2)..(Len(s) + 1) : k - 1 \in 1..Len(s) /\ G(k) = F(k - 1)
  <2>1. \A k \in 1..i : k \in 1..Len(s)
    BY <1>2
  <2>2. \A k \in (i + 2)..(Len(s) + 1) : k - 1 \in 1..Len(s)
    BY <1>2
  <2>. QED
    BY <1>1, <1>3, <2>1, <2>2
<1>5. /\ \A j, k \in 1..Len(s) : j < k => F(j) >= F(k)
      /\ i > 0 => F(i) >= n
      /\ i < Len(s) => F(i + 1) <= n
  OBVIOUS
<1>. HIDE DEF F, G
<1>6. ASSUME NEW j \in 1..(Len(s) + 1), NEW k \in 1..(Len(s) + 1), j < k PROVE G(j) >= G(k)
  <2>1. CASE k <= i
    <3>1. j \in 1..i /\ k \in 1..i /\ j \in 1..Len(s) /\ k \in 1..Len(s)
      BY <1>2, <1>6, <2>1
    <3>. QED
      BY <1>4, <1>5, <1>6, <3>1
  <2>2. CASE k = i + 1
    <3>1. j \in 1..i /\ j \in 1..Len(s) /\ i \in 1..Len(s) /\ i > 0
      BY <1>2, <1>6, <2>2
    <3>2. F(j) >= F(i)
      <4>1. j = i \/ j < i
        BY <3>1
      <4>. QED
        BY <1>3, <1>5, <3>1, <4>1
    <3>3. F(i) >= n /\ F(i) \in Int /\ F(j) \in Int
      BY <1>3, <1>5, <3>1
    <3>. QED
      BY <1>4, <2>2, <3>1, <3>2, <3>3
  <2>3. CASE k >= i + 2
    <3>1. k \in (i + 2)..(Len(s) + 1) /\ k - 1 \in 1..Len(s) /\ G(k) = F(k - 1)
      BY <1>2, <1>4, <2>3
    <3>2. CASE j <= i
      <4>1. j \in 1..i /\ j \in 1..Len(s) /\ j < k - 1
        BY <1>2, <1>6, <2>3, <3>2
      <4>. QED
        BY <1>4, <1>5, <3>1, <4>1
    <3>3. CASE j = i + 1
      <4>1. i + 1 \in 1..Len(s) /\ i < Len(s) /\ (i + 1 = k - 1 \/ i + 1 < k - 1)
        BY <1>2, <2>3, <3>1
      <4>2. F(i + 1) >= F(k - 1) /\ F(i + 1) <= n /\ F(i + 1) \in Int /\ F(k - 1) \in Int
        BY <1>3, <1>5, <3>1, <4>1
      <4>. QED
        BY <1>4, <3>1, <3>3, <4>2
    <3>4. CASE j >= i + 2
      <4>1. j \in (i + 2)..(Len(s) + 1) /\ j - 1 \in 1..Len(s) /\ G(j) = F(j - 1) /\ j - 1 < k - 1
        BY <1>2, <1>4, <1>6, <3>4
      <4>. QED
        BY <1>5, <3>1, <4>1
    <3>. QED
      BY <1>2, <3>2, <3>3, <3>4
  <2>. QED
    BY <1>2, <2>1, <2>2, <2>3
<1>7. \A j, k \in 1..Len(t) : j < k => G(j) >= G(k)
  BY <1>1, <1>6
<1>. QED
  BY <1>7 DEF t, G

\* The key of the session left the queue with it: nobody waits beside it.
LEMMA EnterPoolFit ==
  ASSUME NEW st, Good(st), Accounted(st, None, {}), NEW e \in Entries, st.phase[e] = "connected",
         e \notin st.destroyed, NEW u, SameButQueue(st, u),
         \A q \in Options, o \in Origins :
           u.queue[q][o] = IF st.queue[q][o] = e THEN None ELSE st.queue[q][o],
         NEW n \in Nat, NEW i \in SortedIndexes(st, st.options[e], n), NEW O \in SUBSET {st.origin[e]},
         NEW t, Entered(u, t, e, i, n, O), Fit(st, None, None)
  PROVE  Fit(t, e, None)
<1>. DEFINE p == st.options[e]
<1>1. /\ st \in StateType /\ Filed(st) /\ Listing(st) /\ p \in Options
      /\ st.sessions \in [Options -> Seq(Entries)] /\ st.phase \in [Entries -> Phases]
      /\ st.maxConcurrentStreams \in [Entries -> Nat] /\ st.originSet \in [Entries -> SUBSET Origins]
      /\ i \in 0..Len(st.sessions[p])
  BY ReadyKeyed DEF Good, StateType, Accounted, SortedIndexes
<1>2. /\ t.status = st.status /\ t.given = st.given /\ t.life = st.life
      /\ t.listeners = st.listeners /\ t.sessionCount = st.sessionCount
      /\ t.destroyed = st.destroyed
      /\ t.currentStreamCount = st.currentStreamCount
      /\ t.gracefullyClosing = st.gracefullyClosing
      /\ t.sessions = [st.sessions EXCEPT ![p] = InsertAt(@, i + 1, e)]
      /\ \A x \in Entries : t.phase[x] = IF x = e THEN "ready" ELSE st.phase[x]
      /\ \A x \in Entries : t.originSet[x] = IF x = e THEN O ELSE st.originSet[x]
      /\ \A x \in Entries : t.maxConcurrentStreams[x] =
           IF x = e THEN n ELSE st.maxConcurrentStreams[x]
  BY <1>1 DEF SameButQueue, Entered, SameKeys, SamePool, SameStreams, SameCallers, SameCapacity
<1>3. \A q \in Options, o \in Origins :
        t.queue[q][o] = IF st.queue[q][o] = e THEN None ELSE st.queue[q][o]
  BY DEF Entered, SameFiles
<1>4. \A q \in Options : \A s \in Listed(st, q) : s \in Entries /\ s # e
  BY <1>1, ListedEntries DEF Listing
<1>5. \A q \in Options : \A s \in Listed(t, q) : s \in Listed(st, q) \/ (s = e /\ q = p)
  <2>1. ASSUME NEW q \in Options, NEW s \in Listed(t, q) PROVE s \in Listed(st, q) \/ (s = e /\ q = p)
    <3>1. CASE q = p
      <4>1. /\ t.sessions[q] = InsertAt(st.sessions[p], i + 1, e) /\ st.sessions[p] \in Seq(Entries)
            /\ e \notin ToSet(st.sessions[p]) /\ Distinct(st.sessions[p])
        <5>1. Distinct(st.sessions[p])
          BY <1>1 DEF Listing, Distinct
        <5>2. e \notin ToSet(st.sessions[p])
          BY <1>1, <1>4 DEF Listed
        <5>. QED
          BY <1>1, <1>2, <3>1, <5>1, <5>2
      <4>. QED
        BY <1>1, <2>1, <3>1, <4>1, InsertDistinct DEF Listed
    <3>2. CASE q # p
      BY <1>1, <1>2, <2>1, <3>2 DEF Listed
    <3>. QED
      BY <3>1, <3>2
  <2>. QED
    BY <2>1
<1>6. FewVacant(t, e)
  <2>1. Vacant(t) \ {e} \subseteq Vacant(st) \ {None} /\ Vacant(st) \ {None} \subseteq Entries
    BY <1>2, NoneAssumption DEF Vacant, Unused
  <2>2. /\ Cardinality(Vacant(t) \ {e}) <= Cardinality(Vacant(st) \ {None})
        /\ Cardinality(Vacant(t) \ {e}) \in Nat /\ Cardinality(Vacant(st) \ {None}) \in Nat
    BY <2>1, CountSubset
  <2>. QED
    BY <2>2, BoundsAssumption DEF Fit, Calm, FewVacant
<1>7. Awake(t, None)
  <2>1. SUFFICES ASSUME NEW q \in Options, NEW o \in Origins, t.queue[q][o] # None,
                        NEW l \in t.listeners[t.queue[q][o]], NEW s \in Listed(t, q),
                        t.status[l] = "waiting", s # None, o \in t.originSet[s]
                 PROVE  ~Usable(t, s)
    BY DEF Awake
  <2>2. t.queue[q][o] = st.queue[q][o] /\ st.queue[q][o] # e
    BY <1>3, <2>1
  <2>3. st.queue[p][st.origin[e]] = e
    BY <1>1 DEF Filed, Pending
  <2>4. s # e
    <3>1. ASSUME s = e PROVE FALSE
      <4>1. q = p /\ o = st.origin[e]
        BY <1>2, <1>4, <1>5, <2>1, <3>1
      <4>. QED
        BY <2>2, <2>3, <4>1
    <3>. QED
      BY <3>1
  <2>5. s \in Listed(st, q) /\ s \in Entries
    BY <1>4, <1>5, <2>1, <2>4
  <2>6. ~Usable(st, s)
    BY <1>2, <2>1, <2>2, <2>4, <2>5 DEF Fit, Calm, Awake
  <2>. QED
    BY <1>2, <2>4, <2>5, <2>6 DEF Usable, Accepting, IsFree
<1>8. Ordered(t)
  <2>1. SUFFICES ASSUME "settings" \notin Environment, NEW q \in Options
                 PROVE  \A j, k \in 1..Len(t.sessions[q]) : j < k =>
                          t.maxConcurrentStreams[t.sessions[q][j]] >= t.maxConcurrentStreams[t.sessions[q][k]]
    BY DEF Ordered
  <2>. DEFINE s == st.sessions[q]
              f == st.maxConcurrentStreams
              g == t.maxConcurrentStreams
  <2>2. /\ \A j, k \in 1..Len(s) : j < k => f[s[j]] >= f[s[k]]
        /\ s \in Seq(Entries) /\ \A x \in ToSet(s) : g[x] = f[x] /\ f[x] \in Int
    <3>1. \A j, k \in 1..Len(s) : j < k => f[s[j]] >= f[s[k]]
      BY <2>1 DEF Fit, Calm, Ordered
    <3>. QED
      BY <1>1, <1>2, <1>4, <3>1 DEF Listed
  <2>3. CASE q = p
    <3>1. t.sessions[q] = InsertAt(s, i + 1, e) /\ i \in 0..Len(s) /\ g[e] = n
      BY <1>1, <1>2, <2>3
    <3>2. /\ i > 0 => f[s[i]] > n
          /\ i < Len(s) => f[s[i + 1]] <= n
      BY <2>3 DEF SortedIndexes
    <3>3. i > 0 => f[s[i]] >= n
      <4>1. ASSUME i > 0 PROVE f[s[i]] \in Int
        <5>1. i \in 1..Len(s)
          BY <1>1, <2>3, <4>1
        <5>. QED
          BY <1>1, <2>2, <5>1, ListElements
      <4>. QED
        BY <3>2, <4>1
    <3>. DEFINE r == InsertAt(s, i + 1, e)
    <3>4. \A j, k \in 1..Len(r) : j < k => g[r[j]] >= g[r[k]]
      <4>1. /\ s \in Seq(Entries) /\ i \in 0..Len(s) /\ n \in Int /\ g[e] = n
            /\ \A x \in ToSet(s) : g[x] = f[x] /\ f[x] \in Int
            /\ (i > 0 => f[s[i]] >= n) /\ (i < Len(s) => f[s[i + 1]] <= n)
            /\ \A j, k \in 1..Len(s) : j < k => f[s[j]] >= f[s[k]]
        BY <2>2, <3>1, <3>2, <3>3
      <4>. HIDE DEF s, f, g, p
      <4>. QED
        BY <4>1, InsertOrdered
    <3>. QED
      BY <3>1, <3>4
  <2>4. CASE q # p
    <3>1. t.sessions[q] = s
      BY <1>1, <1>2, <2>4
    <3>2. \A k \in 1..Len(s) : g[s[k]] = f[s[k]]
      BY <2>2, ListElements
    <3>. QED
      BY <2>2, <3>1, <3>2
  <2>. QED
    BY <2>3, <2>4
<1>9. AtLimit(t) /\ Decided(t)
  <2>1. Unstarted(t) = Unstarted(st)
    BY <1>2 DEF Unstarted
  <2>. QED
    BY <1>2, <2>1 DEF Fit, Calm, AtLimit, Decided
<1>. QED
  BY <1>6, <1>7, <1>8, <1>9 DEF Fit, Calm

------------------------------------------------------------------------------
(* The actions.                                                             *)

LEMMA FitNow == ASSUME SInv, relay = None PROVE Idle(Now) /\ Now \in StateType /\ Fit(Now, None, None)
  BY IdleNow DEF SInv, Idle, Good

LEMMA QuietsFit ==
  ASSUME NEW st \in StateType, NEW t, Quiets(st, t), Decides(st, t), SameOrder(st, t),
         AtLimit(st) => AtLimit(t), NEW r, NEW b, Fit(st, r, b)
  PROVE  Fit(t, r, b)
  BY QuietsCalm DEF Fit

LEMMA BecomeShut ==
  ASSUME SInv, relay = None, NEW t, Shuts(Now, t), Become(t)
  PROVE  Fit(Now', relay', None)
<1>1. Fit(t, None, None)
  BY FitNow, ShutsFit DEF Fit
<1>2. t.relay = None
  BY NowFields DEF Shuts
<1>. QED
  BY <1>1, <1>2, BecomeFit

LEMMA CloseEmptyFit == ASSUME SInv, CloseEmpty PROVE Fit(Now', relay', None)
<1>1. PICK n \in 1..Cardinality(Entries) : BecomeOneOf(CloseEmptySessions(Now, n))
  BY DEF CloseEmpty
<1>2. PICK t \in CloseEmptySessions(Now, n) : Become(t)
  BY <1>1 DEF BecomeOneOf
<1>3. relay = None /\ Now \in StateType
  BY FitNow DEF CloseEmpty
<1>4. Shuts(Now, t)
  BY <1>3, CloseEmptySessionsShuts
<1>. QED
  BY <1>2, <1>3, <1>4, BecomeShut

LEMMA SessionEndsFit ==
  ASSUME SInv, NEW e \in Entries, SessionClose(e) \/ SessionLost(e) \/ SessionDrained(e)
  PROVE  Fit(Now', relay', None)
<1>1. relay = None /\ Now \in StateType
  BY FitNow DEF SessionClose, SessionLost, SessionDrained
<1>2. CASE SessionClose(e)
  BY <1>1, <1>2, CloseShuts, BecomeShut DEF SessionClose
<1>3. CASE SessionLost(e) \/ SessionDrained(e)
  BY <1>1, <1>3, DestroyShuts, BecomeShut DEF SessionLost, SessionDrained
<1>. QED
  BY <1>2, <1>3

LEMMA GetSessionFit ==
  ASSUME SInv, NEW l \in Listeners, NEW o \in Origins, NEW p \in Options, GetSession(l, o, p)
  PROVE  Fit(Now', relay', None)
<1>1. relay = None /\ status[l] = "idle" /\ Idle(Now) /\ Now \in StateType /\ Fit(Now, None, None)
  BY FitNow DEF GetSession
<1>2. CASE AvailableAt(Now, o, p) # {}
  <2>1. PICK i \in AvailableAt(Now, o, p) : Become(Serve(Now, sessions[p][i], {l}))
    BY <1>2 DEF GetSession
  <2>. DEFINE e == sessions[p][i]
              t == Serve(Now, e, {l})
  <2>2. HasSession(Now, e) /\ e \in Entries
    BY ListedHasSession, NowFields DEF AvailableAt, SInv, AInv, HasSession
  <2>3. ServeChanges(Now, t, e, {l}) /\ t.listeners = Now.listeners
    BY <1>1, <2>2, ServeFields
  <2>. HIDE DEF e, t
  <2>4. Streaming(Now)
    BY <1>1 DEF Idle, Accounted
  <2>5. /\ Quiets(Now, t) /\ Decides(Now, t) /\ SameOrder(Now, t)
        /\ AtLimit(Now) => AtLimit(t)
    BY <1>1, <2>2, <2>3, <2>4, ServeQuiets
  <2>6. Fit(t, None, None)
    BY <1>1, <2>5, QuietsFit
  <2>7. t.relay = None
    BY <1>1, <2>3, NowFields DEF ServeChanges
  <2>. QED
    BY <2>1, <2>6, <2>7, BecomeFit DEF t, e
<1>3. CASE AvailableAt(Now, o, p) = {}
  <2>1. PICK t \in Enqueue(Now, o, p, {l}) : Become(t)
    BY <1>3 DEF GetSession, BecomeOneOf
  <2>2. Accounted(Now, None, {l}) /\ Now.status[l] = "idle"
    BY <1>1, NowFields DEF Idle, Accounted, Listening
  <2>3. Good(Now) /\ Attended(Now) /\ Now.relay = None
    BY <1>1 DEF Idle
  <2>4. Fit(t, None, None)
    BY <1>1, <1>3, <2>1, <2>2, <2>3, EnqueueFit
  <2>5. t.relay = None
    BY <2>1, <2>2, <2>3, EnqueueAccounted
  <2>. QED
    BY <2>1, <2>4, <2>5, BecomeFit
<1>. QED
  BY <1>2, <1>3

\* Only what became of the callers changes, and nobody starts to wait.
LEMMA StatusQuiets ==
  ASSUME NEW st \in StateType, NEW t, SameButStatus(st, t),
         \A l \in Listeners : t.status[l] \in {"waiting", "holding", "idle"} => t.status[l] = st.status[l]
  PROVE  /\ Quiets(st, t) /\ Decides(st, t) /\ SameOrder(st, t)
         /\ AtLimit(st) => AtLimit(t)
<1>1. /\ t.queue = st.queue /\ t.phase = st.phase /\ t.destroyed = st.destroyed
      /\ t.sessions = st.sessions /\ t.sessionCount = st.sessionCount
      /\ t.currentStreamCount = st.currentStreamCount
      /\ t.maxConcurrentStreams = st.maxConcurrentStreams /\ t.originSet = st.originSet
      /\ t.listeners = st.listeners /\ t.given = st.given
      /\ t.life = st.life /\ t.gracefullyClosing = st.gracefullyClosing
  BY DEF SameButStatus, SameFiles, SameKeys, SamePool, SameStreams, SameCapacity
<1>2. Vacant(t) = Vacant(st) /\ Unstarted(t) = Unstarted(st)
  BY <1>1 DEF Vacant, Unused, Unstarted
<1>3. Quiets(st, t)
  BY <1>1, <1>2 DEF Quiets, Listed, Usable, Accepting, IsFree
<1>. QED
  BY <1>1, <1>2, <1>3 DEF Decides, SameOrder, AtLimit

LEMMA RejectServernameFit ==
  ASSUME SInv, NEW l \in Listeners, RejectServername(l)
  PROVE  Fit(Now', relay', None)
<1>. DEFINE t == [Now EXCEPT !.status[l] = "rejected"]
<1>1. relay = None /\ Now \in StateType /\ Fit(Now, None, None) /\ Become(t)
  BY FitNow DEF RejectServername
<1>2. SameButStatus(Now, t) /\ t.status = [Now.status EXCEPT ![l] = "rejected"]
  BY <1>1, RestatusFields
<1>3. Now.status \in [Listeners -> Statuses]
  BY <1>1 DEF StateType
<1>. HIDE DEF t
<1>4. \A m \in Listeners : t.status[m] \in {"waiting", "holding", "idle"} => t.status[m] = Now.status[m]
  BY <1>2, <1>3
<1>5. Fit(t, None, None)
  BY <1>1, <1>2, <1>4, StatusQuiets, QuietsFit
<1>6. t.relay = None
  BY <1>1, <1>2, NowFields DEF SameButStatus
<1>. QED
  BY <1>1, <1>5, <1>6, BecomeFit

LEMMA FirstSettingsRefusedFit ==
  ASSUME SInv, NEW e \in Entries, FirstSettingsRefused(e)
  PROVE  Fit(Now', relay', None)
<1>. DEFINE u == Reject(Now, listeners[e])
            t == Destroy(u, {e})
<1>1. relay = None /\ Idle(Now) /\ Now \in StateType /\ Fit(Now, None, None) /\ Become(t)
  BY FitNow DEF FirstSettingsRefused
<1>2. SameButStatus(Now, u) /\ u.status = [l \in Listeners |->
              IF l \in listeners[e] /\ Now.status[l] = "waiting" THEN "rejected" ELSE Now.status[l]]
  BY <1>1, RejectFields
<1>3. u \in StateType
  BY <1>1, RejectGood DEF Idle, Good
<1>. HIDE DEF u
<1>4. Fit(u, None, None)
  BY <1>1, <1>2, StatusQuiets, QuietsFit
<1>5. Shuts(u, t)
  BY <1>3, DestroyShuts
<1>. HIDE DEF t
<1>6. Fit(t, None, None) /\ t.relay = None
  BY <1>1, <1>2, <1>3, <1>4, <1>5, ShutsFit, NowFields DEF Fit, Shuts, SameButStatus
<1>. QED
  BY <1>1, <1>6, BecomeFit

\* A caller of getSession() opens the stream itself.
LEMMA UserRequestFit ==
  ASSUME SInv, NEW l \in Listeners, UserRequest(l)
  PROVE  Fit(Now', relay', None)
<1>. DEFINE e == given[l]
<1>1. /\ relay = None /\ Idle(Now) /\ Now \in StateType /\ Fit(Now, None, None)
      /\ Now.status[l] = "holding" /\ Now.given[l] = e
  BY FitNow, NowFields DEF UserRequest
<1>2. e \in Entries /\ Now.status \in [Listeners -> Statuses]
  BY <1>1 DEF Idle, Good, Holding, HasSession, StateType
<1>3. CASE ~Accepting(Now, e)
  <2>. DEFINE t == [Now EXCEPT !.status[l] = "refused"]
  <2>1. Become(t)
    BY <1>3 DEF UserRequest
  <2>2. SameButStatus(Now, t) /\ t.status = [Now.status EXCEPT ![l] = "refused"]
    BY <1>1, RestatusFields
  <2>. HIDE DEF t
  <2>3. \A m \in Listeners : t.status[m] \in {"waiting", "holding", "idle"} => t.status[m] = Now.status[m]
    BY <1>2, <2>2
  <2>4. Fit(t, None, None)
    BY <1>1, <2>2, <2>3, StatusQuiets, QuietsFit
  <2>5. t.relay = None
    BY <1>1, <2>2, NowFields DEF SameButStatus
  <2>. QED
    BY <2>1, <2>4, <2>5, BecomeFit
<1>4. CASE Accepting(Now, e)
  <2>. DEFINE u == OpenStreams(Now, e, 1)
              t == [u EXCEPT !.status[l] = "streaming"]
  <2>1. Become(t)
    BY <1>4 DEF UserRequest
  <2>2. /\ u \in StateType
        /\ SameFiles(Now, u) /\ SameKeys(Now, u) /\ SamePool(Now, u) /\ SameCapacity(Now, u)
        /\ u.relay = Now.relay /\ u.listeners = Now.listeners /\ u.status = Now.status
        /\ u.given = Now.given
        /\ u.currentStreamCount = [Now.currentStreamCount EXCEPT ![e] = @ + 1]
    BY <1>1, <1>2, OpenStreamsFields
  <2>3. u.life = Now.life /\ u.gracefullyClosing = Now.gracefullyClosing
    BY DEF OpenStreams, Now
  <2>. HIDE DEF u
  <2>4. SameButStatus(u, t) /\ t.status = [u.status EXCEPT ![l] = "streaming"]
    BY <2>2, RestatusFields
  <2>. HIDE DEF t
  <2>5. /\ t.queue = Now.queue /\ t.phase = Now.phase /\ t.destroyed = Now.destroyed
        /\ t.sessions = Now.sessions /\ t.sessionCount = Now.sessionCount
        /\ t.currentStreamCount = [Now.currentStreamCount EXCEPT ![e] = @ + 1]
        /\ t.maxConcurrentStreams = Now.maxConcurrentStreams /\ t.originSet = Now.originSet
        /\ t.listeners = Now.listeners /\ t.given = Now.given /\ t.relay = None
        /\ t.life = Now.life /\ t.gracefullyClosing = Now.gracefullyClosing
    BY <1>1, <2>2, <2>3, <2>4, NowFields
       DEF SameButStatus, SameFiles, SameKeys, SamePool, SameStreams, SameCapacity
  <2>6. \A m \in Listeners : t.status[m] = IF m = l THEN "streaming" ELSE Now.status[m]
    BY <1>2, <2>2, <2>4
  <2>7. \A x \in Entries : /\ t.currentStreamCount[x] \in Nat /\ Now.currentStreamCount[x] \in Nat
                           /\ t.currentStreamCount[x] >= Now.currentStreamCount[x]
    <3>1. Streaming(Now) /\ 1 \in Nat
      BY <1>1 DEF Idle, Accounted
    <3>. QED
      BY <1>1, <1>2, <2>5, <3>1, MoreStreams
  <2>8. Vacant(t) \subseteq Vacant(Now) /\ Unstarted(t) = Unstarted(Now)
    BY <2>5, <2>7 DEF Vacant, Unused, Unstarted
  <2>9. \A s \in Entries : Usable(t, s) => Usable(Now, s)
    <3>1. Now.maxConcurrentStreams \in [Entries -> Nat]
      BY <1>1 DEF StateType
    <3>. QED
      BY <2>5, <2>7, <3>1 DEF Usable, Accepting, IsFree
  <2>10. \A p \in Options : Listed(t, p) = Listed(Now, p) /\ Listed(Now, p) \subseteq Entries
    BY <1>1, <2>5, ListedEntries DEF Listed
  <2>11. Quiets(Now, t)
    BY <2>5, <2>6, <2>8, <2>9, <2>10 DEF Quiets
  <2>12. Decides(Now, t) /\ SameOrder(Now, t) /\ (AtLimit(Now) => AtLimit(t))
    BY <2>5, <2>6, <2>8 DEF Decides, SameOrder, AtLimit
  <2>13. Fit(t, None, None)
    BY <1>1, <2>11, <2>12, QuietsFit
  <2>. QED
    BY <2>1, <2>5, <2>13, BecomeFit
<1>. QED
  BY <1>3, <1>4

LEMMA ConnectedFit == ASSUME SInv, NEW e \in Entries, Connected(e) PROVE Fit(Now', relay', None)
<1>. DEFINE t == [Now EXCEPT !.phase[e] = "connected"]
<1>1. /\ relay = None /\ Now \in StateType /\ Fit(Now, None, None) /\ Become(t)
      /\ Now.phase[e] = "connecting"
  BY FitNow, NowFields DEF Connected
<1>2. /\ t.queue = Now.queue /\ t.destroyed = Now.destroyed
      /\ t.sessions = Now.sessions /\ t.sessionCount = Now.sessionCount
      /\ t.currentStreamCount = Now.currentStreamCount
      /\ t.maxConcurrentStreams = Now.maxConcurrentStreams /\ t.originSet = Now.originSet
      /\ t.listeners = Now.listeners /\ t.given = Now.given /\ t.status = Now.status
      /\ t.life = Now.life /\ t.gracefullyClosing = Now.gracefullyClosing /\ t.relay = Now.relay
      /\ t.phase = [Now.phase EXCEPT ![e] = "connected"]
  BY DEF Now
<1>3. Now.phase \in [Entries -> Phases]
  BY <1>1 DEF StateType
<1>. HIDE DEF t
<1>4. \A x \in Entries : /\ t.phase[x] = "ready" <=> Now.phase[x] = "ready"
                         /\ t.phase[x] = "queued" <=> Now.phase[x] = "queued"
  BY <1>1, <1>2, <1>3
<1>5. Vacant(t) = Vacant(Now) /\ Unstarted(t) = Unstarted(Now)
  BY <1>2, <1>4 DEF Vacant, Unused, Unstarted
<1>6. Quiets(Now, t)
  BY <1>2, <1>5 DEF Quiets, Listed, Usable, Accepting, IsFree
<1>7. Decides(Now, t) /\ SameOrder(Now, t) /\ (AtLimit(Now) => AtLimit(t))
  BY <1>2, <1>5 DEF Decides, SameOrder, AtLimit
<1>8. Fit(t, None, None) /\ t.relay = None
  BY <1>1, <1>2, <1>6, <1>7, QuietsFit, NowFields
<1>. QED
  BY <1>1, <1>8, BecomeFit

\* Nobody waits in an empty queue.
LEMMA AgentDestroyFit == ASSUME SInv, AgentDestroy PROVE Fit(Now', relay', None)
<1>. DEFINE u == Destroy(Now, UNION {Listed(Now, p) : p \in Options})
            F == UNION {InQueue(Now, p) : p \in Options}
            D == u.destroyed \cup F
            Q == [p \in Options |-> [o \in Origins |-> None]]
            K == [p \in Options |-> 0]
            t == [u EXCEPT !.destroyed = D, !.queue = Q, !.kLength = K]
<1>1. relay = None /\ Now \in StateType /\ Idle(Now) /\ Fit(Now, None, None) /\ Become(t)
  BY FitNow DEF AgentDestroy
<1>2. Shuts(Now, u) /\ SameAccounts(Now, u)
  BY <1>1, DestroyShuts, DestroySame
<1>3. Calm(u, None, None)
  BY <1>1, <1>2, ShutsFit DEF Fit
<1>4. /\ t.queue = Q /\ t.destroyed = D /\ t.phase = u.phase
      /\ t.sessions = u.sessions /\ t.sessionCount = u.sessionCount
      /\ t.currentStreamCount = u.currentStreamCount
      /\ t.maxConcurrentStreams = u.maxConcurrentStreams /\ t.originSet = u.originSet
      /\ t.listeners = u.listeners /\ t.given = u.given /\ t.status = u.status
      /\ t.life = u.life /\ t.gracefullyClosing = u.gracefullyClosing /\ t.relay = u.relay
  BY DEF Destroy, Now
<1>5. Q = [p \in Options |-> [o \in Origins |-> None]]
  OBVIOUS
<1>6. Unstarted(t) = {}
  <2>1. SUFFICES ASSUME NEW x \in Entries, t.phase[x] = "queued", x \notin t.destroyed PROVE FALSE
    BY DEF Unstarted
  <2>2. Now.phase[x] = "queued" /\ x \notin Now.destroyed /\ x \notin F
    <3>1. u.phase = Now.phase /\ u.destroyed = Now.destroyed
      BY <1>2 DEF SameAccounts, SameKeys
    <3>. HIDE DEF u, F
    <3>. QED
      BY <1>4, <2>1, <3>1
  <2>3. Now.queue[Now.options[x]][Now.origin[x]] = x
    BY <1>1, <2>2 DEF Idle, Accounted, Filed, Pending
  <2>4. Now.options[x] \in Options /\ Now.origin[x] \in Origins
    BY <1>1, <2>2, ReadyKeyed DEF Idle
  <2>. QED
    BY <2>2, <2>3, <2>4, NoneAssumption DEF InQueue
<1>. HIDE DEF u, Q, F, D, t
<1>7. AtLimit(t)
  BY <1>6 DEF AtLimit
<1>8. Awake(t, None)
  <2>1. \A p \in Options, o \in Origins : t.queue[p][o] = None
    BY <1>4, <1>5
  <2>. QED
    BY <2>1 DEF Awake
<1>9. Vacant(t) = Vacant(u)
  BY <1>4 DEF Vacant, Unused
<1>10. FewVacant(t, None) /\ Ordered(t) /\ Decided(t)
  BY <1>3, <1>4, <1>9 DEF Calm, FewVacant, Ordered, Decided
<1>11. Fit(t, None, None) /\ t.relay = None
  BY <1>1, <1>2, <1>4, <1>7, <1>8, <1>10, NowFields DEF Fit, Calm, Shuts
<1>. QED
  BY <1>1, <1>11, BecomeFit

LEMMA ConnectFailedFit == ASSUME SInv, NEW e \in Entries, ConnectFailed(e) PROVE Fit(Now', relay', None)
<1>1. PICK v : Ended(Now, v, e) /\ Idle(v) /\ Become(v)
  BY ConnectFailedSteps DEF SInv
<1>2. /\ "connectError" \in Environment /\ relay = None /\ Idle(Now) /\ Fit(Now, None, None)
      /\ Now.phase[e] = "connecting"
  BY FitNow, NowFields DEF ConnectFailed
<1>3. Calm(v, None, None)
  BY <1>1, <1>2, EndedCalm DEF Idle, Fit
<1>4. AtLimit(v)
  BY <1>2 DEF AtLimit
<1>5. v.relay = None
  BY <1>1 DEF Idle
<1>. QED
  BY <1>1, <1>3, <1>4, <1>5, BecomeFit DEF Fit

\* The handler of a session that closed runs the queue.
LEMMA ProcessQueueBecome ==
  ASSUME NEW v, Idle(v), Calm(v, None, None), BecomeOneOf(ProcessQueue(v))
  PROVE  Fit(Now', relay', None)
<1>1. PICK t \in ProcessQueue(v) : Become(t)
  BY DEF BecomeOneOf
<1>2. Fit(t, None, None)
  BY ProcessQueueFit DEF Idle
<1>3. t.relay = None
  BY ProcessQueueIdle DEF Idle
<1>. QED
  BY <1>1, <1>2, <1>3, BecomeFit

LEMMA SessionClosedFit == ASSUME SInv, NEW e \in Entries, SessionClosed(e) PROVE Fit(Now', relay', None)
<1>1. relay = None /\ Idle(Now) /\ Fit(Now, None, None)
  BY FitNow DEF SessionClosed
<1>2. Good(Now) /\ Accounted(Now, None, {}) /\ Calm(Now, None, None)
  BY <1>1 DEF Idle, Fit
<1>3. ASSUME NEW i \in 1..Len(sessions[options[e]]), NEW u, NEW v, phase[e] = "ready",
             sessions[options[e]][i] = e, LeftPool(Now, u, e, i), Forgotten(u, v, {e}, "closed"),
             Idle(v), BecomeOneOf(ProcessQueue(v))
      PROVE  Fit(Now', relay', None)
  <2>1. /\ Now.phase[e] = "ready" /\ i \in 1..Len(Now.sessions[Now.options[e]])
        /\ Now.sessions[Now.options[e]][i] = e
    BY <1>3, NowFields
  <2>2. Calm(v, None, None)
    BY <1>2, <1>3, <2>1, LeftPoolCalm
  <2>. QED
    BY <1>3, <2>2, ProcessQueueBecome
<1>4. ASSUME NEW v, phase[e] = "connected", Ended(Now, v, e), Idle(v), BecomeOneOf(ProcessQueue(v))
      PROVE  Fit(Now', relay', None)
  <2>1. Now.phase[e] \in {"connecting", "connected"}
    BY <1>4, NowFields
  <2>2. Calm(v, None, None)
    BY <1>2, <1>4, <2>1, EndedCalm
  <2>. QED
    BY <1>4, <2>2, ProcessQueueBecome
<1>. QED
  BY <1>3, <1>4, SessionClosedSteps DEF SInv

LEMMA RelayedFit ==
  ASSUME NEW st, NEW t, NEW q, Relayed(st, t, q), NEW r, NEW b, Fit(st, r, b)
  PROVE  Fit(t, r, b)
<1>1. /\ t.queue = st.queue /\ t.phase = st.phase /\ t.destroyed = st.destroyed
      /\ t.sessions = st.sessions /\ t.sessionCount = st.sessionCount
      /\ t.currentStreamCount = st.currentStreamCount
      /\ t.maxConcurrentStreams = st.maxConcurrentStreams /\ t.originSet = st.originSet
      /\ t.listeners = st.listeners /\ t.given = st.given /\ t.status = st.status
      /\ t.life = st.life /\ t.gracefullyClosing = st.gracefullyClosing
  BY DEF Relayed, SameAccounts, SameFiles, SameKeys, SamePool, SameStreams, SameCallers, SameCapacity
<1>2. Vacant(t) = Vacant(st) /\ Unstarted(t) = Unstarted(st)
  BY <1>1 DEF Vacant, Unused, Unstarted
<1>3. Awake(t, b)
  BY <1>1 DEF Fit, Calm, Awake, Listed, Usable, Accepting, IsFree
<1>. QED
  BY <1>1, <1>2, <1>3 DEF Fit, Calm, AtLimit, FewVacant, Ordered, Decided

LEMMA AfterAcceptBecome ==
  ASSUME NEW st, Idle(st), NEW e \in Entries, Fit(st, e, None), BecomeOneOf(AfterAccept(st, e))
  PROVE  Fit(Now', relay', None)
<1>1. PICK t \in AfterAccept(st, e) : Become(t)
  BY DEF BecomeOneOf
<1>2. Fit(t, None, None)
  BY AfterAcceptFit
<1>3. t.relay = None
  BY AfterAcceptIdle DEF Idle
<1>. QED
  BY <1>1, <1>2, <1>3, BecomeFit

LEMMA ServeFit ==
  ASSUME NEW st, Good(st), NEW q, NEW W, Accounted(st, q, W), NEW s \in Entries, NEW T, NEW t,
         ServeChanges(st, t, s, T), NEW e, t.listeners = [st.listeners EXCEPT ![e] = @ \ T],
         NEW r, NEW b, Fit(st, r, b)
  PROVE  Fit(t, r, b)
<1>1. st \in StateType /\ Streaming(st) /\ st.listeners \in [Entries -> SUBSET Listeners]
  BY DEF Good, Accounted, StateType
<1>2. \A x \in Entries : t.listeners[x] \subseteq st.listeners[x]
  BY <1>1
<1>. QED
  BY <1>1, <1>2, ServeQuiets, QuietsFit

LEMMA FirstSettingsFit ==
  ASSUME SInv, NEW e \in Entries, NEW n \in Limits, NEW plain \in BOOLEAN, FirstSettings(e, n, plain)
  PROVE  Fit(Now', relay', None)
<1>. DEFINE O == FirstOriginSet(e, plain)
<1>1. PICK i \in SortedIndexes(Now, options[e], n), T \in SUBSET listeners[e] :
         \E u, entered, served :
           /\ FirstServed(e, n, O, i, T, u, entered, served)
           /\ \/ T = listeners[e] /\ Idle(served) /\ BecomeOneOf(AfterAccept(served, e))
              \/ /\ T # listeners[e] /\ Good(served)
                 /\ \E t : Relayed(served, t, e) /\ RelayReady(t, e) /\ Become(t)
  BY FirstSettingsSteps DEF SInv
<1>2. PICK u, entered, served :
        /\ FirstServed(e, n, O, i, T, u, entered, served)
        /\ \/ Idle(served) /\ BecomeOneOf(AfterAccept(served, e))
           \/ \E t : Relayed(served, t, e) /\ RelayReady(t, e) /\ Become(t)
  BY <1>1
<1>3. /\ Good(Now) /\ Accounted(Now, None, {}) /\ Fit(Now, None, None)
      /\ Now.phase[e] = "connected" /\ e \notin Now.destroyed
  <2>1. relay = None /\ phase[e] = "connected" /\ e \notin destroyed
    BY DEF FirstSettings
  <2>2. e \notin Now.destroyed
    BY <2>1 DEF Now
  <2>. QED
    BY <2>1, <2>2, FitNow, NowFields DEF Idle
<1>4. n \in Nat /\ O \in SUBSET {Now.origin[e]} /\ i \in SortedIndexes(Now, Now.options[e], n)
  BY EnvironmentAssumption, NowFields DEF FirstOriginSet
<1>. HIDE DEF O
<1>5. Fit(entered, e, None)
  <2>1. /\ SameButQueue(Now, u)
        /\ \A q \in Options, o \in Origins :
             u.queue[q][o] = IF Now.queue[q][o] = e THEN None ELSE Now.queue[q][o]
        /\ Entered(u, entered, e, i, n, O)
    BY <1>2 DEF FirstServed
  <2>. QED
    BY <1>3, <1>4, <2>1, EnterPoolFit
<1>6. Fit(served, e, None)
  <2>1. /\ Good(entered) /\ Accounted(entered, e, {}) /\ ServeChanges(entered, served, e, T)
        /\ served.listeners = [entered.listeners EXCEPT ![e] = @ \ T]
    BY <1>2 DEF FirstServed
  <2>. QED
    BY <1>5, <2>1, ServeFit
<1>7. CASE Idle(served) /\ BecomeOneOf(AfterAccept(served, e))
  BY <1>6, <1>7, AfterAcceptBecome
<1>8. ASSUME NEW t, Relayed(served, t, e), RelayReady(t, e), Become(t)
      PROVE  Fit(Now', relay', None)
  <2>1. Fit(t, t.relay, None)
    BY <1>6, <1>8, RelayedFit DEF RelayReady
  <2>. QED
    BY <1>8, <2>1, BecomeFit
<1>. QED
  BY <1>2, <1>7, <1>8

LEMMA TakenOutQuiets ==
  ASSUME NEW st \in StateType, NEW t, NEW e, TakenOut(st, t, e)
  PROVE  /\ Quiets(st, t) /\ Decides(st, t) /\ SameOrder(st, t)
         /\ AtLimit(st) => AtLimit(t)
<1>1. /\ t.queue = st.queue /\ t.phase = st.phase /\ t.destroyed = st.destroyed
      /\ t.sessions = st.sessions /\ t.sessionCount = st.sessionCount
      /\ t.currentStreamCount = st.currentStreamCount
      /\ t.maxConcurrentStreams = st.maxConcurrentStreams /\ t.originSet = st.originSet
      /\ t.given = st.given /\ t.status = st.status
      /\ t.life = st.life /\ t.gracefullyClosing = st.gracefullyClosing
  BY DEF TakenOut, SameFiles, SameKeys, SamePool, SameStreams, SameCallers, SameCapacity
<1>2. \A x \in Entries : t.listeners[x] \subseteq st.listeners[x]
  BY DEF TakenOut, StateType
<1>3. Vacant(t) = Vacant(st) /\ Unstarted(t) = Unstarted(st)
  BY <1>1 DEF Vacant, Unused, Unstarted
<1>4. Quiets(st, t)
  BY <1>1, <1>2, <1>3 DEF Quiets, Listed, Usable, Accepting, IsFree
<1>. QED
  BY <1>1, <1>3, <1>4 DEF Decides, SameOrder, AtLimit

LEMMA RelayFit == ASSUME SInv, NEW e \in Entries, Relay(e) PROVE Fit(Now', relay', None)
<1>. DEFINE o == origin[e]
            p == options[e]
<1>1. /\ relay = e /\ Good(Now) /\ Accounted(Now, e, {}) /\ Now \in StateType /\ Fit(Now, e, None)
      /\ o \in Origins /\ p \in Options /\ listeners[e] # {} /\ listeners[e] \in SUBSET Listeners
  BY RelaySteps DEF SInv, Good
<1>2. ASSUME NEW i \in AvailableAt(Now, o, p), NEW T \in SUBSET listeners[e], NEW served,
             HasSession(Now, sessions[p][i]), ServeChanges(Now, served, sessions[p][i], T),
             served.listeners = [Now.listeners EXCEPT ![e] = @ \ T],
             \/ \E t : Relayed(served, t, None) /\ Idle(t) /\ BecomeOneOf(AfterAccept(t, e))
             \/ RelayReady(served, e) /\ Become(served)
      PROVE  Fit(Now', relay', None)
  <2>1. Fit(served, e, None)
    BY <1>1, <1>2, ServeFit DEF HasSession
  <2>2. CASE RelayReady(served, e) /\ Become(served)
    BY <2>1, <2>2, BecomeFit DEF RelayReady
  <2>3. ASSUME NEW t, Relayed(served, t, None), Idle(t), BecomeOneOf(AfterAccept(t, e))
        PROVE  Fit(Now', relay', None)
    BY <2>1, <2>3, RelayedFit, AfterAcceptBecome
  <2>. QED
    BY <1>2, <2>2, <2>3
<1>3. ASSUME NEW v, NEW t, AvailableAt(Now, o, p) = {}, TakenOut(Now, v, e), Good(v), Attended(v),
             Accounted(v, None, listeners[e]),
             \A l \in listeners[e] : v.status[l] \in {"waiting", "rejected"},
             t \in Enqueue(v, o, p, listeners[e]), Idle(t), BecomeOneOf(AfterAccept(t, e))
      PROVE  Fit(Now', relay', None)
  <2>1. Fit(v, e, None)
    BY <1>1, <1>3, TakenOutQuiets, QuietsFit
  <2>2. AvailableAt(v, o, p) = {}
    <3>1. /\ v.sessions = Now.sessions /\ v.originSet = Now.originSet /\ v.life = Now.life
          /\ v.currentStreamCount = Now.currentStreamCount
          /\ v.maxConcurrentStreams = Now.maxConcurrentStreams
          /\ v.gracefullyClosing = Now.gracefullyClosing
      BY <1>3 DEF TakenOut, SamePool, SameStreams, SameCapacity
    <3>. HIDE DEF o, p
    <3>2. AvailableAt(v, o, p) = AvailableAt(Now, o, p)
      BY <3>1, Zenon DEF AvailableAt, Available, IsFree
    <3>. QED
      BY <1>3, <3>2
  <2>3. Fit(t, e, None)
    <3>. DEFINE W == listeners[e]
    <3>1. \A l \in W : v.status[l] \in {"idle", "waiting", "rejected"}
      BY <1>3
    <3>2. /\ W \in SUBSET Listeners /\ W # {} /\ Accounted(v, None, W) /\ t \in Enqueue(v, o, p, W)
          /\ o \in Origins /\ p \in Options
      BY <1>1, <1>3
    <3>. HIDE DEF W, o, p
    <3>. QED
      BY <1>3, <2>1, <2>2, <3>1, <3>2, EnqueueFit
  <2>. QED
    BY <1>3, <2>3, AfterAcceptBecome
<1>4. \/ \E i \in AvailableAt(Now, o, p), T \in SUBSET listeners[e] : \E served :
           /\ HasSession(Now, sessions[p][i]) /\ ServeChanges(Now, served, sessions[p][i], T)
           /\ served.listeners = [Now.listeners EXCEPT ![e] = @ \ T]
           /\ \/ \E t : Relayed(served, t, None) /\ Idle(t) /\ BecomeOneOf(AfterAccept(t, e))
              \/ RelayReady(served, e) /\ Become(served)
      \/ /\ AvailableAt(Now, o, p) = {}
         /\ \E v, t : /\ TakenOut(Now, v, e) /\ Good(v) /\ Attended(v)
                      /\ Accounted(v, None, listeners[e])
                      /\ \A l \in listeners[e] : v.status[l] \in {"waiting", "rejected"}
                      /\ t \in Enqueue(v, o, p, listeners[e])
                      /\ Idle(t) /\ BecomeOneOf(AfterAccept(t, e))
  BY RelaySteps DEF SInv
<1>. HIDE DEF o, p
<1>. QED
  BY <1>2, <1>3, <1>4

\* A handler that changed what session e offers goes on to serve with it.
LEMMA ServeOthersBecome ==
  ASSUME NEW st, Idle(st), NEW e \in Entries, st.phase[e] = "ready", Fit(st, None, e),
         NEW T \in SUBSET WaitingFor(st, e), ServesOthers(st, e, T)
  PROVE  Fit(Now', relay', None)
<1>. DEFINE served == ProcessListeners(st, e, T)
            t == IF IsFree(served, e) THEN CloseCoveredSessions(served, e) ELSE served
<1>1. ServesInTurn(st, e, T) /\ Become(t)
  BY DEF ServesOthers
<1>2. Idle(served) /\ served.phase[e] = "ready" /\ Idle(t)
  BY ProcessListenersIdle, ServeOthersIdle
<1>3. ListenersServed(st, served, e, T)
  BY ProcessListenersAccounted DEF Idle
<1>. HIDE DEF served
<1>4. Fit(served, None, None)
  BY <1>1, <1>3, ListenersServedAwake DEF Idle
<1>5. Shuts(served, CloseCoveredSessions(served, e))
  BY <1>2, CloseCoveredSessionsShuts DEF Idle
<1>6. Fit(t, None, None)
  BY <1>2, <1>4, <1>5, ShutsFit DEF Fit, Idle, Good
<1>7. t.relay = None
  BY <1>2 DEF Idle
<1>. HIDE DEF t
<1>. QED
  BY <1>1, <1>6, <1>7, BecomeFit

LEMMA UnusableBecome ==
  ASSUME NEW st, NEW e, Fit(st, None, e), ~Usable(st, e), st.relay = None, Become(st)
  PROVE  Fit(Now', relay', None)
<1>1. Fit(st, None, None)
  BY AwakeAll DEF Fit, Calm
<1>. QED
  BY <1>1, BecomeFit

LEMMA OffersFit ==
  ASSUME NEW st, Good(st), NEW t, SameAccounts(st, t), NEW e, SameOffers(st, t, e),
         "settings" \in Environment \/ t.maxConcurrentStreams = st.maxConcurrentStreams,
         Fit(st, None, None)
  PROVE  Fit(t, None, e)
<1>1. /\ t.queue = st.queue /\ t.phase = st.phase /\ t.destroyed = st.destroyed
      /\ t.sessions = st.sessions /\ t.sessionCount = st.sessionCount
      /\ t.currentStreamCount = st.currentStreamCount
      /\ t.listeners = st.listeners /\ t.given = st.given /\ t.status = st.status
      /\ t.life = st.life
  BY DEF SameOffers, SameAccounts, SameFiles, SameKeys, SamePool, SameStreams, SameCallers
<1>2. Vacant(t) = Vacant(st) /\ Unstarted(t) = Unstarted(st)
  BY <1>1 DEF Vacant, Unused, Unstarted
<1>3. ASSUME NEW s \in Entries \ {e}
      PROVE  t.originSet[s] = st.originSet[s] /\ (Usable(t, s) => Usable(st, s))
  <2>1. /\ t.originSet[s] = st.originSet[s]
        /\ t.maxConcurrentStreams[s] = st.maxConcurrentStreams[s]
    BY DEF SameOffers
  <2>2. s \in t.gracefullyClosing <=> s \in st.gracefullyClosing
    BY DEF SameOffers
  <2>. QED
    BY <1>1, <2>1, <2>2 DEF Usable, Accepting, IsFree
<1>4. Awake(t, e)
  <2>1. \A p \in Options : Listed(t, p) = Listed(st, p) /\ Listed(st, p) \subseteq Entries
    BY <1>1, ListedEntries DEF Listed, Good
  <2>2. \A s \in Entries : s # None
    BY NoneAssumption
  <2>. QED
    BY <1>1, <1>3, <2>1, <2>2 DEF Fit, Calm, Awake
<1>5. Ordered(t)
  BY <1>1 DEF Fit, Calm, Ordered
<1>. QED
  BY <1>1, <1>2, <1>4, <1>5 DEF Fit, Calm, AtLimit, FewVacant, Decided

LEMMA SettingsUpdateFit ==
  ASSUME SInv, NEW e \in Entries, NEW n \in Limits, SettingsUpdate(e, n)
  PROVE  Fit(Now', relay', None)
<1>1. PICK st : /\ SameAccounts(Now, st) /\ SameOffers(Now, st, e) /\ Idle(st) /\ st.phase[e] = "ready"
                /\ \/ ~IsFree(st, e) /\ Become(st)
                   \/ \E T \in SUBSET WaitingFor(st, e) : ServesOthers(st, e, T)
  BY SettingsUpdateSteps DEF SInv
<1>2. "settings" \in Environment /\ Good(Now) /\ Fit(Now, None, None)
  BY FitNow DEF SettingsUpdate, Idle
<1>3. Fit(st, None, e)
  BY <1>1, <1>2, OffersFit
<1>4. CASE ~IsFree(st, e) /\ Become(st)
  BY <1>1, <1>3, <1>4, UnusableBecome DEF Usable, Idle
<1>5. CASE \E T \in SUBSET WaitingFor(st, e) : ServesOthers(st, e, T)
  BY <1>1, <1>3, <1>5, ServeOthersBecome
<1>. QED
  BY <1>1, <1>4, <1>5

LEMMA OriginFrameFit ==
  ASSUME SInv, NEW e \in Entries, NEW frame \in OriginFrames, OriginFrame(e, frame)
  PROVE  Fit(Now', relay', None)
<1>1. PICK u : /\ SameAccounts(Now, u) /\ SameOffers(Now, u, e) /\ Idle(u)
               /\ u.maxConcurrentStreams = Now.maxConcurrentStreams
               /\ Idle(CloseSessionIfCovered(u, e)) /\ CloseSessionIfCovered(u, e).phase[e] = "ready"
               /\ LET st == CloseSessionIfCovered(u, e)
                  IN  \/ (e \in st.gracefullyClosing \/ ~IsFree(st, e)) /\ Become(st)
                      \/ \E T \in SUBSET WaitingFor(st, e) : ServesOthers(st, e, T)
  BY OriginFrameSteps DEF SInv
<1>. DEFINE st == CloseSessionIfCovered(u, e)
<1>2. Good(Now) /\ Fit(Now, None, None)
  BY FitNow DEF OriginFrame, Idle
<1>3. Fit(u, None, e) /\ Good(u) /\ u \in StateType
  BY <1>1, <1>2, OffersFit DEF Idle, Good
<1>4. Fit(st, None, e)
  <2>1. Shuts(u, st)
    BY <1>3, CloseSessionIfCoveredShuts
  <2>. HIDE DEF st
  <2>. QED
    BY <1>3, <2>1, ShutsFit DEF Fit
<1>5. /\ Idle(st) /\ st.phase[e] = "ready"
      /\ \/ (e \in st.gracefullyClosing \/ ~IsFree(st, e)) /\ Become(st)
         \/ \E T \in SUBSET WaitingFor(st, e) : ServesOthers(st, e, T)
  BY <1>1
<1>. HIDE DEF st
<1>6. CASE (e \in st.gracefullyClosing \/ ~IsFree(st, e)) /\ Become(st)
  BY <1>4, <1>5, <1>6, UnusableBecome DEF Usable, Accepting, Idle
<1>7. CASE \E T \in SUBSET WaitingFor(st, e) : ServesOthers(st, e, T)
  BY <1>4, <1>5, <1>7, ServeOthersBecome
<1>. QED
  BY <1>5, <1>6, <1>7

\* The end of a stream can make its session usable, and vacant.
LEMMA StreamEndedFit ==
  ASSUME NEW st, Idle(st), NEW l \in Listeners, st.status[l] \in {"streaming", "orphan"},
         NEW t \in StateType, StreamEnded(st, t, l), Fit(st, None, None)
  PROVE  /\ AtLimit(t) /\ Awake(t, st.given[l]) /\ Ordered(t) /\ Decided(t)
         /\ Vacant(t) \subseteq Vacant(st) \cup {st.given[l]}
         /\ st.currentStreamCount[st.given[l]] # 1 => Vacant(t) \subseteq Vacant(st)
<1>. DEFINE e == st.given[l]
<1>1. /\ t.queue = st.queue /\ t.phase = st.phase /\ t.destroyed = st.destroyed
      /\ t.sessions = st.sessions /\ t.sessionCount = st.sessionCount
      /\ t.maxConcurrentStreams = st.maxConcurrentStreams /\ t.originSet = st.originSet
      /\ t.listeners = st.listeners
      /\ t.life = st.life /\ t.gracefullyClosing = st.gracefullyClosing
      /\ t.status = [st.status EXCEPT ![l] = "done"] /\ t.given = [st.given EXCEPT ![l] = None]
      /\ t.currentStreamCount = [st.currentStreamCount EXCEPT ![e] = @ - 1]
  BY DEF StreamEnded, SameFiles, SameKeys, SamePool, SameCapacity
<1>2. /\ e \in Entries /\ st.status \in [Listeners -> Statuses]
      /\ st.given \in [Listeners -> Entries \cup {None}]
      /\ st.currentStreamCount \in [Entries -> Int] /\ st \in StateType
  BY StreamEndedAccounted DEF Idle, Good, StateType
<1>3. /\ \A m \in Listeners : t.status[m] = IF m = l THEN "done" ELSE st.status[m]
      /\ \A m \in Listeners : t.given[m] = IF m = l THEN None ELSE st.given[m]
      /\ \A x \in Entries : t.currentStreamCount[x] =
           IF x = e THEN st.currentStreamCount[x] - 1 ELSE st.currentStreamCount[x]
  BY <1>1, <1>2
<1>. HIDE DEF e
<1>4. Unstarted(t) = Unstarted(st) /\ Vacant(t) \subseteq Vacant(st) \cup {e}
  BY <1>1, <1>3 DEF Unstarted, Vacant, Unused
<1>5. st.currentStreamCount[e] # 1 => Vacant(t) \subseteq Vacant(st)
  <2>1. st.currentStreamCount[e] # 1 => e \notin Vacant(t)
    BY <1>2, <1>3 DEF Vacant, Unused
  <2>. QED
    BY <1>4, <2>1
<1>6. Awake(t, e)
  <2>1. \A p \in Options : Listed(t, p) = Listed(st, p) /\ Listed(st, p) \subseteq Entries
    BY <1>1, <1>2, ListedEntries DEF Listed
  <2>2. \A s \in Entries \ {e} : s # None /\ (Usable(t, s) => Usable(st, s))
    BY <1>1, <1>3, NoneAssumption DEF Usable, Accepting, IsFree
  <2>3. \A m \in Listeners : t.status[m] = "waiting" => st.status[m] = "waiting"
    BY <1>3
  <2>4. \A p \in Options, o \in Origins : st.queue[p][o] # None => st.queue[p][o] \in Entries
    BY <1>2 DEF StateType
  <2>5. \A x \in Entries : st.listeners[x] \subseteq Listeners
    BY <1>2 DEF StateType
  <2>6. Awake(st, None)
    BY DEF Fit, Calm
  <2>7. SUFFICES ASSUME NEW p \in Options, NEW o \in Origins, t.queue[p][o] # None,
                        NEW m \in t.listeners[t.queue[p][o]], NEW s \in Listed(t, p),
                        t.status[m] = "waiting", s # e, o \in t.originSet[s]
                 PROVE  ~Usable(t, s)
    BY DEF Awake
  <2>8. st.queue[p][o] # None /\ m \in st.listeners[st.queue[p][o]] /\ m \in Listeners
        /\ s \in Listed(st, p) /\ s \in Entries \ {e} /\ o \in st.originSet[s]
    BY <1>1, <2>1, <2>4, <2>5, <2>7
  <2>9. ~Usable(st, s)
    BY <2>2, <2>3, <2>6, <2>7, <2>8 DEF Awake
  <2>. QED
    BY <2>2, <2>8, <2>9
<1>7. AtLimit(t) /\ Ordered(t)
  BY <1>1, <1>4 DEF Fit, Calm, AtLimit, Ordered
<1>8. Decided(t)
  BY <1>3 DEF Fit, Calm, Decided
<1>. QED
  BY <1>4, <1>5, <1>6, <1>7, <1>8 DEF e

LEMMA StreamCloseFit == ASSUME SInv, NEW l \in Listeners, StreamClose(l) PROVE Fit(Now', relay', None)
<1>. DEFINE e == given[l]
<1>1. PICK st \in StateType :
        /\ StreamEnded(Now, st, l) /\ st.phase = phase
        /\ Accounted(st, None, {}) /\ Attended(st) /\ st.relay = None
        /\ ~ClosesAfter(st, e) => Idle(st)
        /\ ContinuesAfter(st, e)
  BY StreamCloseSteps DEF SInv
<1>2. /\ relay = None /\ e \in Entries /\ phase[e] = "ready" /\ st.phase[e] = "ready"
      /\ Idle(Now) /\ Fit(Now, None, None) /\ Now.status[l] \in {"streaming", "orphan"}
      /\ Now.given[l] = e
  BY <1>1, StreamCloseSteps, FitNow, NowFields DEF SInv
<1>3. /\ AtLimit(st) /\ Awake(st, e) /\ Ordered(st) /\ Decided(st)
      /\ Vacant(st) \subseteq Vacant(Now) \cup {e}
      /\ currentStreamCount[e] # 1 => Vacant(st) \subseteq Vacant(Now)
  BY <1>1, <1>2, StreamEndedFit, NowFields
<1>4. FewVacant(Now, None)
  BY <1>2 DEF Fit, Calm
<1>5. CASE ClosesAfter(st, e)
  <2>. DEFINE t == Close(st, {e})
  <2>1. Become(t) /\ currentStreamCount[e] = 1
    BY <1>1, <1>5 DEF ContinuesAfter, UsableAfter, ClosesAfter
  <2>2. Shuts(st, t)
    BY CloseShuts
  <2>3. t.life[e] # "open" /\ t.relay = None
    <3>1. st.currentStreamCount[e] = 0
      <4>1. Now.currentStreamCount \in [Entries -> Int] /\ Now.currentStreamCount[e] = 1
        BY <1>2, <2>1, NowFields DEF Idle, Good, StateType
      <4>. QED
        BY <1>1, <1>2, <4>1 DEF StreamEnded
    <3>. QED
      BY <1>1, <1>2, <3>1 DEF Close, StateType
  <2>. HIDE DEF t
  <2>4. Vacant(t) \subseteq Vacant(Now)
    <3>1. Vacant(t) \subseteq Vacant(st) /\ e \notin Vacant(t)
      BY <2>2, <2>3 DEF Shuts, SameAccounts, SameKeys, SameStreams, Vacant, Unused
    <3>. QED
      BY <1>3, <3>1
  <2>5. FewVacant(t, None)
    BY <1>4, <2>4, FewerVacant
  <2>6. AtLimit(t) /\ Awake(t, e) /\ Ordered(t) /\ Decided(t)
    <3>1. \E r : FewVacant(st, r)
      <4>1. Vacant(st) \ {e} \subseteq Vacant(Now) \ {None}
        BY <1>3, NoneAssumption DEF Vacant, Unused
      <4>2. Vacant(Now) \ {None} \subseteq Entries
        BY DEF Vacant, Unused
      <4>3. /\ Cardinality(Vacant(st) \ {e}) <= Cardinality(Vacant(Now) \ {None})
            /\ Cardinality(Vacant(st) \ {e}) \in Nat /\ Cardinality(Vacant(Now) \ {None}) \in Nat
        BY <4>1, <4>2, CountSubset
      <4>4. FewVacant(st, e)
        BY <1>4, <4>3, BoundsAssumption DEF FewVacant
      <4>. QED
        BY <4>4
    <3>2. PICK r : Calm(st, r, e)
      BY <1>3, <3>1 DEF Calm
    <3>. QED
      BY <1>3, <2>2, <3>2, ShutsFit DEF Calm
  <2>7. Fit(t, None, None)
    <3>1. ~Usable(t, e)
      BY <2>3 DEF Usable, Accepting
    <3>. QED
      BY <2>5, <2>6, <3>1, AwakeAll DEF Fit, Calm
  <2>. QED
    BY <2>1, <2>3, <2>7, BecomeFit DEF t
<1>6. CASE ~ClosesAfter(st, e)
  <2>1. Idle(st) /\ Good(st)
    BY <1>1, <1>6 DEF Idle
  <2>2. FewVacant(st, None)
    <3>1. CASE currentStreamCount[e] # 1
      BY <1>3, <1>4, <3>1, FewerVacant
    <3>2. CASE currentStreamCount[e] = 1
      <4>1. st.emptySessionCount <= MaxEmptySessions /\ st.emptySessionCount = Cardinality(Unused(st))
        <5>1. ~TooManyEmpty(st) /\ st.emptySessionCount \in Int
          BY <1>6, <3>2 DEF ClosesAfter, StateType
        <5>. QED
          BY <1>1, <5>1, BoundsAssumption DEF TooManyEmpty, Accounted, UnusedCounted
      <4>2. Vacant(st) \ {None} \subseteq Unused(st) /\ Unused(st) \subseteq Entries
        BY DEF Vacant, Unused
      <4>3. /\ Cardinality(Vacant(st) \ {None}) <= Cardinality(Unused(st))
            /\ Cardinality(Vacant(st) \ {None}) \in Nat /\ Cardinality(Unused(st)) \in Nat
        BY <4>2, CountSubset
      <4>. QED
        BY <4>1, <4>3, BoundsAssumption DEF FewVacant
    <3>. QED
      BY <3>1, <3>2
  <2>3. Fit(st, None, e)
    BY <1>3, <2>2 DEF Fit, Calm
  <2>4. CASE ~UsableAfter(st, e)
    <3>1. Become(st)
      BY <1>1, <1>6, <2>4 DEF ContinuesAfter
    <3>2. ~Usable(st, e)
      BY <1>1, <1>6, <2>4, NowFields DEF UsableAfter, Usable, Accepting, StreamEnded
    <3>. QED
      BY <1>1, <2>3, <3>1, <3>2, UnusableBecome
  <2>5. CASE UsableAfter(st, e) /\ IsCovered(st, e)
    <3>. DEFINE t == CloseSessionIfCovered(st, e)
    <3>1. Become(t)
      BY <1>1, <1>6, <2>5 DEF ContinuesAfter
    <3>2. Shuts(st, t) /\ ~Accepting(t, e)
      BY <1>2, <2>1, <2>5, CloseSessionIfCoveredShuts
    <3>3. t.relay = None
      BY <1>1, <3>2 DEF Shuts
    <3>. HIDE DEF t
    <3>4. Fit(t, None, e)
      BY <2>3, <3>2, ShutsFit DEF Fit
    <3>. QED
      BY <3>1, <3>2, <3>3, <3>4, UnusableBecome DEF Usable
  <2>6. CASE UsableAfter(st, e) /\ ~IsCovered(st, e)
    <3>. DEFINE covering == CloseCoveredSessions(st, e)
                served(T) == ProcessListeners(covering, e, T)
    <3>1. PICK T \in SUBSET WaitingFor(st, e) :
            /\ ServesInTurn(covering, e, T)
            /\ BecomeOneOf(IF served(T).currentStreamCount[e] = 0
                           THEN ProcessQueue(served(T)) ELSE {served(T)})
      BY <1>1, <1>6, <2>6 DEF ContinuesAfter
    <3>2. /\ Idle(covering) /\ Good(covering) /\ Accounted(covering, None, {}) /\ Attended(covering)
          /\ WaitingFor(st, e) = WaitingFor(covering, e) /\ covering.phase[e] = "ready"
      <4>1. Idle(covering)
        BY <1>2, <2>1, CloseCoveredSessionsIdle
      <4>2. WaitingFor(st, e) = WaitingFor(covering, e) /\ covering.phase[e] = "ready"
        BY <1>2, <2>1, CoveringWaiting
      <4>. QED
        BY <4>1, <4>2 DEF Idle
    <3>3. Fit(covering, None, e)
      <4>1. Shuts(st, covering)
        BY <1>2, <2>1, CloseCoveredSessionsShuts
      <4>. HIDE DEF covering
      <4>. QED
        BY <2>3, <4>1, ShutsFit DEF Fit
    <3>. HIDE DEF covering
    <3>4. Idle(served(T)) /\ ListenersServed(covering, served(T), e, T)
      BY <1>2, <3>2, ProcessListenersIdle, ProcessListenersAccounted
    <3>. HIDE DEF served
    <3>5. Fit(served(T), None, None)
      BY <1>2, <3>1, <3>2, <3>3, <3>4, ListenersServedAwake
    <3>6. CASE served(T).currentStreamCount[e] = 0
      <4>1. BecomeOneOf(ProcessQueue(served(T)))
        BY <3>1, <3>6
      <4>. QED
        BY <3>4, <3>5, <4>1, ProcessQueueBecome DEF Fit
    <3>7. CASE served(T).currentStreamCount[e] # 0
      <4>1. Become(served(T))
        BY <3>1, <3>7 DEF BecomeOneOf
      <4>. QED
        BY <3>4, <3>5, <4>1, BecomeFit DEF Idle
    <3>. QED
      BY <3>6, <3>7
  <2>. QED
    BY <2>4, <2>5, <2>6
<1>. QED
  BY <1>5, <1>6

------------------------------------------------------------------------------
(* The invariant.                                                           *)

LEMMA InitSInv == Init => SInv
<1>. SUFFICES ASSUME Init PROVE SInv
  OBVIOUS
<1>1. AInv
  BY InitAInv
<1>2. \A e \in Entries : Now.phase[e] = "none"
  BY DEF Init, Now
<1>3. Unstarted(Now) = {} /\ Vacant(Now) = {}
  BY <1>2 DEF Unstarted, Vacant, Unused
<1>4. AtLimit(Now)
  BY <1>3 DEF AtLimit
<1>5. FewVacant(Now, relay)
  <2>1. Vacant(Now) \ {relay} = {}
    BY <1>3
  <2>. QED
    BY <2>1, FS_EmptySet, BoundsAssumption DEF FewVacant
<1>6. Awake(Now, None)
  BY DEF Init, Now, Awake
<1>7. Ordered(Now)
  <2>1. \A p \in Options : Now.sessions[p] = <<>> /\ Len(Now.sessions[p]) = 0
    BY DEF Init, Now
  <2>. QED
    BY <2>1 DEF Ordered
<1>8. Decided(Now)
  BY DEF Init, Now, Decided
<1>. QED
  BY <1>1, <1>4, <1>5, <1>6, <1>7, <1>8 DEF SInv, Fit, Calm

LEMMA NextFit == ASSUME SInv, Next PROVE Fit(Now', relay', None)
<1>1. CASE \E l \in Listeners, o \in Origins, p \in Options : GetSession(l, o, p)
  BY <1>1, GetSessionFit
<1>2. CASE \E l \in Listeners : RejectServername(l) \/ UserRequest(l) \/ StreamClose(l)
  BY <1>2, RejectServernameFit, UserRequestFit, StreamCloseFit
<1>3. CASE CloseEmpty \/ AgentDestroy
  BY <1>3, CloseEmptyFit, AgentDestroyFit
<1>4. CASE \E e \in Entries : Connected(e) \/ ConnectFailed(e) \/ FirstSettingsRefused(e)
  BY <1>4, ConnectedFit, ConnectFailedFit, FirstSettingsRefusedFit
<1>5. CASE \E e \in Entries, n \in Limits : FirstSettings(e, n, FALSE) \/ FirstSettings(e, n, TRUE)
  BY <1>5, FirstSettingsFit
<1>6. CASE \E e \in Entries : Relay(e)
  BY <1>6, RelayFit
<1>7. CASE \E e \in Entries, n \in Limits : SettingsUpdate(e, n)
  BY <1>7, SettingsUpdateFit
<1>8. CASE \E e \in Entries, frame \in OriginFrames : OriginFrame(e, frame)
  BY <1>8, OriginFrameFit
<1>9. CASE \E e \in Entries : SessionClose(e) \/ SessionLost(e) \/ SessionDrained(e) \/ SessionClosed(e)
  BY <1>9, SessionEndsFit, SessionClosedFit
<1>. QED
  BY <1>1, <1>2, <1>3, <1>4, <1>5, <1>6, <1>7, <1>8, <1>9 DEF Next, OtherStep

LEMMA NextSInv == ASSUME SInv, [Next]_vars PROVE SInv'
<1>1. AInv'
  BY NextAInv DEF SInv
<1>2. CASE Next
  BY <1>1, <1>2, NextFit DEF SInv
<1>3. CASE UNCHANGED vars
  <2>1. Now' = Now /\ relay' = relay
    BY <1>3 DEF Now, vars
  <2>. QED
    BY <1>1, <2>1 DEF SInv
<1>. QED
  BY <1>2, <1>3

LEMMA ServiceInvariant == Spec => []SInv
  BY InitSInv, NextSInv, PTL DEF Spec

\* Whichever of the maxEmptySessions checks runs, those of the settings handler
\* and of the last stream's `close' event are enough: between two handlers there
\* are never more open sessions without streams than maxEmptySessions.
THEOREM FewEmptySessions == Spec => []MaxEmptyRespected
<1>1. ASSUME SInv PROVE MaxEmptyRespected
  <2>1. SUFFICES ASSUME relay = None
                 PROVE  Cardinality({e \in AllEmpties(Now) : life[e] = "open"}) <= MaxEmptySessions
    BY DEF MaxEmptyRespected
  <2>2. Now \in StateType /\ Listing(Now) /\ FewVacant(Now, None)
    BY <1>1, <2>1, FitNow DEF Idle, Accounted, Fit, Calm
  <2>3. {e \in AllEmpties(Now) : life[e] = "open"} = Vacant(Now) \ {None}
    BY <2>2, AllEmptiesUnused, NowFields, NoneAssumption DEF Vacant, Unused
  <2>. QED
    BY <2>2, <2>3 DEF FewVacant
<1>. QED
  BY <1>1, ServiceInvariant, PTL

\* Between two handlers nobody waits in the queue for an origin that an open
\* session with room serves: each handler that gives a session room or an origin
\* also serves those who wait for it, and nobody is queued beside such a session.
THEOREM NobodyOverlooked == Spec => []NoMissedWakeup
<1>1. ASSUME SInv PROVE NoMissedWakeup
  <2>1. Awake(Now, None) /\ Now \in StateType
    BY <1>1 DEF SInv, AInv, IInv, Good, Fit, Calm
  <2>2. /\ Now.queue = queue /\ Now.listeners = listeners /\ Now.status = status
        /\ Now.originSet = originSet
    BY DEF Now
  <2>3. \A p \in Options : Listed(Now, p) \subseteq Entries
    BY <2>1, ListedEntries
  <2>4. \A s \in Entries : s # None
    BY NoneAssumption
  <2>. QED
    BY <2>1, <2>2, <2>3, <2>4 DEF NoMissedWakeup, Awake, Usable
<1>. QED
  BY <1>1, ServiceInvariant, PTL

\* Unless connections fail, an entry waits to run only at the session limit:
\* each handler that frees a place or queues an entry runs the queue.
THEOREM EntriesStartInTime == "connectError" \notin Environment => (Spec => []NoIdleCapacity)
<1>1. ASSUME SInv, "connectError" \notin Environment PROVE NoIdleCapacity
  <2>1. AtLimit(Now)
    BY <1>1 DEF SInv, Fit
  <2>2. Now.sessionCount = sessionCount /\ Now.phase = phase /\ Now.destroyed = destroyed
    BY DEF Now
  <2>. QED
    BY <1>1, <2>1, <2>2 DEF AtLimit, Unstarted, NoIdleCapacity
<1>2. SUFFICES ASSUME "connectError" \notin Environment PROVE Spec => []NoIdleCapacity
  OBVIOUS
<1>3. SInv => NoIdleCapacity
  BY <1>1, <1>2
<1>. QED
  BY <1>3, ServiceInvariant, PTL

------------------------------------------------------------------------------
(* What a step does to each caller.                                         *)

Wanted(st, l) ==
  IF st.status[l] = "waiting"
  THEN {<<st.options[x], st.origin[x]>> : x \in {y \in Entries : l \in st.listeners[y]}} ELSE {}

Offered(st, s) == {<<st.options[s], o>> : o \in (st.originSet[s] \cup {st.origin[s]}) \cap Origins}

\* Session s may just have opened a stream.
Took(st, s) ==
  /\ Accepting(st, s) /\ st.currentStreamCount[s] # 0
  /\ st.currentStreamCount[s] <= st.maxConcurrentStreams[s]

Stays(st, t, l) ==
  t.status[l] = st.status[l] /\ t.given[l] = st.given[l] /\ Wanted(t, l) = Wanted(st, l)

Begins(st, t, o, p, l) ==
  /\ st.status[l] = "idle" /\ t.status[l] = "waiting" /\ t.given[l] = st.given[l]
  /\ Wanted(t, l) = {<<p, o>>}

\* Caller l is offered session s: the answer to its call, or too late for one.
ServedBy(st, t, s, l) ==
  /\ t.given[l] = s
  /\ t.status[l] \in {"streaming", "orphan"} => Took(t, s)
  /\ \/ /\ st.status[l] \in {"idle", "waiting"} /\ t.status[l] \in {"holding", "streaming", "refused"}
        /\ Wanted(st, l) \subseteq Offered(t, s)
     \/ st.status[l] = "rejected" /\ t.status[l] \in {"rejected", "orphan"}

Rejects(st, t, l) ==
  st.status[l] \in {"idle", "waiting"} /\ t.status[l] = "rejected" /\ t.given[l] = st.given[l]

\* A session its holder uses directly may be overloaded.
Uses(st, t, l) ==
  /\ st.status[l] = "holding" /\ t.status[l] \in {"streaming", "refused"} /\ t.given[l] = st.given[l]
  /\ t.status[l] = "streaming" => Accepting(st, st.given[l])

Ends(st, t, l) == st.status[l] \in {"streaming", "orphan"} /\ t.status[l] = "done"

\* What a step does to a caller that does not call just now.
CallerStep(st, t, l) ==
  \/ Stays(st, t, l) \/ Rejects(st, t, l) \/ Uses(st, t, l) \/ Ends(st, t, l)
  \/ \E s \in Entries : st.life[s] # "destroyed" /\ st.status[l] # "idle" /\ ServedBy(st, t, s, l)

\* What getSession() does to the caller that asks it for origin o and options p.
Asks(st, t, o, p, l) ==
  \/ Begins(st, t, o, p, l)
  \/ /\ st.status[l] = "idle"
     /\ \E s \in Entries : /\ st.life[s] # "destroyed" /\ ServedBy(st, t, s, l)
                          /\ <<p, o>> \in Offered(t, s)

\* The fields CallerStep speaks of.
SameCalls(st, t) ==
  /\ t.status = st.status /\ t.given = st.given /\ t.listeners = st.listeners
  /\ t.options = st.options /\ t.origin = st.origin

LEMMA SameWanted ==
  ASSUME NEW st, NEW t, NEW l, t.status[l] = st.status[l],
         \A x \in Entries : l \in t.listeners[x] <=> l \in st.listeners[x],
         \A x \in Entries : st.status[l] = "waiting" /\ l \in st.listeners[x] =>
           t.options[x] = st.options[x] /\ t.origin[x] = st.origin[x]
  PROVE  Wanted(t, l) = Wanted(st, l)
<1>1. CASE st.status[l] # "waiting"
  BY <1>1 DEF Wanted
<1>2. CASE st.status[l] = "waiting"
  <2>1. {y \in Entries : l \in t.listeners[y]} = {y \in Entries : l \in st.listeners[y]}
    OBVIOUS
  <2>2. {<<t.options[x], t.origin[x]>> : x \in {y \in Entries : l \in t.listeners[y]}}
          = {<<st.options[x], st.origin[x]>> : x \in {y \in Entries : l \in st.listeners[y]}}
    BY <1>2, <2>1
  <2>. QED
    BY <1>2, <2>2 DEF Wanted
<1>. QED
  BY <1>1, <1>2

LEMMA SameCallsWanted ==
  ASSUME NEW st, NEW t, SameCalls(st, t), NEW l
  PROVE  Wanted(t, l) = Wanted(st, l) /\ Stays(st, t, l)
  BY DEF SameCalls, Wanted, Stays

\* Of one entry only.
LEMMA OneWanted ==
  ASSUME NEW st, NEW l, st.status[l] = "waiting", NEW x \in Entries, l \in st.listeners[x],
         \A y, z \in Entries : y # z => st.listeners[y] \cap st.listeners[z] = {}
  PROVE  Wanted(st, l) = {<<st.options[x], st.origin[x]>>}
<1>1. {y \in Entries : l \in st.listeners[y]} = {x}
  OBVIOUS
<1>. QED
  BY <1>1 DEF Wanted

\* The handler goes on once l was served.
LEMMA ServedGoesOn ==
  ASSUME NEW st, NEW u, NEW t, NEW s, NEW l, ServedBy(st, u, s, l), SameCalls(u, t),
         SameCapacity(u, t), t.currentStreamCount = u.currentStreamCount,
         Took(u, s) => Spares(u, t, s)
  PROVE  ServedBy(st, t, s, l)
<1>1. Took(u, s) => Took(t, s)
  BY DEF Took, Spares, SameCapacity
<1>2. Offered(t, s) = Offered(u, s)
  BY DEF SameCalls, SameCapacity, Offered
<1>. QED
  BY <1>1, <1>2 DEF ServedBy, SameCalls

LEMMA GoesOn ==
  ASSUME NEW st, NEW u, NEW t, NEW l, CallerStep(st, u, l), SameCalls(u, t),
         SameCapacity(u, t), t.currentStreamCount = u.currentStreamCount,
         \A s \in Entries : Took(u, s) => Spares(u, t, s)
  PROVE  CallerStep(st, t, l)
<1>1. t.status = u.status /\ t.given = u.given /\ Wanted(t, l) = Wanted(u, l)
  BY SameCallsWanted DEF SameCalls
<1>2. ASSUME NEW s \in Entries, st.life[s] # "destroyed", st.status[l] # "idle", ServedBy(st, u, s, l)
      PROVE  CallerStep(st, t, l)
  <2>1. ServedBy(st, t, s, l)
    BY <1>2, ServedGoesOn
  <2>. QED
    BY <1>2, <2>1 DEF CallerStep
<1>3. CASE ~\E s \in Entries : st.life[s] # "destroyed" /\ st.status[l] # "idle" /\ ServedBy(st, u, s, l)
  BY <1>1, <1>3 DEF CallerStep, Stays, Rejects, Uses, Ends
<1>. QED
  BY <1>2, <1>3

\* What came before l was served.
LEMMA ServedAfter ==
  ASSUME NEW st, NEW u, NEW t, NEW s, NEW l, ServedBy(u, t, s, l),
         Stays(st, u, l)
  PROVE  ServedBy(st, t, s, l)
  BY DEF ServedBy, Stays

\* Callers T are served by session e, the others left alone.
LEMMA ServeCallers ==
  ASSUME NEW st \in StateType, NEW e \in Entries, NEW T \in SUBSET Listeners,
         \A l \in T : st.status[l] \in {"idle", "waiting", "rejected"},
         NEW t, \A l \in T : t.status[l] = StatusOffered(st, e, l) /\ t.given[l] = e,
         t.currentStreamCount[e] = st.currentStreamCount[e] + Cardinality(Opened(st, e, T)),
         t.maxConcurrentStreams[e] = st.maxConcurrentStreams[e],
         Streaming(st), ServesUntilFull(st, e, T, T), Spares(st, t, e),
         \A l \in T : st.status[l] # "rejected" => Wanted(st, l) \subseteq Offered(t, e)
  PROVE  \A l \in T : ServedBy(st, t, e, l)
<1>. DEFINE n == Cardinality(Opened(st, e, T))
<1>1. SUFFICES ASSUME NEW l \in T PROVE ServedBy(st, t, e, l)
  OBVIOUS
<1>2. ASSUME t.status[l] \in {"streaming", "orphan"} PROVE Took(t, e)
  <2>1. l \in Opened(st, e, {l})
    BY <1>2, OfferOpens
  <2>2. l \in Opened(st, e, T) /\ Accepting(st, e)
    BY <2>1, OpenedEach DEF Opened
  <2>3. n \in Nat /\ n # 0
    <3>1. Opened(st, e, T) \subseteq Listeners
      BY DEF Opened
    <3>2. IsFiniteSet(Opened(st, e, T))
      BY <3>1, ListenersFinite
    <3>. QED
      BY <2>2, <3>2, FS_CardinalityType, FS_EmptySet
  <2>4. st.currentStreamCount[e] \in Nat /\ st.maxConcurrentStreams[e] \in Nat
    BY StreamCounts DEF StateType
  <2>5. st.currentStreamCount[e] + n <= st.maxConcurrentStreams[e]
    BY DEF ServesUntilFull
  <2>. HIDE DEF n
  <2>6. t.currentStreamCount[e] # 0 /\ t.currentStreamCount[e] <= t.maxConcurrentStreams[e]
    BY <2>3, <2>4, <2>5 DEF n
  <2>. QED
    BY <2>2, <2>6 DEF Took, Spares
<1>3. st.status[l] = "rejected" => t.status[l] \in {"rejected", "orphan"}
  BY DEF StatusOffered
<1>4. st.status[l] \in {"idle", "waiting"} => t.status[l] \in {"holding", "streaming", "refused"}
  BY DEF StatusOffered
<1>. QED
  BY <1>2, <1>3, <1>4 DEF ServedBy

\* All of CallerStep that later calls of a handler leave alone.
Settles(u, t) ==
  /\ SameCalls(u, t) /\ SameCapacity(u, t) /\ t.currentStreamCount = u.currentStreamCount
  /\ \A s \in Entries : Took(u, s) => Spares(u, t, s)

LEMMA SettlesSteps ==
  ASSUME NEW st, NEW u, NEW t, Settles(u, t), NEW l, CallerStep(st, u, l)
  PROVE  CallerStep(st, t, l)
  BY GoesOn DEF Settles

LEMMA SettlesAsks ==
  ASSUME NEW st, NEW u, NEW t, Settles(u, t), NEW o, NEW p, NEW l, Asks(st, u, o, p, l)
  PROVE  Asks(st, t, o, p, l)
<1>1. t.status = u.status /\ t.given = u.given /\ Wanted(t, l) = Wanted(u, l)
  BY SameCallsWanted DEF Settles, SameCalls
<1>2. ASSUME NEW s \in Entries, st.life[s] # "destroyed", st.status[l] = "idle",
             ServedBy(st, u, s, l), <<p, o>> \in Offered(u, s)
      PROVE  Asks(st, t, o, p, l)
  <2>1. ServedBy(st, t, s, l)
    BY <1>2, ServedGoesOn DEF Settles
  <2>2. Offered(t, s) = Offered(u, s)
    BY DEF Settles, SameCalls, SameCapacity, Offered
  <2>. QED
    BY <1>2, <2>1, <2>2 DEF Asks
<1>3. CASE Begins(st, u, o, p, l)
  BY <1>1, <1>3 DEF Asks, Begins
<1>. QED
  BY <1>2, <1>3 DEF Asks

LEMMA BecomeSettles == ASSUME NEW t, Become(t) PROVE Settles(t, Now')
<1>1. /\ Now'.status = t.status /\ Now'.given = t.given /\ Now'.listeners = t.listeners
      /\ Now'.options = t.options /\ Now'.origin = t.origin /\ Now'.originSet = t.originSet
      /\ Now'.maxConcurrentStreams = t.maxConcurrentStreams
      /\ Now'.currentStreamCount = t.currentStreamCount
      /\ Now'.life = t.life /\ Now'.gracefullyClosing = t.gracefullyClosing
  BY DEF Become, Now
<1>. QED
  BY <1>1 DEF Settles, SameCalls, SameCapacity, Spares, Accepting

LEMMA BecomeSteps ==
  ASSUME NEW st, NEW t, Become(t), NEW l, CallerStep(st, t, l)
  PROVE  CallerStep(st, Now', l)
  BY BecomeSettles, SettlesSteps

LEMMA ShutsCalls == ASSUME NEW st, NEW t, Shuts(st, t) PROVE SameCalls(st, t)
  BY DEF Shuts, SameAccounts, SameCallers, SameKeys, SameCalls

LEMMA ShutsSettles ==
  ASSUME NEW st, NEW t, Shuts(st, t), \A s \in Entries : Took(st, s) => Spares(st, t, s)
  PROVE  Settles(st, t)
  BY ShutsCalls DEF Shuts, SameAccounts, SameStreams, Settles

LEMMA CallsStep ==
  ASSUME NEW st, NEW t, SameCalls(st, t), NEW l
  PROVE  CallerStep(st, t, l)
  BY SameCallsWanted DEF CallerStep

LEMMA AfterAcceptSettles ==
  ASSUME NEW st \in StateType, NEW e, NEW t \in AfterAccept(st, e)
  PROVE  Settles(st, t)
  BY AfterAcceptShuts, ShutsSettles DEF Took

LEMMA ProcessQueueSettles ==
  ASSUME NEW st \in StateType, NEW t \in ProcessQueue(st)
  PROVE  Settles(st, t)
<1>1. CASE st.sessionCount >= MaxSessions
  <2>1. t \in CloseEmptySessions(st, MaxSessions - st.sessionCount + 1)
    BY <1>1 DEF ProcessQueue
  <2>. QED
    BY <2>1, CloseEmptySessionsShuts, ShutsSettles DEF Took
<1>2. CASE ~(st.sessionCount >= MaxSessions)
  <2>1. Started(st, t)
    BY <1>2, StartEntriesFields DEF ProcessQueue
  <2>. QED
    BY <2>1 DEF Started, SameStreams, SameCallers, Settles, SameCalls, Spares, Accepting
<1>. QED
  BY <1>1, <1>2

LEMMA CloseEmptyCallers ==
  ASSUME SInv, CloseEmpty, NEW l \in Listeners
  PROVE  CallerStep(Now, Now', l)
<1>1. PICK n \in 1..Cardinality(Entries) : BecomeOneOf(CloseEmptySessions(Now, n))
  BY DEF CloseEmpty
<1>2. PICK t \in CloseEmptySessions(Now, n) : Become(t)
  BY <1>1 DEF BecomeOneOf
<1>3. Now \in StateType
  BY FitNow DEF CloseEmpty
<1>4. SameCalls(Now, t)
  BY <1>3, CloseEmptySessionsShuts, ShutsCalls
<1>. QED
  BY <1>2, <1>4, CallsStep, BecomeSteps

LEMMA SessionEndsCallers ==
  ASSUME SInv, NEW e \in Entries, SessionClose(e) \/ SessionLost(e) \/ SessionDrained(e),
         NEW l \in Listeners
  PROVE  CallerStep(Now, Now', l)
<1>1. Now \in StateType
  BY FitNow DEF SessionClose, SessionLost, SessionDrained
<1>2. \E t : Become(t) /\ Shuts(Now, t)
  BY <1>1, CloseShuts, DestroyShuts DEF SessionClose, SessionLost, SessionDrained
<1>. QED
  BY <1>2, ShutsCalls, CallsStep, BecomeSteps

LEMMA ConnectedCallers ==
  ASSUME SInv, NEW e \in Entries, Connected(e), NEW l \in Listeners
  PROVE  CallerStep(Now, Now', l)
<1>. DEFINE t == [Now EXCEPT !.phase[e] = "connected"]
<1>1. Become(t)
  BY DEF Connected
<1>2. SameCalls(Now, t)
  BY DEF Now, SameCalls
<1>. QED
  BY <1>1, <1>2, CallsStep, BecomeSteps

LEMMA AgentDestroyCallers ==
  ASSUME SInv, AgentDestroy, NEW l \in Listeners
  PROVE  CallerStep(Now, Now', l)
<1>. DEFINE u == Destroy(Now, UNION {Listed(Now, p) : p \in Options})
            D == u.destroyed \cup UNION {InQueue(Now, p) : p \in Options}
            Q == [p \in Options |-> [o \in Origins |-> None]]
            K == [p \in Options |-> 0]
            t == [u EXCEPT !.destroyed = D, !.queue = Q, !.kLength = K]
<1>1. Become(t)
  BY DEF AgentDestroy
<1>2. SameCalls(Now, t)
  <2>. HIDE DEF Q, K, D
  <2>. QED
    BY DEF Destroy, Now, SameCalls
<1>. QED
  BY <1>1, <1>2, CallsStep, BecomeSteps

\* Callers are rejected; the rest is left alone.
LEMMA StatusSteps ==
  ASSUME NEW st, NEW t, t.given = st.given, NEW l,
         \A x \in Entries : l \in t.listeners[x] <=> l \in st.listeners[x],
         \A x \in Entries : st.status[l] = "waiting" /\ l \in st.listeners[x] =>
           t.options[x] = st.options[x] /\ t.origin[x] = st.origin[x],
         \/ t.status[l] = st.status[l]
         \/ st.status[l] \in {"idle", "waiting"} /\ t.status[l] = "rejected"
  PROVE  CallerStep(st, t, l)
<1>1. CASE t.status[l] = st.status[l]
  BY <1>1, SameWanted DEF CallerStep, Stays
<1>2. CASE st.status[l] \in {"idle", "waiting"} /\ t.status[l] = "rejected"
  BY <1>2 DEF CallerStep, Rejects
<1>. QED
  BY <1>1, <1>2

LEMMA RejectServernameCallers ==
  ASSUME SInv, NEW m \in Listeners, RejectServername(m), NEW l \in Listeners
  PROVE  CallerStep(Now, Now', l)
<1>. DEFINE t == [Now EXCEPT !.status[m] = "rejected"]
<1>1. Now \in StateType /\ Become(t) /\ Now.status[m] = "idle"
  BY FitNow, NowFields DEF RejectServername
<1>2. SameButStatus(Now, t) /\ t.status = [Now.status EXCEPT ![m] = "rejected"]
  BY <1>1, RestatusFields
<1>3. Now.status \in [Listeners -> Statuses]
  BY <1>1 DEF StateType
<1>. HIDE DEF t
<1>4. /\ t.given = Now.given /\ t.listeners = Now.listeners
      /\ t.options = Now.options /\ t.origin = Now.origin
      /\ t.status[l] = IF l = m THEN "rejected" ELSE Now.status[l]
  BY <1>2, <1>3 DEF SameButStatus, SameKeys
<1>5. CallerStep(Now, t, l)
  BY <1>1, <1>4, StatusSteps
<1>. QED
  BY <1>1, <1>5, BecomeSteps

LEMMA FirstSettingsRefusedCallers ==
  ASSUME SInv, NEW e \in Entries, FirstSettingsRefused(e), NEW l \in Listeners
  PROVE  CallerStep(Now, Now', l)
<1>. DEFINE u == Reject(Now, listeners[e])
            t == Destroy(u, {e})
<1>1. Idle(Now) /\ Now \in StateType /\ Become(t)
  BY FitNow DEF FirstSettingsRefused
<1>2. SameButStatus(Now, u) /\ u.status = [k \in Listeners |->
              IF k \in listeners[e] /\ Now.status[k] = "waiting" THEN "rejected" ELSE Now.status[k]]
  BY <1>1, RejectFields
<1>3. u \in StateType
  BY <1>1, RejectGood DEF Idle, Good
<1>. HIDE DEF u
<1>4. SameCalls(u, t)
  BY <1>3, DestroyShuts, ShutsCalls
<1>. HIDE DEF t
<1>5. /\ t.given = Now.given /\ t.listeners = Now.listeners
      /\ t.options = Now.options /\ t.origin = Now.origin
      /\ t.status[l] = IF l \in listeners[e] /\ Now.status[l] = "waiting" THEN "rejected"
                       ELSE Now.status[l]
  BY <1>2, <1>4 DEF SameButStatus, SameKeys, SameCalls
<1>6. CallerStep(Now, t, l)
  BY <1>5, StatusSteps
<1>. QED
  BY <1>1, <1>6, BecomeSteps

\* Whoever waits for an entry is rejected with it.
LEMMA EndedSteps ==
  ASSUME NEW st, NEW t, NEW e \in Entries, Ended(st, t, e), NEW l \in Listeners
  PROVE  CallerStep(st, t, l)
<1>1. /\ \A x \in Entries : t.origin[x] = IF x = e THEN None ELSE st.origin[x]
      /\ \A x \in Entries : t.options[x] = IF x = e THEN None ELSE st.options[x]
      /\ \A x \in Entries : t.listeners[x] = IF x = e THEN {} ELSE st.listeners[x]
      /\ t.given = st.given
      /\ t.status[l] = IF l \in st.listeners[e] /\ st.status[l] = "waiting" THEN "rejected"
                       ELSE st.status[l]
  BY DEF Ended
<1>2. CASE st.status[l] # "waiting"
  BY <1>1, <1>2 DEF CallerStep, Stays, Wanted
<1>3. CASE st.status[l] = "waiting" /\ l \in st.listeners[e]
  BY <1>1, <1>3 DEF CallerStep, Rejects
<1>4. CASE l \notin st.listeners[e]
  BY <1>1, <1>4, StatusSteps
<1>. QED
  BY <1>2, <1>3, <1>4

LEMMA ConnectFailedCallers ==
  ASSUME SInv, NEW e \in Entries, ConnectFailed(e), NEW l \in Listeners
  PROVE  CallerStep(Now, Now', l)
  BY ConnectFailedSteps, EndedSteps, BecomeSteps DEF SInv

LEMMA ProcessQueueBecomeSteps ==
  ASSUME NEW st, NEW v \in StateType, BecomeOneOf(ProcessQueue(v)), NEW l, CallerStep(st, v, l)
  PROVE  CallerStep(st, Now', l)
<1>1. PICK t \in ProcessQueue(v) : Become(t)
  BY DEF BecomeOneOf
<1>2. CallerStep(st, t, l)
  BY ProcessQueueSettles, SettlesSteps
<1>. QED
  BY <1>1, <1>2, BecomeSteps

LEMMA SessionClosedCallers ==
  ASSUME SInv, NEW e \in Entries, SessionClosed(e), NEW l \in Listeners
  PROVE  CallerStep(Now, Now', l)
<1>1. relay = None /\ Idle(Now)
  BY FitNow DEF SessionClosed
<1>2. ASSUME NEW i \in 1..Len(sessions[options[e]]), NEW u, NEW v, phase[e] = "ready",
             LeftPool(Now, u, e, i), Forgotten(u, v, {e}, "closed"),
             Idle(v), BecomeOneOf(ProcessQueue(v))
      PROVE  CallerStep(Now, Now', l)
  <2>1. Now.listeners[e] = {}
    BY <1>1, <1>2, NowFields, NoneAssumption DEF Idle, Accounted, Listening, Pending
  <2>2. SameCalls(Now, u)
    BY <1>2 DEF LeftPool, SameCallers, SameKeys, SameCalls
  <2>3. /\ v.status = Now.status /\ v.given = Now.given
        /\ \A x \in Entries : v.listeners[x] = Now.listeners[x]
        /\ \A x \in Entries \ {e} : v.options[x] = Now.options[x] /\ v.origin[x] = Now.origin[x]
    <3>1. /\ u.status = Now.status /\ u.given = Now.given /\ u.listeners = Now.listeners
          /\ u.options = Now.options /\ u.origin = Now.origin
      BY <2>2 DEF SameCalls
    <3>2. v.status = u.status /\ v.given = u.given
      BY <1>2 DEF Forgotten, SameCallers
    <3>3. /\ v.listeners = [x \in Entries |-> IF x \in {e} THEN {} ELSE u.listeners[x]]
          /\ v.origin = [x \in Entries |-> IF x \in {e} THEN None ELSE u.origin[x]]
          /\ v.options = [x \in Entries |-> IF x \in {e} THEN None ELSE u.options[x]]
      BY <1>2 DEF Forgotten
    <3>4. ASSUME NEW x \in Entries PROVE v.listeners[x] = Now.listeners[x]
      <4>1. v.listeners[x] = IF x \in {e} THEN {} ELSE u.listeners[x]
        BY <3>3
      <4>2. CASE x = e
        BY <2>1, <4>1, <4>2
      <4>3. CASE x # e
        BY <3>1, <4>1, <4>3
      <4>. QED
        BY <4>2, <4>3
    <3>5. \A x \in Entries \ {e} : v.options[x] = Now.options[x] /\ v.origin[x] = Now.origin[x]
      BY <3>1, <3>3
    <3>. QED
      BY <3>1, <3>2, <3>4, <3>5
  <2>4. CallerStep(Now, v, l)
    BY <2>1, <2>3, StatusSteps
  <2>. QED
    BY <1>2, <2>4, ProcessQueueBecomeSteps DEF Idle, Good
<1>3. ASSUME NEW v, Ended(Now, v, e), Idle(v), BecomeOneOf(ProcessQueue(v))
      PROVE  CallerStep(Now, Now', l)
  BY <1>3, EndedSteps, ProcessQueueBecomeSteps DEF Idle, Good
<1>. QED
  BY <1>2, <1>3, SessionClosedSteps DEF SInv

LEMMA UserRequestCallers ==
  ASSUME SInv, NEW m \in Listeners, UserRequest(m), NEW l \in Listeners
  PROVE  CallerStep(Now, Now', l)
<1>. DEFINE e == given[m]
<1>1. /\ Idle(Now) /\ Now \in StateType
      /\ Now.status[m] = "holding" /\ Now.given[m] = e
  BY FitNow, NowFields DEF UserRequest
<1>2. e \in Entries /\ Now.status \in [Listeners -> Statuses]
  BY <1>1 DEF Idle, Good, Holding, HasSession, StateType
<1>3. ASSUME NEW t, NEW s, s = "refused" \/ (s = "streaming" /\ Accepting(Now, e)),
             t.status = [Now.status EXCEPT ![m] = s], t.given = Now.given,
             t.listeners = Now.listeners, t.options = Now.options, t.origin = Now.origin
      PROVE  CallerStep(Now, t, l)
  <2>1. t.status[l] = IF l = m THEN s ELSE Now.status[l]
    BY <1>2, <1>3
  <2>2. CASE l = m
    BY <1>1, <1>3, <2>1, <2>2 DEF CallerStep, Uses
  <2>3. CASE l # m
    BY <1>3, <2>1, <2>3, StatusSteps
  <2>. QED
    BY <2>2, <2>3
<1>4. CASE ~Accepting(Now, e)
  <2>. DEFINE t == [Now EXCEPT !.status[m] = "refused"]
  <2>1. Become(t)
    BY <1>4 DEF UserRequest
  <2>2. SameButStatus(Now, t) /\ t.status = [Now.status EXCEPT ![m] = "refused"]
    BY <1>1, RestatusFields
  <2>. HIDE DEF t
  <2>. QED
    BY <1>3, <2>1, <2>2, BecomeSteps DEF SameButStatus, SameKeys
<1>5. CASE Accepting(Now, e)
  <2>. DEFINE u == OpenStreams(Now, e, 1)
              t == [u EXCEPT !.status[m] = "streaming"]
  <2>1. Become(t)
    BY <1>5 DEF UserRequest
  <2>2. /\ u \in StateType /\ SameKeys(Now, u)
        /\ u.listeners = Now.listeners /\ u.status = Now.status /\ u.given = Now.given
    <3>1. 1 \in Nat
      OBVIOUS
    <3>. QED
      BY <1>1, <1>2, <3>1, OpenStreamsFields
  <2>. HIDE DEF u
  <2>3. SameButStatus(u, t) /\ t.status = [u.status EXCEPT ![m] = "streaming"]
    BY <2>2, RestatusFields
  <2>. HIDE DEF t
  <2>. QED
    BY <1>3, <1>5, <2>1, <2>2, <2>3, BecomeSteps DEF SameButStatus, SameKeys
<1>. QED
  BY <1>4, <1>5

------------------------------------------------------------------------------
(* Handlers that serve callers.                                             *)

LEMMA ServesThose ==
  ASSUME NEW st, NEW e, NEW W, NEW T, ServesUntilFull(st, e, W, T)
  PROVE  ServesUntilFull(st, e, T, T)
  BY DEF ServesUntilFull

\* Callers T are served, by session e; the others keep what they have.
LEMMA ServeChangesCallers ==
  ASSUME NEW st \in StateType, Streaming(st), NEW e \in Entries, st.life[e] # "destroyed",
         NEW T \in SUBSET Listeners, \A l \in T : st.status[l] \in {"idle", "waiting", "rejected"},
         NEW t, ServeChanges(st, t, e, T), ServesUntilFull(st, e, T, T),
         \A l \in T : st.status[l] # "rejected" => Wanted(st, l) \subseteq Offered(st, e),
         \A l \in Listeners \ T, x \in Entries : l \in t.listeners[x] <=> l \in st.listeners[x]
  PROVE  /\ \A l \in T : ServedBy(st, t, e, l)
         /\ \A l \in Listeners \ T : Stays(st, t, l)
<1>1. /\ t.origin = st.origin /\ t.options = st.options
      /\ t.originSet = st.originSet /\ t.maxConcurrentStreams = st.maxConcurrentStreams
      /\ t.life = st.life /\ t.gracefullyClosing = st.gracefullyClosing
      /\ \A l \in Listeners : t.status[l] = IF l \in T THEN StatusOffered(st, e, l) ELSE st.status[l]
      /\ \A l \in Listeners : t.given[l] = IF l \in T THEN e ELSE st.given[l]
  BY DEF ServeChanges, SameKeys, SameCapacity
<1>2. t.currentStreamCount[e] = st.currentStreamCount[e] + Cardinality(Opened(st, e, T))
  <2>1. t.currentStreamCount = [st.currentStreamCount EXCEPT ![e] = @ + Cardinality(Opened(st, e, T))]
    BY DEF ServeChanges
  <2>2. st.currentStreamCount \in [Entries -> Int]
    BY DEF StateType
  <2>. QED
    BY <2>1, <2>2
<1>3. \A l \in T : ServedBy(st, t, e, l)
  <2>1. Spares(st, t, e) /\ Offered(t, e) = Offered(st, e)
    BY <1>1 DEF Spares, Accepting, Offered
  <2>2. \A l \in T : t.status[l] = StatusOffered(st, e, l) /\ t.given[l] = e
    BY <1>1
  <2>3. \A l \in T : st.status[l] # "rejected" => Wanted(st, l) \subseteq Offered(t, e)
    BY <2>1
  <2>4. t.maxConcurrentStreams[e] = st.maxConcurrentStreams[e]
    BY <1>1
  <2>. QED
    BY <1>2, <2>1, <2>2, <2>3, <2>4, ServeCallers
<1>4. ASSUME NEW l \in Listeners \ T PROVE Stays(st, t, l)
  <2>1. t.status[l] = st.status[l] /\ t.given[l] = st.given[l]
    BY <1>1
  <2>2. Wanted(t, l) = Wanted(st, l)
    BY <1>1, <2>1, SameWanted
  <2>. QED
    BY <2>1, <2>2 DEF Stays
<1>. QED
  BY <1>3, <1>4

\* Callers T, and they alone, come to wait under the key of o and p.
Enqueues(st, t, T, o, p, l) ==
  /\ l \in T /\ st.status[l] = "idle" => Begins(st, t, o, p, l)
  /\ l \in T /\ st.status[l] = "waiting" =>
       t.status[l] = "waiting" /\ Wanted(t, l) = {<<p, o>>} /\ t.given[l] = st.given[l]
  /\ l \notin T \/ st.status[l] \notin {"idle", "waiting"} => Stays(st, t, l)

LEMMA WaitSteps ==
  ASSUME NEW st, NEW t, NEW T, NEW l \in Listeners, NEW o \in Origins, NEW p \in Options,
         NEW e \in Entries, t.origin[e] = o, t.options[e] = p, t.given = st.given,
         t.status[l] = IF l \in T /\ st.status[l] = "idle" THEN "waiting" ELSE st.status[l],
         \A x \in Entries : l \in t.listeners[x] <=> l \in st.listeners[x] \/ (x = e /\ l \in T),
         \A x \in Entries : x # e => t.origin[x] = st.origin[x] /\ t.options[x] = st.options[x],
         l \in st.listeners[e] => st.origin[e] = o /\ st.options[e] = p,
         l \in T => \A x \in Entries : l \notin st.listeners[x]
  PROVE  Enqueues(st, t, T, o, p, l)
<1>1. CASE l \notin T
  BY <1>1, SameWanted DEF Stays, Enqueues
<1>2. CASE l \in T /\ st.status[l] \in {"idle", "waiting"}
  <2>1. {y \in Entries : l \in t.listeners[y]} = {e}
    BY <1>2
  <2>2. t.status[l] = "waiting" /\ t.given[l] = st.given[l]
    BY <1>2
  <2>3. Wanted(t, l) = {<<p, o>>}
    BY <2>1, <2>2 DEF Wanted
  <2>. QED
    BY <1>2, <2>2, <2>3 DEF Begins, Enqueues
<1>3. CASE l \in T /\ st.status[l] \notin {"idle", "waiting"}
  BY <1>3 DEF Stays, Wanted, Enqueues
<1>. QED
  BY <1>1, <1>2, <1>3

LEMMA SettlesEnqueues ==
  ASSUME NEW st, NEW t, NEW u, Settles(t, u), NEW T, NEW o, NEW p, NEW l,
         Enqueues(st, t, T, o, p, l)
  PROVE  Enqueues(st, u, T, o, p, l)
<1>1. u.status = t.status /\ u.given = t.given /\ Wanted(u, l) = Wanted(t, l)
  BY SameCallsWanted DEF Settles, SameCalls
<1>. QED
  BY <1>1 DEF Enqueues, Begins, Stays

LEMMA EnqueueCallers ==
  ASSUME NEW st, Good(st), NEW T \in SUBSET Listeners, Filed(st), Listening(st, None, T),
         NEW o \in Origins, NEW p \in Options, NEW u \in Enqueue(st, o, p, T), NEW l \in Listeners
  PROVE  Enqueues(st, u, T, o, p, l)
<1>1. /\ st \in StateType /\ st.status \in [Listeners -> Statuses]
      /\ st.listeners \in [Entries -> SUBSET Listeners]
      /\ st.origin \in [Entries -> Origins \cup {None}] /\ st.options \in [Entries -> Options \cup {None}]
      /\ st.queue \in [Options -> [Origins -> Entries \cup {None}]]
  BY DEF Good, StateType
<1>2. l \in T => \A x \in Entries : l \notin st.listeners[x]
  BY DEF Listening
<1>3. CASE st.queue[p][o] # None
  <2>. DEFINE e == st.queue[p][o]
  <2>1. Joined(st, u, e, T)
    BY <1>1, <1>3, EnqueueFields
  <2>2. e \in Entries /\ st.origin[e] = o /\ st.options[e] = p
    BY <1>1, <1>3 DEF Filed
  <2>. HIDE DEF e
  <2>3. /\ u.origin = st.origin /\ u.options = st.options /\ u.given = st.given
        /\ u.status[l] = IF l \in T /\ st.status[l] = "idle" THEN "waiting" ELSE st.status[l]
        /\ \A x \in Entries : l \in u.listeners[x] <=> l \in st.listeners[x] \/ (x = e /\ l \in T)
    BY <1>1, <2>1, <2>2 DEF Joined, SameKeys
  <2>. QED
    BY <1>2, <2>2, <2>3, WaitSteps
<1>4. CASE st.queue[p][o] = None
  <2>1. PICK e \in Fresh(st), t \in StateType : Queued(st, t, e, o, p, T) /\ u \in ProcessQueue(t)
    BY <1>1, <1>4, EnqueueFields
  <2>2. e \in Entries /\ st.listeners[e] = {}
    BY <1>1, NoneAssumption DEF Fresh, Listening, Pending
  <2>3. /\ t.given = st.given
        /\ t.status[l] = IF l \in T /\ st.status[l] = "idle" THEN "waiting" ELSE st.status[l]
        /\ t.listeners = [st.listeners EXCEPT ![e] = T]
        /\ t.origin = [st.origin EXCEPT ![e] = o] /\ t.options = [st.options EXCEPT ![e] = p]
    BY <2>1 DEF Queued
  <2>4. /\ t.origin[e] = o /\ t.options[e] = p
        /\ \A x \in Entries : x # e => t.origin[x] = st.origin[x] /\ t.options[x] = st.options[x]
        /\ \A x \in Entries : l \in t.listeners[x] <=> l \in st.listeners[x] \/ (x = e /\ l \in T)
    BY <1>1, <2>2, <2>3
  <2>5. Enqueues(st, t, T, o, p, l)
    BY <1>2, <2>2, <2>3, <2>4, WaitSteps
  <2>. QED
    BY <2>1, <2>5, ProcessQueueSettles, SettlesEnqueues
<1>. QED
  BY <1>3, <1>4

LEMMA GetSessionCallers ==
  ASSUME SInv, NEW m \in Listeners, NEW o \in Origins, NEW p \in Options, GetSession(m, o, p),
         NEW l \in Listeners
  PROVE  IF l = m THEN Asks(Now, Now', o, p, l) ELSE Stays(Now, Now', l)
<1>. DEFINE Done(t) == IF l = m THEN Asks(Now, t, o, p, l) ELSE Stays(Now, t, l)
<1>1. /\ relay = None /\ Now.status[m] = "idle" /\ Idle(Now) /\ Good(Now) /\ Now \in StateType
      /\ Streaming(Now) /\ Filed(Now) /\ Listening(Now, None, {}) /\ Listing(Now)
  BY FitNow, NowFields DEF GetSession, Idle, Accounted
<1>4. ASSUME NEW t, Become(t), Done(t) PROVE Done(Now')
  <2>1. Settles(t, Now')
    BY <1>4, BecomeSettles
  <2>2. Asks(Now, t, o, p, l) => Asks(Now, Now', o, p, l)
    BY <2>1, SettlesAsks
  <2>3. Stays(Now, t, l) => Stays(Now, Now', l)
    BY <2>1, SameCallsWanted DEF Settles, Stays
  <2>. QED
    BY <1>4, <2>2, <2>3
<1>2. CASE AvailableAt(Now, o, p) # {}
  <2>1. PICK i \in AvailableAt(Now, o, p) : Become(Serve(Now, sessions[p][i], {m}))
    BY <1>2 DEF GetSession
  <2>. DEFINE e == sessions[p][i]
              t == Serve(Now, e, {m})
  <2>2. e \in Entries /\ IsFree(Now, e) /\ Now.life[e] # "destroyed"
    BY ListedHasSession, NowFields DEF AvailableAt, Available, SInv, AInv, HasSession
  <2>3. ServeChanges(Now, t, e, {m}) /\ t.listeners = Now.listeners
    BY <1>1, <2>2, ServeFields
  <2>. HIDE DEF e, t
  <2>4. ServesUntilFull(Now, e, {m}, {m})
    <3>1. Cardinality(Opened(Now, e, {m})) \in {0, 1}
      <4>1. Opened(Now, e, {m}) \subseteq {m}
        BY DEF Opened
      <4>2. Opened(Now, e, {m}) = {} \/ Opened(Now, e, {m}) = {m}
        BY <4>1
      <4>3. Cardinality({}) = 0
        BY FS_EmptySet
      <4>4. Cardinality({m}) = 1
        BY FS_Singleton
      <4>. QED
        BY <4>2, <4>3, <4>4
    <3>2. Now.currentStreamCount[e] \in Int /\ Now.maxConcurrentStreams[e] \in Int
      BY <1>1, <2>2 DEF StateType
    <3>. QED
      BY <2>2, <3>1, <3>2 DEF ServesUntilFull, IsFree
  <2>5. Wanted(Now, m) = {}
    BY <1>1 DEF Wanted
  <2>7. <<p, o>> \in Offered(t, e)
    <3>1. Now.options[e] = p /\ o \in Now.originSet[e]
      BY <1>1, <2>1, NowFields DEF AvailableAt, Available, Listing, e
    <3>2. t.options = Now.options /\ t.originSet = Now.originSet
      BY <2>3 DEF ServeChanges, SameKeys, SameCapacity
    <3>. QED
      BY <3>1, <3>2 DEF Offered
  <2>6. Done(t)
    <3>. DEFINE T == {m}
    <3>1. /\ T \in SUBSET Listeners /\ \A k \in T : Now.status[k] \in {"idle", "waiting", "rejected"}
          /\ ServeChanges(Now, t, e, T) /\ ServesUntilFull(Now, e, T, T)
          /\ \A k \in T : Now.status[k] # "rejected" => Wanted(Now, k) \subseteq Offered(Now, e)
      BY <1>1, <2>3, <2>4, <2>5
    <3>2. m \in T /\ (l \in T <=> l = m)
      OBVIOUS
    <3>. HIDE DEF T
    <3>3. ServedBy(Now, t, e, m) /\ (l \notin T => Stays(Now, t, l))
      BY <1>1, <2>2, <2>3, <3>1, <3>2, ServeChangesCallers
    <3>. QED
      BY <1>1, <2>2, <2>7, <3>2, <3>3 DEF Asks
  <2>8. Become(t)
    BY <2>1 DEF t, e
  <2>. HIDE DEF Done
  <2>9. Done(Now')
    BY <1>4, <2>6, <2>8
  <2>. QED
    BY <2>9 DEF Done
<1>3. CASE AvailableAt(Now, o, p) = {}
  <2>1. PICK t \in Enqueue(Now, o, p, {m}) : Become(t)
    BY <1>3 DEF GetSession, BecomeOneOf
  <2>2. Listening(Now, None, {m})
    BY <1>1 DEF Listening
  <2>3. Enqueues(Now, t, {m}, o, p, l)
    BY <1>1, <2>1, <2>2, EnqueueCallers
  <2>4. Done(t)
    BY <1>1, <2>3 DEF Enqueues, Asks
  <2>. HIDE DEF Done
  <2>5. Done(Now')
    BY <1>4, <2>1, <2>4
  <2>. QED
    BY <2>5 DEF Done
<1>. QED
  BY <1>2, <1>3

\* Listeners T of entry e, one that can tell its key, are served by session s.
LEMMA LeftoversCallers ==
  ASSUME NEW st, Good(st), NEW e \in Entries, Accounted(st, e, {}),
         NEW s \in Entries, st.life[s] # "destroyed", NEW T \in SUBSET st.listeners[e], NEW W,
         ServesUntilFull(st, s, W, T), <<st.options[e], st.origin[e]>> \in Offered(st, s),
         NEW t, ServeChanges(st, t, s, T), t.listeners = [st.listeners EXCEPT ![e] = @ \ T]
  PROVE  \A l \in Listeners : CallerStep(st, t, l)
<1>1. st \in StateType /\ st.listeners \in [Entries -> SUBSET Listeners]
  BY DEF Good, StateType
<1>2. Streaming(st) /\ Listening(st, e, {})
  BY DEF Accounted
<1>3. T \in SUBSET Listeners /\ ServesUntilFull(st, s, T, T)
  BY <1>1, ServesThose
<1>4. \A l \in T : st.status[l] \in {"waiting", "rejected"}
  BY <1>2 DEF Listening
<1>5. ASSUME NEW l \in T, st.status[l] # "rejected" PROVE Wanted(st, l) \subseteq Offered(st, s)
  <2>1. st.status[l] = "waiting" /\ l \in st.listeners[e]
    BY <1>2, <1>5 DEF Listening
  <2>2. \A y, z \in Entries : y # z => st.listeners[y] \cap st.listeners[z] = {}
    BY <1>2 DEF Listening
  <2>3. Wanted(st, l) = {<<st.options[e], st.origin[e]>>}
    BY <2>1, <2>2, OneWanted
  <2>. QED
    BY <2>3
<1>6. \A l \in Listeners \ T, x \in Entries : l \in t.listeners[x] <=> l \in st.listeners[x]
  BY <1>1
<1>7. (\A l \in T : ServedBy(st, t, s, l)) /\ \A l \in Listeners \ T : Stays(st, t, l)
  BY <1>1, <1>2, <1>3, <1>4, <1>5, <1>6, ServeChangesCallers
<1>. QED
  BY <1>4, <1>7 DEF CallerStep

LEMMA StepsAfter ==
  ASSUME NEW st, NEW u, SameCalls(st, u), u.life = st.life,
         u.gracefullyClosing = st.gracefullyClosing, NEW t, NEW l, CallerStep(u, t, l)
  PROVE  CallerStep(st, t, l)
<1>1. st.status = u.status /\ st.given = u.given /\ Wanted(u, l) = Wanted(st, l)
  BY SameCallsWanted DEF SameCalls
<1>. QED
  BY <1>1 DEF CallerStep, Stays, ServedBy, Rejects, Uses, Ends, Accepting

LEMMA RelayedSettles ==
  ASSUME NEW st, NEW t, NEW r, Relayed(st, t, r)
  PROVE  Settles(st, t)
  BY DEF Relayed, SameAccounts, SameKeys, SameStreams, SameCallers, Settles, SameCalls, Spares, Accepting

LEMMA AfterAcceptSteps ==
  ASSUME NEW st, NEW v \in StateType, NEW e, BecomeOneOf(AfterAccept(v, e)),
         NEW l, CallerStep(st, v, l)
  PROVE  CallerStep(st, Now', l)
<1>1. PICK t \in AfterAccept(v, e) : Become(t)
  BY DEF BecomeOneOf
<1>2. CallerStep(st, t, l)
  BY AfterAcceptSettles, SettlesSteps
<1>. QED
  BY <1>1, <1>2, BecomeSteps

LEMMA FirstSettingsCallers ==
  ASSUME SInv, NEW e \in Entries, NEW n \in Limits, NEW plain \in BOOLEAN,
         FirstSettings(e, n, plain), NEW l \in Listeners
  PROVE  CallerStep(Now, Now', l)
<1>. DEFINE O == FirstOriginSet(e, plain)
<1>1. PICK i \in SortedIndexes(Now, options[e], n), T \in SUBSET listeners[e] :
         \E u, entered, served :
           /\ FirstServed(e, n, O, i, T, u, entered, served)
           /\ \/ T = listeners[e] /\ Idle(served) /\ BecomeOneOf(AfterAccept(served, e))
              \/ /\ T # listeners[e] /\ Good(served)
                 /\ \E t : Relayed(served, t, e) /\ RelayReady(t, e) /\ Become(t)
  BY FirstSettingsSteps DEF SInv
<1>2. PICK u, entered, served :
        /\ FirstServed(e, n, O, i, T, u, entered, served)
        /\ \/ Idle(served) /\ BecomeOneOf(AfterAccept(served, e))
           \/ \E t : Relayed(served, t, e) /\ RelayReady(t, e) /\ Become(t)
  BY <1>1
<1>3. Now.phase[e] = "connected" /\ Now.life[e] = "open" /\ Good(Now)
  BY FitNow, NowFields DEF FirstSettings, Idle
<1>. HIDE DEF O
<1>4. /\ SameCalls(Now, entered) /\ entered.life = Now.life
      /\ entered.gracefullyClosing = Now.gracefullyClosing
  BY <1>2 DEF FirstServed, SameButQueue, Entered, SameKeys, SameCallers, SameCalls
<1>5. CallerStep(entered, served, l)
  <2>1. /\ Good(entered) /\ Accounted(entered, e, {}) /\ ServesUntilFull(entered, e, listeners[e], T)
        /\ ServeChanges(entered, served, e, T)
        /\ served.listeners = [entered.listeners EXCEPT ![e] = @ \ T]
    BY <1>2 DEF FirstServed
  <2>2. entered.life[e] # "destroyed" /\ T \in SUBSET entered.listeners[e]
    BY <1>3, <1>4, NowFields DEF SameCalls
  <2>3. entered.origin[e] \in Origins
    <3>1. Now.origin \in [Entries -> Origins \cup {None}] /\ Now.origin[e] # None
      BY <1>3 DEF Good, Keyed, StateType
    <3>. QED
      BY <1>4, <3>1 DEF SameCalls
  <2>4. <<entered.options[e], entered.origin[e]>> \in Offered(entered, e)
    BY <2>3 DEF Offered
  <2>. QED
    BY <2>1, <2>2, <2>4, LeftoversCallers
<1>6. CallerStep(Now, served, l)
  BY <1>4, <1>5, StepsAfter
<1>7. CASE Idle(served) /\ BecomeOneOf(AfterAccept(served, e))
  BY <1>6, <1>7, AfterAcceptSteps DEF Idle, Good
<1>8. ASSUME NEW t, Relayed(served, t, e), Become(t)
      PROVE  CallerStep(Now, Now', l)
  BY <1>6, <1>8, RelayedSettles, SettlesSteps, BecomeSteps
<1>. QED
  BY <1>2, <1>7, <1>8

\* The leftovers of e are queued again, for what they waited for.
LEMMA RequeuedCallers ==
  ASSUME NEW st, Good(st), NEW e \in Entries, Accounted(st, e, {}),
         NEW o \in Origins, NEW p \in Options, st.origin[e] = o, st.options[e] = p,
         NEW v, Good(v), TakenOut(st, v, e), NEW W, W = st.listeners[e], Accounted(v, None, W),
         NEW t \in Enqueue(v, o, p, W), NEW l \in Listeners
  PROVE  CallerStep(st, t, l)
<1>1. W \in SUBSET Listeners /\ st.listeners \in [Entries -> SUBSET Listeners]
  BY DEF Good, StateType
<1>2. /\ \A y, z \in Entries : y # z => st.listeners[y] \cap st.listeners[z] = {}
      /\ \A k \in W : st.status[k] \in {"waiting", "rejected"}
  BY DEF Accounted, Listening
<1>3. Enqueues(v, t, W, o, p, l)
  BY <1>1, EnqueueCallers DEF Accounted
<1>4. /\ v.status = st.status /\ v.given = st.given /\ v.options = st.options /\ v.origin = st.origin
      /\ v.listeners = [st.listeners EXCEPT ![e] = {}]
  BY DEF TakenOut, SameCallers, SameKeys
<1>5. CASE l \in W /\ st.status[l] = "waiting"
  <2>1. Wanted(st, l) = {<<p, o>>}
    BY <1>2, <1>5, OneWanted
  <2>2. t.status[l] = "waiting" /\ Wanted(t, l) = {<<p, o>>} /\ t.given[l] = st.given[l]
    BY <1>3, <1>4, <1>5 DEF Enqueues
  <2>. QED
    BY <1>5, <2>1, <2>2 DEF CallerStep, Stays
<1>6. CASE l \notin W \/ st.status[l] # "waiting"
  <2>1. Stays(v, t, l)
    BY <1>2, <1>3, <1>4, <1>6 DEF Enqueues
  <2>2. Wanted(v, l) = Wanted(st, l)
    <3>1. CASE st.status[l] # "waiting"
      BY <1>4, <3>1 DEF Wanted
    <3>2. CASE l \notin W
      <4>1. \A x \in Entries : l \in v.listeners[x] <=> l \in st.listeners[x]
        BY <1>1, <1>4, <3>2
      <4>. QED
        BY <1>4, <4>1, SameWanted
    <3>. QED
      BY <1>6, <3>1, <3>2
  <2>. QED
    BY <1>4, <2>1, <2>2 DEF CallerStep, Stays
<1>. QED
  BY <1>5, <1>6

LEMMA RelayCallers ==
  ASSUME SInv, NEW e \in Entries, Relay(e), NEW l \in Listeners
  PROVE  CallerStep(Now, Now', l)
<1>. DEFINE o == origin[e]
            p == options[e]
<1>1. /\ Good(Now) /\ Accounted(Now, e, {}) /\ Now.origin[e] = o /\ Now.options[e] = p
      /\ o \in Origins /\ p \in Options /\ Now.listeners[e] = listeners[e]
  BY RelaySteps, NowFields DEF SInv
<1>2. ASSUME NEW i \in AvailableAt(Now, o, p), NEW T \in SUBSET listeners[e], NEW served,
             HasSession(Now, sessions[p][i]), ServeChanges(Now, served, sessions[p][i], T),
             ServesUntilFull(Now, sessions[p][i], listeners[e], T),
             served.listeners = [Now.listeners EXCEPT ![e] = @ \ T],
             \/ \E t : Relayed(served, t, None) /\ Idle(t) /\ BecomeOneOf(AfterAccept(t, e))
             \/ RelayReady(served, e) /\ Become(served)
      PROVE  CallerStep(Now, Now', l)
  <2>. DEFINE s == sessions[p][i]
  <2>1. s \in Entries /\ Now.life[s] # "destroyed" /\ Now.options[s] = p /\ o \in Now.originSet[s]
    BY <1>1, <1>2, NowFields DEF HasSession, AvailableAt, Available, Accounted, Listing
  <2>2. <<Now.options[e], Now.origin[e]>> \in Offered(Now, s)
    BY <1>1, <2>1 DEF Offered
  <2>3. T \in SUBSET Now.listeners[e]
    BY <1>1
  <2>4. ServeChanges(Now, served, s, T) /\ ServesUntilFull(Now, s, listeners[e], T)
    BY <1>2
  <2>. HIDE DEF s
  <2>5. CallerStep(Now, served, l)
    BY <1>1, <1>2, <2>1, <2>2, <2>3, <2>4, LeftoversCallers
  <2>6. CASE Become(served)
    BY <2>5, <2>6, BecomeSteps
  <2>7. ASSUME NEW t, Relayed(served, t, None), Idle(t), BecomeOneOf(AfterAccept(t, e))
        PROVE  CallerStep(Now, Now', l)
    <3>1. CallerStep(Now, t, l)
      BY <2>5, <2>7, RelayedSettles, SettlesSteps
    <3>. QED
      BY <2>7, <3>1, AfterAcceptSteps DEF Idle, Good
  <2>. QED
    BY <1>2, <2>6, <2>7
<1>3. ASSUME NEW v, NEW t, TakenOut(Now, v, e), Good(v),
             Accounted(v, None, listeners[e]),
             t \in Enqueue(v, o, p, listeners[e]), Idle(t), BecomeOneOf(AfterAccept(t, e))
      PROVE  CallerStep(Now, Now', l)
  <2>1. CallerStep(Now, t, l)
    BY <1>1, <1>3, RequeuedCallers
  <2>. QED
    BY <1>3, <2>1, AfterAcceptSteps DEF Idle, Good
<1>4. \/ \E i \in AvailableAt(Now, o, p), T \in SUBSET listeners[e] : \E served :
           /\ HasSession(Now, sessions[p][i]) /\ ServeChanges(Now, served, sessions[p][i], T)
           /\ ServesUntilFull(Now, sessions[p][i], listeners[e], T)
           /\ served.listeners = [Now.listeners EXCEPT ![e] = @ \ T]
           /\ \/ \E t : Relayed(served, t, None) /\ Idle(t) /\ BecomeOneOf(AfterAccept(t, e))
              \/ RelayReady(served, e) /\ Become(served)
      \/ \E v, t : /\ TakenOut(Now, v, e) /\ Good(v) /\ Accounted(v, None, listeners[e])
                   /\ t \in Enqueue(v, o, p, listeners[e])
                   /\ Idle(t) /\ BecomeOneOf(AfterAccept(t, e))
  BY RelaySteps DEF SInv
<1>. HIDE DEF o, p
<1>. QED
  BY <1>2, <1>3, <1>4

\* What the handler of session e does to caller l when it serves those in T.
Handles(st, t, e, T, l) ==
  IF l \in T THEN st.status[l] # "idle" /\ ServedBy(st, t, e, l) ELSE Stays(st, t, l)

LEMMA ServesGoesOn ==
  ASSUME NEW st, NEW u, NEW t, NEW e, NEW T, NEW l, Handles(st, u, e, T, l), SameCalls(u, t),
         SameCapacity(u, t), t.currentStreamCount = u.currentStreamCount,
         Took(u, e) => Spares(u, t, e)
  PROVE  Handles(st, t, e, T, l)
<1>1. CASE l \in T
  BY <1>1, ServedGoesOn DEF Handles
<1>2. CASE l \notin T
  BY <1>2, SameCallsWanted DEF Handles, Stays
<1>. QED
  BY <1>1, <1>2

LEMMA SettlesServes ==
  ASSUME NEW st, NEW u, NEW t, NEW e \in Entries, NEW T, NEW l, Handles(st, u, e, T, l), Settles(u, t)
  PROVE  Handles(st, t, e, T, l)
  BY ServesGoesOn DEF Settles

LEMMA ListenersServedCallers ==
  ASSUME NEW st, Good(st), Accounted(st, None, {}), NEW e \in Entries, st.phase[e] = "ready",
         NEW T \in SUBSET WaitingFor(st, e), ServesInTurn(st, e, T),
         NEW t, ListenersServed(st, t, e, T), NEW l \in Listeners
  PROVE  Handles(st, t, e, T, l)
<1>. DEFINE D == Emptied(st, e, T)
            C == Candidates(st, e)
<1>1. /\ st \in StateType /\ st.listeners \in [Entries -> SUBSET Listeners]
      /\ st.originSet \in [Entries -> SUBSET Origins]
      /\ st.currentStreamCount \in [Entries -> Int]
  BY DEF Good, StateType
<1>2. Streaming(st) /\ Filed(st) /\ Listening(st, None, {}) /\ st.options[e] \in Options
  BY ReadyKeyed DEF Accounted
<1>3. C \subseteq Entries /\ D \subseteq C /\ e \notin D /\ \A x \in D : st.listeners[x] \subseteq T
  BY EmptiedQueued
<1>4. \A x \in C : st.options[x] = st.options[e] /\ st.origin[x] \in st.originSet[e]
  BY <1>1, <1>2 DEF Candidates, Filed
<1>5. /\ \A x \in Entries : t.listeners[x] =
           IF x \in D THEN {} ELSE IF x \in C THEN st.listeners[x] \ T ELSE st.listeners[x]
      /\ t.origin = [x \in Entries |-> IF x \in D THEN None ELSE st.origin[x]]
      /\ t.options = [x \in Entries |-> IF x \in D THEN None ELSE st.options[x]]
      /\ t.originSet = [x \in Entries |-> IF x \in D THEN {} ELSE st.originSet[x]]
      /\ t.maxConcurrentStreams = [x \in Entries |-> IF x \in D THEN 0 ELSE st.maxConcurrentStreams[x]]
      /\ t.life = st.life /\ t.gracefullyClosing = st.gracefullyClosing \ D
      /\ t.currentStreamCount = [st.currentStreamCount EXCEPT ![e] = @ + Cardinality(Opened(st, e, T))]
      /\ t.status = [k \in Listeners |-> IF k \in T THEN StatusOffered(st, e, k) ELSE st.status[k]]
      /\ t.given = [k \in Listeners |-> IF k \in T THEN e ELSE st.given[k]]
  BY DEF ListenersServed
<1>6. T \subseteq Listeners /\ \A k \in T : \E x \in C : k \in st.listeners[x]
  BY <1>1, <1>3 DEF WaitingFor
<1>. HIDE DEF C, D
<1>7. CASE l \in T
  <2>1. \A k \in T : st.status[k] \in {"waiting", "rejected"}
    BY <1>2, <1>3, <1>6 DEF Listening
  <2>2. ASSUME NEW k \in T, st.status[k] # "rejected" PROVE Wanted(st, k) \subseteq Offered(t, e)
    <3>1. PICK x \in C : k \in st.listeners[x]
      BY <1>6
    <3>2. x \in Entries /\ st.status[k] = "waiting"
      BY <1>2, <1>3, <2>2, <3>1 DEF Listening
    <3>3. \A y, z \in Entries : y # z => st.listeners[y] \cap st.listeners[z] = {}
      BY <1>2 DEF Listening
    <3>4. Wanted(st, k) = {<<st.options[x], st.origin[x]>>}
      BY <3>1, <3>2, <3>3, OneWanted
    <3>5. t.options[e] = st.options[e] /\ t.originSet[e] = st.originSet[e]
      BY <1>3, <1>5
    <3>6. st.options[x] = t.options[e] /\ st.origin[x] \in t.originSet[e] /\ st.origin[x] \in Origins
      BY <1>1, <1>4, <3>1, <3>5
    <3>7. <<st.options[x], st.origin[x]>> \in Offered(t, e)
      BY <3>6 DEF Offered
    <3>. QED
      BY <3>4, <3>7
  <2>3. \A k \in T : t.status[k] = StatusOffered(st, e, k) /\ t.given[k] = e
    BY <1>5, <1>6
  <2>4. /\ t.currentStreamCount[e] = st.currentStreamCount[e] + Cardinality(Opened(st, e, T))
        /\ t.maxConcurrentStreams[e] = st.maxConcurrentStreams[e]
    BY <1>1, <1>3, <1>5
  <2>5. Spares(st, t, e)
    BY <1>5 DEF Spares, Accepting
  <2>6. ServesUntilFull(st, e, T, T)
    BY ServesThose DEF ServesInTurn
  <2>7. ServedBy(st, t, e, l)
    BY <1>1, <1>2, <1>6, <1>7, <2>1, <2>2, <2>3, <2>4, <2>5, <2>6, ServeCallers
  <2>. QED
    BY <1>7, <2>1, <2>7 DEF Handles
<1>8. CASE l \notin T
  <2>1. t.status[l] = st.status[l] /\ t.given[l] = st.given[l]
    BY <1>5, <1>8
  <2>2. \A x \in Entries : l \in t.listeners[x] <=> l \in st.listeners[x]
    BY <1>3, <1>5, <1>8
  <2>3. \A x \in Entries : l \in st.listeners[x] =>
          t.options[x] = st.options[x] /\ t.origin[x] = st.origin[x]
    BY <1>3, <1>5, <1>8
  <2>4. Wanted(t, l) = Wanted(st, l)
    BY <2>1, <2>2, <2>3, SameWanted
  <2>. QED
    BY <1>8, <2>1, <2>4 DEF Handles, Stays
<1>. QED
  BY <1>7, <1>8

LEMMA ServesOthersCallers ==
  ASSUME NEW st, Idle(st), NEW e \in Entries, st.phase[e] = "ready",
         NEW T \in SUBSET WaitingFor(st, e), ServesOthers(st, e, T), NEW l \in Listeners
  PROVE  Handles(st, Now', e, T, l)
<1>. DEFINE served == ProcessListeners(st, e, T)
            t == IF IsFree(served, e) THEN CloseCoveredSessions(served, e) ELSE served
<1>1. ServesInTurn(st, e, T) /\ Become(t)
  BY DEF ServesOthers
<1>2. Idle(served) /\ served.phase[e] = "ready"
  BY ProcessListenersIdle
<1>3. ListenersServed(st, served, e, T)
  BY ProcessListenersAccounted DEF Idle
<1>. HIDE DEF served
<1>4. Handles(st, served, e, T, l)
  BY <1>1, <1>3, ListenersServedCallers DEF Idle
<1>5. Shuts(served, CloseCoveredSessions(served, e)) /\ Spares(served, CloseCoveredSessions(served, e), e)
  BY <1>2, CloseCoveredSessionsShuts DEF Idle
<1>6. Handles(st, t, e, T, l)
  <2>1. CASE IsFree(served, e)
    <3>. DEFINE u == CloseCoveredSessions(served, e)
    <3>1. /\ SameCalls(served, u) /\ SameCapacity(served, u)
          /\ u.currentStreamCount = served.currentStreamCount
      BY <1>5, ShutsCalls DEF Shuts, SameAccounts, SameStreams
    <3>2. Spares(served, u, e) /\ t = u
      BY <1>5, <2>1
    <3>. HIDE DEF u, t
    <3>3. Handles(st, u, e, T, l)
      BY <1>4, <3>1, <3>2, ServesGoesOn
    <3>. QED
      BY <3>2, <3>3
  <2>2. CASE ~IsFree(served, e)
    BY <1>4, <2>2
  <2>. QED
    BY <2>1, <2>2
<1>. HIDE DEF t
<1>. QED
  BY <1>1, <1>6, BecomeSettles, SettlesServes

\* A handler that first changed what e offers.
LEMMA ServesAfter ==
  ASSUME NEW st, NEW u, SameCalls(st, u), NEW e \in Entries, st.life[e] # "destroyed",
         NEW t, NEW T, NEW l, Handles(u, t, e, T, l)
  PROVE  CallerStep(st, t, l)
<1>1. Stays(st, u, l)
  BY SameCallsWanted
<1>2. CASE l \in T
  <2>1. st.status[l] # "idle" /\ ServedBy(st, t, e, l)
    BY <1>1, <1>2, ServedAfter DEF Handles, Stays
  <2>. QED
    BY <2>1 DEF CallerStep
<1>3. CASE l \notin T
  BY <1>1, <1>3 DEF Handles, CallerStep, Stays
<1>. QED
  BY <1>2, <1>3

LEMMA SettingsUpdateCallers ==
  ASSUME SInv, NEW e \in Entries, NEW n \in Limits, SettingsUpdate(e, n), NEW l \in Listeners
  PROVE  CallerStep(Now, Now', l)
<1>1. PICK st : /\ SameAccounts(Now, st) /\ SameOffers(Now, st, e) /\ Idle(st) /\ st.phase[e] = "ready"
                /\ \/ ~IsFree(st, e) /\ Become(st)
                   \/ \E T \in SUBSET WaitingFor(st, e) : ServesOthers(st, e, T)
  BY SettingsUpdateSteps DEF SInv
<1>2. SameCalls(Now, st) /\ Now.life[e] # "destroyed"
  BY <1>1, NowFields DEF SettingsUpdate, SameAccounts, SameCallers, SameKeys, SameCalls
<1>3. CASE Become(st)
  BY <1>2, <1>3, CallsStep, BecomeSteps
<1>4. CASE \E T \in SUBSET WaitingFor(st, e) : ServesOthers(st, e, T)
  BY <1>1, <1>2, <1>4, ServesOthersCallers, ServesAfter
<1>. QED
  BY <1>1, <1>3, <1>4

LEMMA OriginFrameCallers ==
  ASSUME SInv, NEW e \in Entries, NEW frame \in OriginFrames, OriginFrame(e, frame), NEW l \in Listeners
  PROVE  CallerStep(Now, Now', l)
<1>1. PICK u : /\ SameAccounts(Now, u) /\ Idle(u)
               /\ Idle(CloseSessionIfCovered(u, e)) /\ CloseSessionIfCovered(u, e).phase[e] = "ready"
               /\ LET st == CloseSessionIfCovered(u, e)
                  IN  \/ (e \in st.gracefullyClosing \/ ~IsFree(st, e)) /\ Become(st)
                      \/ \E T \in SUBSET WaitingFor(st, e) : ServesOthers(st, e, T)
  BY OriginFrameSteps DEF SInv
<1>. DEFINE st == CloseSessionIfCovered(u, e)
<1>2. Shuts(u, st)
  BY <1>1, CloseSessionIfCoveredShuts DEF Idle
<1>3. /\ Idle(st) /\ st.phase[e] = "ready"
      /\ Become(st) \/ \E T \in SUBSET WaitingFor(st, e) : ServesOthers(st, e, T)
  BY <1>1
<1>. HIDE DEF st
<1>4. SameCalls(Now, st) /\ Now.life[e] # "destroyed"
  <2>1. SameCalls(u, st)
    BY <1>2, ShutsCalls
  <2>2. SameCalls(Now, u)
    BY <1>1 DEF SameAccounts, SameCallers, SameKeys, SameCalls
  <2>3. life[e] # "destroyed"
    BY DEF OriginFrame
  <2>. QED
    BY <2>1, <2>2, <2>3, NowFields DEF SameCalls
<1>5. CASE Become(st)
  BY <1>4, <1>5, CallsStep, BecomeSteps
<1>6. CASE \E T \in SUBSET WaitingFor(st, e) : ServesOthers(st, e, T)
  BY <1>3, <1>4, <1>6, ServesOthersCallers, ServesAfter
<1>. QED
  BY <1>3, <1>5, <1>6

LEMMA ContinuesCallers ==
  ASSUME NEW st \in StateType, Accounted(st, None, {}), NEW e \in Entries, st.phase[e] = "ready",
         ~ClosesAfter(st, e) => Idle(st), ContinuesAfter(st, e), NEW l \in Listeners
  PROVE  \E T : /\ Handles(st, Now', e, T, l) /\ \A k \in T : st.status[k] \in {"waiting", "rejected"}
                /\ T # {} => life[e] = "open"
<1>1. ASSUME NEW t, SameCalls(st, t), Become(t)
      PROVE  Handles(st, Now', e, {}, l)
  <2>1. Handles(st, t, e, {}, l)
    BY <1>1, SameCallsWanted DEF Handles
  <2>. QED
    BY <1>1, <2>1, BecomeSettles, SettlesServes
<1>2. CASE ClosesAfter(st, e) /\ Become(Close(st, {e}))
  <2>1. SameCalls(st, Close(st, {e}))
    BY CloseShuts, ShutsCalls
  <2>. QED
    BY <1>1, <1>2, <2>1
<1>3. CASE Become(st)
  <2>1. SameCalls(st, st)
    BY DEF SameCalls
  <2>. QED
    BY <1>1, <1>3, <2>1
<1>4. CASE UsableAfter(st, e) /\ IsCovered(st, e) /\ Become(CloseSessionIfCovered(st, e))
  <2>1. Good(st)
    BY <1>4 DEF UsableAfter, Idle
  <2>2. SameCalls(st, CloseSessionIfCovered(st, e))
    BY <2>1, CloseSessionIfCoveredShuts, ShutsCalls
  <2>. QED
    BY <1>1, <1>4, <2>2
<1>5. ASSUME UsableAfter(st, e), NEW T \in SUBSET WaitingFor(st, e),
             ServesInTurn(CloseCoveredSessions(st, e), e, T),
             LET served == ProcessListeners(CloseCoveredSessions(st, e), e, T)
             IN  BecomeOneOf(IF served.currentStreamCount[e] = 0 THEN ProcessQueue(served) ELSE {served})
      PROVE  /\ Handles(st, Now', e, T, l) /\ \A k \in T : st.status[k] \in {"waiting", "rejected"}
             /\ T # {} => life[e] = "open"
  <2>. DEFINE covering == CloseCoveredSessions(st, e)
              served == ProcessListeners(covering, e, T)
  <2>1. Idle(st) /\ Good(st) /\ life[e] = "open"
    BY <1>5 DEF UsableAfter, Idle
  <2>2. /\ Idle(covering) /\ Good(covering) /\ Accounted(covering, None, {}) /\ Attended(covering)
        /\ WaitingFor(st, e) = WaitingFor(covering, e) /\ covering.phase[e] = "ready"
    <3>1. Idle(covering)
      BY <2>1, CloseCoveredSessionsIdle
    <3>2. WaitingFor(st, e) = WaitingFor(covering, e) /\ covering.phase[e] = "ready"
      BY <2>1, CoveringWaiting
    <3>. QED
      BY <3>1, <3>2 DEF Idle
  <2>3. SameCalls(st, covering)
    BY <2>1, CloseCoveredSessionsShuts, ShutsCalls
  <2>4. /\ ServesInTurn(covering, e, T)
        /\ BecomeOneOf(IF served.currentStreamCount[e] = 0 THEN ProcessQueue(served) ELSE {served})
    BY <1>5
  <2>. HIDE DEF covering
  <2>5. ListenersServed(covering, served, e, T) /\ Idle(served)
    BY <2>2, ProcessListenersAccounted, ProcessListenersIdle
  <2>. HIDE DEF served
  <2>6. Handles(covering, served, e, T, l)
    BY <2>2, <2>4, <2>5, ListenersServedCallers
  <2>7. Handles(st, served, e, T, l)
    <3>1. Stays(st, covering, l)
      BY <2>3, SameCallsWanted
    <3>. QED
      BY <2>6, <3>1, ServedAfter DEF Handles, Stays
  <2>8. Handles(st, Now', e, T, l)
    <3>1. PICK t : Become(t) /\ (t = served \/ t \in ProcessQueue(served))
      BY <2>4 DEF BecomeOneOf
    <3>2. Handles(st, t, e, T, l)
      BY <2>5, <2>7, <3>1, ProcessQueueSettles, SettlesServes DEF Idle, Good
    <3>. QED
      BY <3>1, <3>2, BecomeSettles, SettlesServes
  <2>9. \A k \in T : st.status[k] \in {"waiting", "rejected"}
    <3>1. Candidates(st, e) \subseteq Entries
      BY <2>1, EmptiedQueued
    <3>. QED
      BY <3>1 DEF WaitingFor, Accounted, Listening
  <2>. QED
    BY <2>1, <2>8, <2>9
<1>. QED
  BY <1>2, <1>3, <1>4, <1>5, <1>1 DEF ContinuesAfter

LEMMA StreamCloseCallers ==
  ASSUME SInv, NEW m \in Listeners, StreamClose(m), NEW l \in Listeners
  PROVE  CallerStep(Now, Now', l)
<1>. DEFINE e == given[m]
<1>1. PICK st \in StateType :
        /\ StreamEnded(Now, st, m) /\ st.phase = phase
        /\ Accounted(st, None, {}) /\ Attended(st) /\ st.relay = None
        /\ ~ClosesAfter(st, e) => Idle(st)
        /\ ContinuesAfter(st, e)
  BY StreamCloseSteps DEF SInv
<1>2. /\ e \in Entries /\ st.phase[e] = "ready" /\ Idle(Now)
      /\ Now.status[m] \in {"streaming", "orphan"}
  BY <1>1, StreamCloseSteps DEF SInv
<1>3. PICK T : /\ Handles(st, Now', e, T, l) /\ \A k \in T : st.status[k] \in {"waiting", "rejected"}
               /\ T # {} => life[e] = "open"
  <2>. HIDE DEF e
  <2>. QED
    BY <1>1, <1>2, ContinuesCallers
<1>4. /\ Now.status \in [Listeners -> Statuses] /\ Now.given \in [Listeners -> Entries \cup {None}]
      /\ st.status = [Now.status EXCEPT ![m] = "done"] /\ st.given = [Now.given EXCEPT ![m] = None]
      /\ st.listeners = Now.listeners /\ st.options = Now.options /\ st.origin = Now.origin
  BY <1>1, <1>2 DEF StreamEnded, SameKeys, Idle, Good, StateType
<1>5. CASE l = m
  <2>1. st.status[l] = "done" /\ l \notin T
    BY <1>3, <1>4, <1>5
  <2>. QED
    BY <1>2, <1>3, <1>5, <2>1 DEF Handles, Stays, CallerStep, Ends
<1>6. CASE l # m
  <2>1. st.status[l] = Now.status[l] /\ st.given[l] = Now.given[l]
    BY <1>4, <1>6
  <2>2. Stays(Now, st, l)
    BY <1>4, <2>1, SameWanted DEF Stays
  <2>3. CASE l \in T
    <3>1. Now.life[e] # "destroyed" /\ Now.status[l] # "idle" /\ ServedBy(Now, Now', e, l)
      BY <1>3, <2>1, <2>2, <2>3, ServedAfter, NowFields DEF Handles
    <3>. QED
      BY <1>2, <3>1 DEF CallerStep
  <2>4. CASE l \notin T
    BY <1>3, <2>2, <2>4 DEF Handles, Stays, CallerStep
  <2>. QED
    BY <2>3, <2>4
<1>. QED
  BY <1>5, <1>6

\* Every step of the pool but a call is, to each caller, one of these kinds.
LEMMA OtherCallers ==
  ASSUME SInv, OtherStep, NEW l \in Listeners
  PROVE  CallerStep(Now, Now', l)
<1>2. ASSUME NEW m \in Listeners, RejectServername(m) \/ UserRequest(m) \/ StreamClose(m)
      PROVE  CallerStep(Now, Now', l)
  BY <1>2, RejectServernameCallers, UserRequestCallers, StreamCloseCallers
<1>3. CASE CloseEmpty \/ AgentDestroy
  BY <1>3, CloseEmptyCallers, AgentDestroyCallers
<1>4. ASSUME NEW e \in Entries, Connected(e) \/ ConnectFailed(e) \/ FirstSettingsRefused(e)
      PROVE  CallerStep(Now, Now', l)
  BY <1>4, ConnectedCallers, ConnectFailedCallers, FirstSettingsRefusedCallers
<1>5. ASSUME NEW e \in Entries, NEW n \in Limits, FirstSettings(e, n, FALSE) \/ FirstSettings(e, n, TRUE)
      PROVE  CallerStep(Now, Now', l)
  BY <1>5, FirstSettingsCallers
<1>6. ASSUME NEW e \in Entries, Relay(e)
      PROVE  CallerStep(Now, Now', l)
  BY <1>6, RelayCallers
<1>7. ASSUME NEW e \in Entries, NEW n \in Limits, SettingsUpdate(e, n)
      PROVE  CallerStep(Now, Now', l)
  BY <1>7, SettingsUpdateCallers
<1>8. ASSUME NEW e \in Entries, NEW frame \in OriginFrames, OriginFrame(e, frame)
      PROVE  CallerStep(Now, Now', l)
  BY <1>8, OriginFrameCallers
<1>9. ASSUME NEW e \in Entries, SessionClose(e) \/ SessionLost(e) \/ SessionDrained(e) \/ SessionClosed(e)
      PROVE  CallerStep(Now, Now', l)
  BY <1>9, SessionEndsCallers, SessionClosedCallers
<1>. QED
  BY <1>2, <1>3, <1>4, <1>5, <1>6, <1>7, <1>8, <1>9 DEF OtherStep

LEMMA NextCallers ==
  ASSUME SInv, Next, NEW l \in Listeners
  PROVE  CallerStep(Now, Now', l) \/ \E o \in Origins, p \in Options : Asks(Now, Now', o, p, l)
BY GetSessionCallers, OtherCallers DEF Next, CallerStep

------------------------------------------------------------------------------
(* The theorems about steps.                                                *)

LEMMA NextFields ==
  /\ Now'.status = status' /\ Now'.given = given' /\ Now'.listeners = listeners'
  /\ Now'.origin = origin' /\ Now'.options = options' /\ Now'.originSet = originSet'
  /\ Now'.currentStreamCount = currentStreamCount'
  /\ Now'.maxConcurrentStreams = maxConcurrentStreams'
  /\ Now'.life = life' /\ Now'.gracefullyClosing = gracefullyClosing'
  BY DEF Now

\* Whichever handler serves a caller of request(), the session it serves it with
\* stays within its limit of concurrent streams: listeners served in a row, by
\* another session's handler or moved to another entry never overload it.
THEOREM NeverOverloaded == Spec => NoOverload
<1>. DEFINE A == \A l \in Requests : status'[l] \in {"streaming", "orphan"} /\ status[l] # status'[l] =>
                   currentStreamCount'[given'[l]] <= maxConcurrentStreams'[given'[l]]
<1>1. ASSUME SInv, Next, NEW l \in Requests, status'[l] \in {"streaming", "orphan"}, status[l] # status'[l]
      PROVE  currentStreamCount'[given'[l]] <= maxConcurrentStreams'[given'[l]]
  <2>1. l \in Listeners
    BY ListenersAssumption
  <2>2. CallerStep(Now, Now', l) \/ \E o \in Origins, p \in Options : Asks(Now, Now', o, p, l)
    BY <1>1, <2>1, NextCallers
  <2>3. Now.status[l] # "holding"
    BY <1>1, <2>1 DEF SInv, Fit, Calm, Decided
  <2>4. \E s \in Entries : ServedBy(Now, Now', s, l)
    BY <1>1, <2>2, <2>3, NowFields, NextFields
       DEF CallerStep, Asks, Stays, Begins, Rejects, Uses, Ends
  <2>. QED
    BY <1>1, <2>4, NextFields DEF ServedBy, Took
<1>2. SInv /\ [Next]_vars => [A]_vars
  BY <1>1
<1>. QED
  BY <1>2, ServiceInvariant, PTL DEF Spec, NoOverload

\* The scan picks the session of the highest capacity, as long as the list is
\* sorted by it, and among those one with most streams.
LEMMA PickedBest ==
  ASSUME NEW st \in StateType, NEW o, NEW p \in Options,
         \A j, k \in 1..Len(st.sessions[p]) : j < k =>
           st.maxConcurrentStreams[st.sessions[p][j]] >= st.maxConcurrentStreams[st.sessions[p][k]],
         NEW i, PickedAt(st, o, p, i), NEW j \in AvailableAt(st, o, p)
  PROVE  LET e == st.sessions[p][j]
             best == st.sessions[p][i]
         IN  \/ st.maxConcurrentStreams[e] < st.maxConcurrentStreams[best]
             \/ /\ st.maxConcurrentStreams[e] = st.maxConcurrentStreams[best]
                /\ st.currentStreamCount[e] <= st.currentStreamCount[best]
<1>. DEFINE list == st.sessions[p]
            limit(k) == st.maxConcurrentStreams[list[k]]
            streams(k) == st.currentStreamCount[list[k]]
            found == AvailableAt(st, o, p)
            Scanned(k) == \E f \in found : /\ \A g \in found : f <= g
                                           /\ \A m \in f..k : limit(m) >= limit(f)
<1>1. list \in Seq(Entries) /\ Len(list) \in Nat
  BY DEF StateType
<1>2. /\ found \subseteq 1..Len(list)
      /\ \A k \in 1..Len(list) : limit(k) \in Int /\ streams(k) \in Int
  <2>1. /\ st.maxConcurrentStreams \in [Entries -> Nat]
        /\ st.currentStreamCount \in [Entries -> Int]
    BY DEF StateType
  <2>2. found \subseteq 1..Len(list)
    BY DEF AvailableAt
  <2>. HIDE DEF list, found
  <2>3. \A k \in 1..Len(list) : list[k] \in Entries
    BY <1>1
  <2>. QED
    BY <2>1, <2>2, <2>3
<1>3. /\ i \in found /\ Scanned(i)
      /\ \A k \in found : Scanned(k) => streams(k) < streams(i) \/ (streams(k) = streams(i) /\ i <= k)
  BY DEF PickedAt
<1>4. PICK f \in found : (\A g \in found : f <= g) /\ \A m \in f..i : limit(m) >= limit(f)
  BY <1>3
<1>5. \A k, m \in 1..Len(list) : k < m => limit(k) >= limit(m)
  OBVIOUS
<1>6. i \in 1..Len(list) /\ j \in 1..Len(list) /\ f \in 1..Len(list) /\ f <= i /\ f <= j
  BY <1>2, <1>3, <1>4
<1>. HIDE DEF limit, streams, list, found
<1>7. limit(f) = limit(i)
  <2>1. i \in f..i
    BY <1>1, <1>6
  <2>2. limit(i) >= limit(f) /\ limit(i) \in Int /\ limit(f) \in Int
    BY <1>2, <1>4, <1>6, <2>1
  <2>3. f < i => limit(f) >= limit(i)
    BY <1>5, <1>6
  <2>. QED
    BY <1>1, <1>6, <2>2, <2>3
<1>8. limit(j) \in Int /\ limit(f) \in Int /\ limit(j) <= limit(f)
  <2>1. limit(j) \in Int /\ limit(f) \in Int
    BY <1>2, <1>6
  <2>2. f < j => limit(f) >= limit(j)
    BY <1>5, <1>6
  <2>. QED
    BY <1>1, <1>6, <2>1, <2>2
<1>9. CASE limit(j) = limit(f)
  <2>1. ASSUME NEW m \in f..j PROVE limit(m) >= limit(f)
    <3>1. m \in 1..Len(list) /\ m <= j /\ m \in Int
      BY <1>1, <1>6
    <3>2. m < j => limit(m) >= limit(j)
      BY <1>5, <1>6, <3>1
    <3>3. limit(m) \in Int
      BY <1>2, <3>1
    <3>. QED
      BY <1>1, <1>6, <1>8, <1>9, <3>1, <3>2, <3>3
  <2>2. Scanned(j)
    BY <1>4, <2>1
  <2>3. streams(j) \in Int /\ streams(i) \in Int
    BY <1>2, <1>6
  <2>4. j \in found
    BY DEF found
  <2>5. streams(j) <= streams(i)
    BY <1>3, <2>2, <2>3, <2>4
  <2>. QED
    BY <1>7, <1>9, <2>5 DEF limit, streams, list
<1>. QED
  BY <1>7, <1>8, <1>9 DEF limit, list

\* getSession() gives the best available session, as long as no server changes
\* its limit after its first SETTINGS: the list is never sorted again.
THEOREM BestPicked == "settings" \notin Environment => (Spec => PicksBest)
<1>. DEFINE Better(o, p, l) ==
              \A i \in AvailableAt(Now, o, p) :
                LET e == sessions[p][i]
                    best == given'[l]
                IN \/ maxConcurrentStreams[e] < maxConcurrentStreams[best]
                   \/ /\ maxConcurrentStreams[e] = maxConcurrentStreams[best]
                      /\ currentStreamCount[e] <= currentStreamCount[best]
            A == \A l \in Listeners, o \in Origins, p \in Options :
                   GetSession(l, o, p) /\ given'[l] # None => Better(o, p, l)
<1>1. ASSUME SInv, "settings" \notin Environment,
             NEW l \in Listeners, NEW o \in Origins, NEW p \in Options, GetSession(l, o, p)
      PROVE  Better(o, p, l)
  <2>1. CASE AvailableAt(Now, o, p) = {}
    BY <2>1
  <2>2. CASE AvailableAt(Now, o, p) # {}
    <3>1. PICK i \in AvailableAt(Now, o, p) : PickedAt(Now, o, p, i) /\ Become(Serve(Now, sessions[p][i], {l}))
      BY <1>1, <2>2 DEF GetSession
    <3>. DEFINE e == sessions[p][i]
                t == Serve(Now, e, {l})
    <3>2. Now \in StateType /\ Ordered(Now)
      BY <1>1, FitNow DEF GetSession, Fit, Calm
    <3>3. e \in Entries
      BY <1>1, ListedHasSession, NowFields DEF AvailableAt, SInv, AInv, HasSession
    <3>4. t.given = [k \in Listeners |-> IF k \in {l} THEN e ELSE Now.given[k]]
      <4>1. ServeChanges(Now, t, e, {l})
        BY <3>2, <3>3, ServeFields
      <4>. HIDE DEF t, e
      <4>. QED
        BY <4>1 DEF ServeChanges
    <3>5. given' = t.given
      BY <3>1 DEF Become
    <3>. HIDE DEF e, t
    <3>6. given'[l] = e
      BY <3>4, <3>5
    <3>7. Now.sessions = sessions /\ Now.maxConcurrentStreams = maxConcurrentStreams
          /\ Now.currentStreamCount = currentStreamCount
      BY DEF Now
    <3>8. \A j, k \in 1..Len(Now.sessions[p]) : j < k =>
           Now.maxConcurrentStreams[Now.sessions[p][j]] >= Now.maxConcurrentStreams[Now.sessions[p][k]]
      BY <1>1, <3>2 DEF Ordered
    <3>9. ASSUME NEW j \in AvailableAt(Now, o, p)
          PROVE  LET x == Now.sessions[p][j]
                     best == Now.sessions[p][i]
                 IN  \/ Now.maxConcurrentStreams[x] < Now.maxConcurrentStreams[best]
                     \/ /\ Now.maxConcurrentStreams[x] = Now.maxConcurrentStreams[best]
                        /\ Now.currentStreamCount[x] <= Now.currentStreamCount[best]
      BY <3>1, <3>2, <3>8, PickedBest
    <3>. QED
      BY <3>6, <3>7, <3>9 DEF e
  <2>. QED
    BY <2>1, <2>2
<1>2. SUFFICES ASSUME "settings" \notin Environment PROVE Spec => PicksBest
  OBVIOUS
<1>3. SInv /\ [Next]_vars => [A]_vars
  BY <1>1, <1>2
<1>. QED
  BY <1>3, ServiceInvariant, PTL DEF Spec, PicksBest

------------------------------------------------------------------------------
(* The refinement.                                                          *)

\* What a caller asked for is what it is registered for while it waits, and it is
\* forgotten once the call is answered.
Recalled ==
  \A l \in Listeners :
    /\ status[l] = "idle" => asked[l] \in Options \X Origins
    /\ status[l] = "waiting" => Wants(l) = {asked[l]}
    /\ status[l] \notin {"idle", "waiting"} => asked[l] = None

RInv == SInv /\ Recalled

LEMMA WantsWanted ==
  ASSUME NEW l \in Listeners
  PROVE  Wants(l) = Wanted(Now, l) /\ Wants(l)' = Wanted(Now', l)
BY NowFields, NextFields DEF Wants, Wanted

\* A step to one caller: it calls for what it asks, or something else happens.
Recorded(l) ==
  /\ asked'[l] = IF status'[l] \in {"idle", "waiting"} THEN asked[l] ELSE None
  /\ \/ \E o \in Origins, p \in Options : asked[l] = <<p, o>> /\ Asks(Now, Now', o, p, l)
     \/ CallerStep(Now, Now', l)

LEMMA NextRecorded ==
  ASSUME RInv, Next, NEW l \in Listeners PROVE Recorded(l)
<1>1. asked'[l] = IF status'[l] \in {"idle", "waiting"} THEN asked[l] ELSE None
  BY NextKeeps DEF Keeps
<1>2. ASSUME NEW m \in Listeners, NEW o \in Origins, NEW p \in Options, GetSession(m, o, p)
      PROVE  Recorded(l)
  <2>1. IF l = m THEN Asks(Now, Now', o, p, l) ELSE Stays(Now, Now', l)
    BY <1>2, GetSessionCallers DEF RInv
  <2>2. asked[m] = <<p, o>>
    BY <1>2 DEF GetSession
  <2>. QED
    BY <1>1, <2>1, <2>2 DEF Recorded, CallerStep
<1>3. CASE OtherStep
  BY <1>1, <1>3, OtherCallers DEF RInv, Recorded
<1>. QED
  BY <1>2, <1>3 DEF Next

LEMMA RecordedRecalled ==
  ASSUME RInv, NEW l \in Listeners, Recorded(l)
  PROVE  /\ status'[l] = "idle" => asked'[l] \in Options \X Origins
         /\ status'[l] = "waiting" => Wants(l)' = {asked'[l]}
         /\ status'[l] \notin {"idle", "waiting"} => asked'[l] = None
<1>1. /\ Now.status = status /\ Now'.status = status'
      /\ Wants(l) = Wanted(Now, l) /\ Wants(l)' = Wanted(Now', l)
  BY NowFields, NextFields, WantsWanted
<1>2. /\ status[l] = "idle" => asked[l] \in Options \X Origins
      /\ status[l] = "waiting" => Wants(l) = {asked[l]}
  BY DEF RInv, Recalled
<1>3. asked'[l] = IF status'[l] \in {"idle", "waiting"} THEN asked[l] ELSE None
  BY DEF Recorded
<1>4. ASSUME NEW o \in Origins, NEW p \in Options, asked[l] = <<p, o>>, Asks(Now, Now', o, p, l)
      PROVE  /\ status'[l] # "idle"
             /\ status'[l] = "waiting" => Wants(l)' = {asked[l]}
  BY <1>1, <1>4 DEF Asks, Begins, ServedBy
<1>5. CASE CallerStep(Now, Now', l)
  <2>1. CASE Stays(Now, Now', l)
    BY <1>1, <1>2, <1>3, <2>1 DEF Stays
  <2>2. CASE ~Stays(Now, Now', l)
    <3>1. status'[l] \notin {"idle", "waiting"}
      BY <1>1, <1>5, <2>2 DEF CallerStep, Rejects, Uses, Ends, ServedBy
    <3>. QED
      BY <1>3, <3>1
  <2>. QED
    BY <2>1, <2>2
<1>. QED
  BY <1>3, <1>4, <1>5 DEF Recorded

LEMMA NextRInv == ASSUME RInv, [Next]_vars PROVE RInv'
<1>1. SInv'
  BY NextSInv DEF RInv
<1>2. CASE Next
  <2>1. Recalled'
    BY <1>2, NextRecorded, RecordedRecalled DEF Recalled
  <2>. QED
    BY <1>1, <2>1 DEF RInv
<1>3. CASE UNCHANGED vars
  <2>1. /\ status' = status /\ listeners' = listeners /\ origin' = origin
        /\ options' = options /\ asked' = asked
    BY <1>3 DEF vars
  <2>. QED
    BY <1>1, <2>1 DEF RInv, Recalled, Wants
<1>. QED
  BY <1>2, <1>3

\* What a step is to a caller in the terms of SessionService.
LEMMA CallerServed ==
  ASSUME RInv, NEW l \in Listeners, Recorded(l)
  PROVE  \/ Service!Wait(l) \/ Service!Answer(l) \/ Service!Reject(l) \/ Service!Use(l)
         \/ Service!Late(l) \/ Service!End(l) \/ Service!Stay(l)
<1>1. /\ [k \in Listeners |-> Wants(k)][l] = Wanted(Now, l)
      /\ [k \in Listeners |-> Wants(k)'][l] = Wanted(Now', l)
  BY WantsWanted
<1>2. /\ status[l] = "waiting" => Wanted(Now, l) = {asked[l]}
      /\ status[l] \notin {"idle", "waiting"} => asked[l] = None
      /\ asked'[l] = IF status'[l] \in {"idle", "waiting"} THEN asked[l] ELSE None
  BY WantsWanted DEF RInv, Recalled, Recorded
<1>3. \A s \in Entries : [e \in Entries |-> Serves(e)'][s] = Offered(Now', s)
  BY NextFields DEF Serves, Offered
<1>4. ASSUME NEW o \in Origins, NEW p \in Options, asked[l] = <<p, o>>, Begins(Now, Now', o, p, l)
      PROVE  Service!Wait(l)
  BY <1>1, <1>2, <1>4, NowFields, NextFields DEF Begins, Service!Wait
<1>5. ASSUME NEW s \in Entries, life[s] # "destroyed", ServedBy(Now, Now', s, l),
             status[l] \in {"idle", "waiting"}, asked[l] \in Offered(Now', s)
      PROVE  Service!Answer(l)
  BY <1>3, <1>5, NowFields, NextFields DEF ServedBy, Took, Service!Answer
<1>6. ASSUME NEW o \in Origins, NEW p \in Options, asked[l] = <<p, o>>, Asks(Now, Now', o, p, l)
      PROVE  Service!Wait(l) \/ Service!Answer(l)
  BY <1>4, <1>5, <1>6, NowFields DEF Asks
<1>7. ASSUME NEW s \in Entries, life[s] # "destroyed", status[l] # "idle",
             ServedBy(Now, Now', s, l)
      PROVE  Service!Answer(l) \/ Service!Late(l)
  <2>1. CASE status[l] = "waiting"
    <3>1. asked[l] \in Offered(Now', s)
      BY <1>2, <1>7, <2>1, NowFields DEF ServedBy
    <3>. QED
      BY <1>5, <1>7, <2>1, <3>1
  <2>2. CASE status[l] # "waiting"
    BY <1>7, <2>2, NowFields, NextFields DEF ServedBy, Service!Late
  <2>. QED
    BY <2>1, <2>2
<1>8. ASSUME Stays(Now, Now', l) PROVE Service!Stay(l)
  <2>1. status'[l] = status[l]
    BY <1>8, NowFields, NextFields DEF Stays
  <2>2. asked'[l] = asked[l]
    BY <1>2, <2>1
  <2>. QED
    BY <1>1, <1>8, <2>1, <2>2, NowFields, NextFields DEF Stays, Service!Stay
<1>9. Rejects(Now, Now', l) => Service!Reject(l)
  BY NowFields, NextFields DEF Rejects, Service!Reject
<1>10. ASSUME Uses(Now, Now', l) PROVE Service!Use(l)
  <2>1. given[l] \in Entries
    BY <1>10, NowFields DEF Uses, RInv, SInv, AInv, IInv, Good, Holding, HasSession
  <2>. QED
    BY <1>10, <2>1, NowFields, NextFields DEF Uses, Service!Use
<1>11. Ends(Now, Now', l) => Service!End(l)
  BY NowFields, NextFields DEF Ends, Service!End
<1>12. ASSUME CallerStep(Now, Now', l)
       PROVE  \/ Service!Answer(l) \/ Service!Reject(l) \/ Service!Use(l)
              \/ Service!Late(l) \/ Service!End(l) \/ Service!Stay(l)
  BY <1>7, <1>8, <1>9, <1>10, <1>11, <1>12, NowFields DEF CallerStep
<1>. QED
  BY <1>6, <1>12 DEF Recorded

LEMMA InitService == ASSUME Init PROVE Service!Init /\ RInv
<1>1. \A l \in Listeners : Wants(l) = {} /\ status[l] = "idle"
  BY DEF Init, Wants
<1>2. asked \in [Listeners -> Options \X Origins]
  BY CallsAssumption DEF Init
<1>3. Recalled
  BY <1>1, <1>2 DEF Recalled
<1>. QED
  BY <1>1, <1>2, <1>3, InitSInv DEF Init, RInv, Service!Init

LEMMA NextService ==
  ASSUME RInv, [Next]_vars PROVE [Service!Next]_(Service!caller)
<1>1. CASE Next
  <2>1. \A l \in Listeners :
          \/ Service!Wait(l) \/ Service!Answer(l) \/ Service!Reject(l) \/ Service!Use(l)
          \/ Service!Late(l) \/ Service!End(l) \/ Service!Stay(l)
    BY <1>1, NextRecorded, CallerServed
  <2>. QED
    BY <2>1 DEF Service!Next
<1>2. CASE UNCHANGED vars
  <2>1. /\ status' = status /\ given' = given /\ listeners' = listeners
        /\ origin' = origin /\ options' = options /\ asked' = asked
    BY <1>2 DEF vars
  <2>2. \A l \in Listeners : Wants(l)' = Wants(l)
    BY <2>1 DEF Wants
  <2>. QED
    BY <2>1, <2>2 DEF Service!caller
<1>. QED
  BY <1>1, <1>2

\* The pool implements SessionService: however entries are emptied, replaced and
\* served by the handlers of other sessions, every call is answered at most once,
\* and what it is given, at once or after any wait, is a live session of the
\* options it was called with that serves the origin it asked for.
THEOREM PoolImplementsService == Spec => ImplementsService
<1>1. Init => Service!Init /\ RInv
  BY InitService
<1>2. RInv /\ [Next]_vars => RInv'
  BY NextRInv
<1>3. RInv /\ [Next]_vars => [Service!Next]_(Service!caller)
  BY NextService
<1>. QED
  BY <1>1, <1>2, <1>3, PTL DEF Spec, ImplementsService, Service!Spec
=============================================================================
