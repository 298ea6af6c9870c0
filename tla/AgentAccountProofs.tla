------------------------- MODULE AgentAccountProofs -------------------------
(***************************************************************************)
(* Theorems about the session pool: queue, lists, listeners and counters   *)
(* agree with each other and with what the entries say of themselves.      *)
(*                                                                         *)
(* The invariant is again a conjunction of predicates on a state, and each *)
(* helper of Agent has a lemma.  Some conjuncts do not hold between two    *)
(* helpers of one handler: Listening takes as parameters what the handler  *)
(* has in hand, Attended is claimed only when a handler is done.           *)
(***************************************************************************)
EXTENDS AgentProofs

------------------------------------------------------------------------------
(* The inductive invariant.                                                 *)

\* Phases in which an entry can still become the session its listeners get.
Pending == {"queued", "connecting", "connected"}

\* QueueConsistent, and its converse: a pending entry is in the queue, unless
\* the agent was destroyed since.
Filed(st) ==
  /\ \A p \in Options, o \in Origins : st.queue[p][o] # None =>
       /\ st.origin[st.queue[p][o]] = o /\ st.options[st.queue[p][o]] = p
       /\ st.phase[st.queue[p][o]] \in Pending /\ st.queue[p][o] \notin st.destroyed
  /\ \A e \in Entries : st.phase[e] \in Pending /\ e \notin st.destroyed =>
       st.queue[st.options[e]][st.origin[e]] = e
  /\ \A e \in st.destroyed : st.phase[e] \in Pending

Measured(st) == \A p \in Options : st.kLength[p] = Cardinality(InQueue(st, p))

\* Every waiting caller is a listener of one entry, a pending one or r, whose
\* leftovers are being moved; T are the callers taken out of the lists to be moved.
Listening(st, r, T) ==
  /\ \A e \in Entries : st.listeners[e] # {} => st.phase[e] \in Pending \/ e = r
  /\ \A e \in Entries : \A l \in st.listeners[e] :
       st.status[l] \in {"waiting", "rejected"} /\ l \notin T
  /\ \A x, y \in Entries : x # y => st.listeners[x] \cap st.listeners[y] = {}
  /\ \A l \in Listeners : st.status[l] = "waiting" =>
       l \in T \/ \E e \in Entries : l \in st.listeners[e]

Attended(st) == \A e \in Entries : st.phase[e] = "queued" => st.listeners[e] # {}

\* PoolConsistent on a state.
Listing(st) ==
  /\ \A e \in Entries : st.phase[e] = "ready" <=> \E p \in Options : e \in Listed(st, p)
  /\ \A p \in Options : \A i, j \in 1..Len(st.sessions[p]) :
       /\ st.options[st.sessions[p][i]] = p
       /\ st.sessions[p][i] = st.sessions[p][j] => i = j

\* The callers with a stream on session e.
Streams(st, e) == {l \in Listeners : st.given[l] = e /\ st.status[l] \in {"streaming", "orphan"}}

\* The last stream of a session closes before the session does.
Streaming(st) ==
  /\ \A l \in Listeners : st.status[l] \in {"streaming", "orphan"} => st.phase[st.given[l]] = "ready"
  /\ \A e \in Entries : st.currentStreamCount[e] = Cardinality(Streams(st, e))

InPhases(st, P) == {e \in Entries : st.phase[e] \in P}

Counted(st) ==
  st.sessionCount = Cardinality(InPhases(st, {"connecting", "connected", "ready"}))

Unused(st) == {e \in Entries : st.phase[e] = "ready" /\ st.currentStreamCount[e] = 0}

UnusedCounted(st) == st.emptySessionCount = Cardinality(Unused(st))

Accounted(st, r, T) ==
  /\ Filed(st) /\ Measured(st) /\ Listening(st, r, T) /\ Listing(st)
  /\ Streaming(st) /\ Counted(st) /\ UnusedCounted(st)

\* Between two actions nobody is in hand but the listeners Relay moves.
AInv ==
  /\ IInv /\ Accounted(Now, relay, {}) /\ Attended(Now)
  /\ relay # None => listeners[relay] # {}

------------------------------------------------------------------------------
(* Counting.                                                                *)

LEMMA EntriesFinite ==
  ASSUME NEW S, S \subseteq Entries
  PROVE  IsFiniteSet(S) /\ Cardinality(S) \in Nat
  BY EntriesAssumption, FS_Subset, FS_CardinalityType

LEMMA ListenersFinite ==
  ASSUME NEW S, S \subseteq Listeners
  PROVE  IsFiniteSet(S) /\ Cardinality(S) \in Nat
  BY ListenersAssumption, FS_Subset, FS_CardinalityType

LEMMA CountOneMore ==
  ASSUME NEW S, IsFiniteSet(S), NEW x, x \notin S
  PROVE  Cardinality(S \cup {x}) = Cardinality(S) + 1
  BY FS_AddElement

LEMMA CountOneLess ==
  ASSUME NEW S, IsFiniteSet(S), NEW x \in S
  PROVE  Cardinality(S \ {x}) = Cardinality(S) - 1
  BY FS_RemoveElement

LEMMA CountDisjoint ==
  ASSUME NEW S, IsFiniteSet(S), NEW T, IsFiniteSet(T), S \cap T = {}
  PROVE  Cardinality(S \cup T) = Cardinality(S) + Cardinality(T)
<1>1. Cardinality(S \cup T) = Cardinality(S) + Cardinality(T) - Cardinality(S \cap T)
  BY FS_Union
<1>2. Cardinality(S) \in Nat /\ Cardinality(T) \in Nat /\ Cardinality(S \cap T) = 0
  BY FS_EmptySet, FS_CardinalityType
<1>. QED
  BY <1>1, <1>2

LEMMA CountDifference ==
  ASSUME NEW S, IsFiniteSet(S), NEW D, D \subseteq S
  PROVE  Cardinality(S \ D) = Cardinality(S) - Cardinality(D)
<1>1. IsFiniteSet(D) /\ IsFiniteSet(S \ D)
  BY FS_Subset
<1>2. Cardinality((S \ D) \cup D) = Cardinality(S \ D) + Cardinality(D)
  BY <1>1, CountDisjoint
<1>3. Cardinality((S \ D) \cup D) = Cardinality(S)
  <2>1. (S \ D) \cup D = S
    OBVIOUS
  <2>. QED
    BY <2>1, Zenon
<1>4. Cardinality(S \ D) \in Nat /\ Cardinality(D) \in Nat
  BY <1>1, FS_CardinalityType
<1>. QED
  BY <1>2, <1>3, <1>4

------------------------------------------------------------------------------
(* Helpers that change nothing the invariant reads: life, capacity, origins. *)

SameFiles(st, t) == t.queue = st.queue /\ t.kLength = st.kLength

SameKeys(st, t) ==
  /\ t.origin = st.origin /\ t.options = st.options
  /\ t.phase = st.phase /\ t.destroyed = st.destroyed

SamePool(st, t) == t.sessions = st.sessions /\ t.sessionCount = st.sessionCount

SameStreams(st, t) ==
  /\ t.currentStreamCount = st.currentStreamCount
  /\ t.emptySessionCount = st.emptySessionCount

SameAccounts(st, t) ==
  /\ SameFiles(st, t) /\ SameKeys(st, t) /\ SamePool(st, t) /\ SameStreams(st, t)
  /\ SameCallers(st, t) /\ t.listeners = st.listeners

SameCapacity(st, t) ==
  t.maxConcurrentStreams = st.maxConcurrentStreams /\ t.originSet = st.originSet

LEMMA SameAccountsAccounted ==
  ASSUME NEW st, NEW t, SameAccounts(st, t), NEW r, NEW T, Accounted(st, r, T)
  PROVE  Accounted(t, r, T) /\ (Attended(st) => Attended(t))
<1>1. Filed(t) /\ Listening(t, r, T) /\ (Attended(st) => Attended(t))
  BY DEF Accounted, SameAccounts, SameFiles, SameKeys, SameCallers, Filed, Listening, Attended
<1>2. Measured(t)
  BY DEF Accounted, SameAccounts, SameFiles, Measured, InQueue
<1>3. Listing(t)
  BY DEF Accounted, SameAccounts, SameKeys, SamePool, Listing, Listed
<1>4. Streaming(t)
  BY DEF Accounted, SameAccounts, SameKeys, SameStreams, SameCallers, Streaming, Streams
<1>5. Counted(t) /\ UnusedCounted(t)
  BY DEF Accounted, SameAccounts, SameKeys, SameStreams, SamePool, Counted, UnusedCounted,
         InPhases, Unused
<1>. QED
  BY <1>1, <1>2, <1>3, <1>4, <1>5 DEF Accounted

LEMMA SameAccountsTransitive ==
  ASSUME NEW st, NEW t, NEW u, SameAccounts(st, t), SameAccounts(t, u)
  PROVE  SameAccounts(st, u)
  BY DEF SameAccounts, SameFiles, SameKeys, SamePool, SameStreams, SameCallers

LEMMA DestroySame ==
  ASSUME NEW st \in StateType, NEW S
  PROVE  LET t == Destroy(st, S) IN SameAccounts(st, t) /\ SameCapacity(st, t) /\ t.relay = st.relay
  BY DEF StateType, Destroy, SameAccounts, SameFiles, SameKeys, SamePool, SameStreams,
         SameCallers, SameCapacity

LEMMA CloseSame ==
  ASSUME NEW st \in StateType, NEW S
  PROVE  LET t == Close(st, S) IN SameAccounts(st, t) /\ SameCapacity(st, t) /\ t.relay = st.relay
  BY DEF StateType, Close, SameAccounts, SameFiles, SameKeys, SamePool, SameStreams,
         SameCallers, SameCapacity

LEMMA GracefullyCloseSame ==
  ASSUME NEW st \in StateType, NEW S, S \subseteq Entries
  PROVE  LET t == GracefullyClose(st, S)
         IN  SameAccounts(st, t) /\ SameCapacity(st, t) /\ t.relay = st.relay
<1>. DEFINE u == [st EXCEPT !.gracefullyClosing = @ \cup S]
<1>1. u \in StateType /\ SameAccounts(st, u) /\ SameCapacity(st, u) /\ u.relay = st.relay
  BY DEF StateType, SameAccounts, SameFiles, SameKeys, SamePool, SameStreams,
         SameCallers, SameCapacity
<1>2. GracefullyClose(st, S) = Close(u, {e \in S : st.currentStreamCount[e] = 0})
  BY DEF GracefullyClose
<1>. HIDE DEF u
<1>. DEFINE t == Close(u, {e \in S : st.currentStreamCount[e] = 0})
<1>3. SameAccounts(u, t) /\ SameCapacity(u, t) /\ t.relay = u.relay
  BY <1>1, CloseSame
<1>. HIDE DEF t
<1>4. SameAccounts(st, t) /\ SameCapacity(st, t) /\ t.relay = st.relay
  BY <1>1, <1>3, SameAccountsTransitive DEF SameCapacity
<1>. QED
  BY <1>2, <1>4 DEF t

LEMMA CloseCoveredSessionsSame ==
  ASSUME NEW st, Good(st), NEW e \in Entries, st.phase[e] = "ready"
  PROVE  LET t == CloseCoveredSessions(st, e)
         IN  SameAccounts(st, t) /\ SameCapacity(st, t) /\ t.relay = st.relay
<1>1. Listed(st, st.options[e]) \subseteq Entries
  BY ReadyKeyed, ListedEntries DEF Good
<1>2. {c \in Listed(st, st.options[e]) : Covers(st, e, c)} \subseteq Entries
  BY <1>1
<1>. QED
  BY <1>2, GracefullyCloseSame DEF CloseCoveredSessions, Good

LEMMA CloseSessionIfCoveredSame ==
  ASSUME NEW st, Good(st), NEW e \in Entries
  PROVE  LET t == CloseSessionIfCovered(st, e)
         IN  SameAccounts(st, t) /\ SameCapacity(st, t) /\ t.relay = st.relay
<1>1. CASE IsCovered(st, e)
  BY <1>1, GracefullyCloseSame DEF CloseSessionIfCovered, Good
<1>2. CASE ~IsCovered(st, e)
  BY <1>2 DEF CloseSessionIfCovered, SameAccounts, SameFiles, SameKeys, SamePool, SameStreams,
              SameCallers, SameCapacity
<1>. QED
  BY <1>1, <1>2

LEMMA CloseEmptySessionsSame ==
  ASSUME NEW st \in StateType, NEW n, NEW t \in CloseEmptySessions(st, n)
  PROVE  SameAccounts(st, t) /\ SameCapacity(st, t) /\ t.relay = st.relay
  BY CloseSame DEF CloseEmptySessions

LEMMA AfterAcceptSame ==
  ASSUME NEW st \in StateType, NEW e, NEW t \in AfterAccept(st, e)
  PROVE  SameAccounts(st, t) /\ SameCapacity(st, t) /\ t.relay = st.relay
<1>1. CASE t = st
  BY <1>1 DEF SameAccounts, SameFiles, SameKeys, SamePool, SameStreams, SameCallers, SameCapacity
<1>2. CASE t # st
  BY <1>2, CloseEmptySessionsSame DEF AfterAccept
<1>. QED
  BY <1>1, <1>2

------------------------------------------------------------------------------
(* The queue.                                                               *)

\* kLength is exact, so the map is dropped only when nothing else is in it.
LEMMA UnqueueEntries ==
  ASSUME NEW st \in StateType, Measured(st), NEW p \in Options, NEW D, D \subseteq InQueue(st, p)
  PROVE  LET t == Unqueue(st, p, D)
         IN  /\ Measured(t)
             /\ \A q \in Options, o \in Origins : t.queue[q][o] =
                  IF q = p /\ st.queue[p][o] \in D THEN None ELSE st.queue[q][o]
<1>. DEFINE t == Unqueue(st, p, D)
            left == st.kLength[p] - Cardinality(D)
            map == [o \in Origins |->
                     IF left = 0 \/ st.queue[p][o] \in D THEN None ELSE st.queue[p][o]]
            lengths == [st.kLength EXCEPT ![p] = left]
            maps == [st.queue EXCEPT ![p] = map]
<1>1. t.queue = maps /\ t.kLength = lengths
  BY DEF Unqueue, StateType
<1>2. /\ st.queue \in [Options -> [Origins -> Entries \cup {None}]]
      /\ st.kLength \in [Options -> Int]
  BY DEF StateType
<1>3. IsFiniteSet(InQueue(st, p)) /\ st.kLength[p] = Cardinality(InQueue(st, p))
  BY InQueueEntries, EntriesFinite DEF Measured
<1>4. left = Cardinality(InQueue(st, p) \ D)
  BY <1>3, CountDifference
<1>5. left = 0 => \A o \in Origins : st.queue[p][o] \in D \cup {None}
  <2>1. IsFiniteSet(InQueue(st, p) \ D)
    BY <1>3, FS_Subset
  <2>2. left = 0 => InQueue(st, p) \ D = {}
    BY <1>4, <2>1, FS_EmptySet
  <2>. QED
    BY <2>2 DEF InQueue
<1>. HIDE DEF left, t
<1>6. ASSUME NEW q \in Options, NEW o \in Origins
      PROVE  maps[q][o] = IF q = p /\ st.queue[p][o] \in D THEN None ELSE st.queue[q][o]
  BY <1>2, <1>5
<1>7. ASSUME NEW q \in Options
      PROVE  lengths[q] = Cardinality({maps[q][o] : o \in Origins} \ {None})
  <2>1. CASE q = p
    <3>1. {maps[q][o] : o \in Origins} \ {None} = InQueue(st, p) \ D
      <4>. HIDE DEF maps
      <4>. QED
        BY <1>6, <2>1 DEF InQueue
    <3>2. lengths[q] = left
      BY <1>2, <2>1
    <3>. HIDE DEF maps, lengths
    <3>. QED
      BY <1>4, <3>1, <3>2, Zenon
  <2>2. CASE q # p
    <3>1. {maps[q][o] : o \in Origins} \ {None} = InQueue(st, q)
      BY <1>2, <2>2 DEF InQueue
    <3>2. lengths[q] = Cardinality(InQueue(st, q))
      BY <1>2, <2>2 DEF Measured
    <3>. HIDE DEF maps, lengths
    <3>. QED
      BY <3>1, <3>2, Zenon
  <2>. QED
    BY <2>1, <2>2
<1>. HIDE DEF maps, lengths
<1>8. Measured(t)
  <2>1. SUFFICES ASSUME NEW q \in Options
                 PROVE  t.kLength[q] = Cardinality(InQueue(t, q))
    BY DEF Measured
  <2>2. InQueue(t, q) = {maps[q][o] : o \in Origins} \ {None}
    BY <1>1 DEF InQueue
  <2>. QED
    BY <1>1, <1>7, <2>2, Zenon
<1>. QED
  BY <1>1, <1>6, <1>8 DEF t

\* All that stays the same when only the queue changes.
SameButQueue(st, t) ==
  /\ SameKeys(st, t) /\ SamePool(st, t) /\ SameStreams(st, t) /\ SameCallers(st, t)
  /\ SameCapacity(st, t) /\ t.listeners = st.listeners /\ t.relay = st.relay
  /\ t.life = st.life /\ t.gracefullyClosing = st.gracefullyClosing

LEMMA UnqueueSame ==
  ASSUME NEW st \in StateType, NEW p, NEW D
  PROVE  SameButQueue(st, Unqueue(st, p, D))
  BY DEF StateType, Unqueue, SameButQueue, SameKeys, SamePool, SameStreams, SameCallers,
         SameCapacity

\* An entry that ends takes away its own place in the queue and no other.
LEMMA RemoveFromQueueEntries ==
  ASSUME NEW st \in StateType, Measured(st), Filed(st), NEW e \in Entries, st.options[e] \in Options
  PROVE  LET t == RemoveFromQueue(st, e)
         IN  /\ SameButQueue(st, t) /\ Measured(t)
             /\ \A q \in Options, o \in Origins :
                  t.queue[q][o] = IF st.queue[q][o] = e THEN None ELSE st.queue[q][o]
<1>. DEFINE p == st.options[e]
            D == {e} \cap InQueue(st, p)
            t == Unqueue(st, p, D)
<1>1. /\ Measured(t)
      /\ \A q \in Options, o \in Origins : t.queue[q][o] =
           IF q = p /\ st.queue[p][o] \in D THEN None ELSE st.queue[q][o]
  <2>. HIDE DEF p
  <2>. QED
    BY UnqueueEntries DEF p
<1>2. SameButQueue(st, t)
  BY UnqueueSame
<1>3. \A q \in Options, o \in Origins : st.queue[q][o] = e => q = p
  BY NoneAssumption DEF Filed
<1>4. \A o \in Origins : st.queue[p][o] \in D <=> st.queue[p][o] = e
  BY NoneAssumption DEF InQueue
<1>5. RemoveFromQueue(st, e) = t
  BY DEF RemoveFromQueue
<1>. HIDE DEF t, D, p
<1>6. \A q \in Options, o \in Origins :
        t.queue[q][o] = IF st.queue[q][o] = e THEN None ELSE st.queue[q][o]
  BY <1>1, <1>3, <1>4
<1>. QED
  BY <1>1, <1>2, <1>5, <1>6

------------------------------------------------------------------------------
(* Serving listeners.                                                       *)

LEMMA OpenStreamsUnused ==
  ASSUME NEW st \in StateType, NEW e \in Entries, NEW n \in Nat, UnusedCounted(st),
         st.currentStreamCount[e] \in Nat, n > 0 => st.phase[e] = "ready"
  PROVE  OpenStreams(st, e, n).emptySessionCount =
           Cardinality({x \in Entries : st.phase[x] = "ready" /\
                         [st.currentStreamCount EXCEPT ![e] = @ + n][x] = 0})
<1>. DEFINE c == st.currentStreamCount
            d == [c EXCEPT ![e] = @ + n]
            left == {x \in Entries : st.phase[x] = "ready" /\ d[x] = 0}
            empty == IF c[e] = 0 /\ n > 0 THEN st.emptySessionCount - 1 ELSE st.emptySessionCount
<1>1. c \in [Entries -> Int]
  BY DEF StateType
<1>2. OpenStreams(st, e, n).emptySessionCount = empty
  BY DEF OpenStreams, StateType
<1>3. st.emptySessionCount = Cardinality(Unused(st)) /\ IsFiniteSet(Unused(st))
  BY EntriesFinite DEF UnusedCounted, Unused
<1>4. CASE c[e] = 0 /\ n > 0
  <2>1. left = Unused(st) \ {e} /\ e \in Unused(st)
    BY <1>1, <1>4 DEF Unused
  <2>2. Cardinality(left) = Cardinality(Unused(st)) - 1
    <3>. HIDE DEF left
    <3>. QED
      BY <1>3, <2>1, CountOneLess
  <2>. QED
    BY <1>2, <1>3, <1>4, <2>2
<1>5. CASE ~(c[e] = 0 /\ n > 0)
  <2>1. left = Unused(st)
    BY <1>1, <1>5 DEF Unused
  <2>2. Cardinality(left) = Cardinality(Unused(st))
    BY <2>1, Zenon
  <2>. QED
    BY <1>2, <1>3, <1>5, <2>2
<1>. QED
  BY <1>4, <1>5

LEMMA OpenStreamsFields ==
  ASSUME NEW st \in StateType, NEW e \in Entries, NEW n \in Nat
  PROVE  LET t == OpenStreams(st, e, n)
         IN  /\ t \in StateType
             /\ SameFiles(st, t) /\ SameKeys(st, t) /\ SamePool(st, t) /\ SameCapacity(st, t)
             /\ t.relay = st.relay /\ t.life = st.life /\ t.gracefullyClosing = st.gracefullyClosing
             /\ t.listeners = st.listeners /\ t.status = st.status /\ t.given = st.given
             /\ t.currentStreamCount = [st.currentStreamCount EXCEPT ![e] = @ + n]
<1>. DEFINE t == OpenStreams(st, e, n)
            streams == [st.currentStreamCount EXCEPT ![e] = @ + n]
            empty == IF st.currentStreamCount[e] = 0 /\ n > 0
                     THEN st.emptySessionCount - 1 ELSE st.emptySessionCount
<1>1. t = [[st EXCEPT !.currentStreamCount = streams] EXCEPT !.emptySessionCount = empty]
  BY DEF OpenStreams, StateType
<1>2. streams \in [Entries -> Int] /\ empty \in Int
  BY DEF StateType
<1>. HIDE DEF streams, empty, t
<1>3. /\ t \in StateType
      /\ SameFiles(st, t) /\ SameKeys(st, t) /\ SamePool(st, t) /\ SameCapacity(st, t)
      /\ t.relay = st.relay /\ t.life = st.life /\ t.gracefullyClosing = st.gracefullyClosing
      /\ t.listeners = st.listeners /\ t.status = st.status /\ t.given = st.given
      /\ t.currentStreamCount = streams
  BY <1>1, <1>2 DEF StateType, SameFiles, SameKeys, SamePool, SameCapacity
<1>. QED
  BY <1>3 DEF t, streams

\* What Serve changes; nothing else.
ServeChanges(st, t, e, T) ==
  LET n == Cardinality(Opened(st, e, T))
  IN /\ SameFiles(st, t) /\ SameKeys(st, t) /\ SamePool(st, t) /\ SameCapacity(st, t)
     /\ t.relay = st.relay /\ t.life = st.life /\ t.gracefullyClosing = st.gracefullyClosing
     /\ t.currentStreamCount = [st.currentStreamCount EXCEPT ![e] = @ + n]
     /\ t.emptySessionCount = OpenStreams(st, e, n).emptySessionCount
     /\ t.status = [l \in Listeners |-> IF l \in T THEN StatusOffered(st, e, l) ELSE st.status[l]]
     /\ t.given = [l \in Listeners |-> IF l \in T THEN e ELSE st.given[l]]

LEMMA ServeFields ==
  ASSUME NEW st \in StateType, NEW e \in Entries, NEW T
  PROVE  ServeChanges(st, Serve(st, e, T), e, T) /\ Serve(st, e, T).listeners = st.listeners
<1>. DEFINE n == Cardinality(Opened(st, e, T))
            u == OpenStreams(st, e, n)
            served == [l \in Listeners |-> IF l \in T THEN StatusOffered(st, e, l) ELSE st.status[l]]
            gave == [l \in Listeners |-> IF l \in T THEN e ELSE st.given[l]]
            t == Serve(st, e, T)
<1>1. /\ u \in StateType
      /\ SameFiles(st, u) /\ SameKeys(st, u) /\ SamePool(st, u) /\ SameCapacity(st, u)
      /\ u.relay = st.relay /\ u.life = st.life /\ u.gracefullyClosing = st.gracefullyClosing
      /\ u.listeners = st.listeners
      /\ u.currentStreamCount = [st.currentStreamCount EXCEPT ![e] = @ + n]
  <2>1. n \in Nat
    BY OpenedFinite
  <2>. HIDE DEF n
  <2>. QED
    BY <2>1, OpenStreamsFields
<1>2. t = [[u EXCEPT !.status = served] EXCEPT !.given = gave]
  BY DEF Serve
<1>3. /\ SameFiles(u, t) /\ SameKeys(u, t) /\ SamePool(u, t) /\ SameCapacity(u, t)
      /\ t.relay = u.relay /\ t.life = u.life /\ t.gracefullyClosing = u.gracefullyClosing
      /\ t.listeners = u.listeners /\ t.emptySessionCount = u.emptySessionCount
      /\ t.currentStreamCount = u.currentStreamCount /\ t.status = served /\ t.given = gave
  <2>. HIDE DEF served, gave, u, t
  <2>. QED
    BY <1>1, <1>2 DEF StateType, SameFiles, SameKeys, SamePool, SameCapacity
<1>. HIDE DEF t
<1>. QED
  BY <1>1, <1>3 DEF t, ServeChanges, SameFiles, SameKeys, SamePool, SameCapacity

LEMMA OfferOpens ==
  ASSUME NEW st, NEW e, NEW l, st.status[l] \in {"idle", "waiting", "rejected"}
  PROVE  /\ StatusOffered(st, e, l) \in {"streaming", "orphan"} <=> l \in Opened(st, e, {l})
         /\ StatusOffered(st, e, l) # "waiting"
  BY DEF StatusOffered, Opened

LEMMA OpenedEach ==
  ASSUME NEW st, NEW e, NEW T, NEW l
  PROVE  l \in Opened(st, e, T) <=> l \in T /\ l \in Opened(st, e, {l})
  BY DEF Opened

\* Callers who have no stream yet get one where Opened says so: the counts follow.
LEMMA ServeStreams ==
  ASSUME NEW st, Good(st), Streaming(st), UnusedCounted(st), NEW e, HasSession(st, e),
         NEW T \in SUBSET Listeners, \A l \in T : st.status[l] \in {"idle", "waiting", "rejected"},
         NEW t, ServeChanges(st, t, e, T)
  PROVE  Streaming(t) /\ UnusedCounted(t)
<1>. DEFINE opened == Opened(st, e, T)
            n == Cardinality(opened)
<1>1. e \in Entries /\ st \in StateType
  BY DEF HasSession, Good
<1>2. /\ IsFiniteSet(opened) /\ n \in Nat
      /\ opened # {} => st.phase[e] = "ready"
  <2>1. opened \subseteq Listeners
    BY DEF Opened
  <2>2. opened # {} => st.phase[e] = "ready"
    BY DEF Opened, Accepting, HasSession
  <2>. QED
    BY <2>1, <2>2, ListenersFinite
<1>3. n > 0 => st.phase[e] = "ready"
  BY <1>2, FS_EmptySet
<1>4. \A x \in Entries : Streams(t, x) = IF x = e THEN Streams(st, x) \cup opened ELSE Streams(st, x)
  <2>1. SUFFICES ASSUME NEW x \in Entries, NEW l \in Listeners
                 PROVE  l \in Streams(t, x) <=>
                          l \in Streams(st, x) \/ (x = e /\ l \in opened)
    BY DEF Streams, Opened
  <2>2. CASE l \in T
    <3>1. t.given[l] = e /\ t.status[l] = StatusOffered(st, e, l)
      BY <2>2 DEF ServeChanges
    <3>2. l \notin Streams(st, x)
      BY <2>2 DEF Streams
    <3>3. StatusOffered(st, e, l) \in {"streaming", "orphan"} <=> l \in Opened(st, e, {l})
      BY <2>2, OfferOpens
    <3>4. l \in opened <=> l \in Opened(st, e, {l})
      BY <2>2, OpenedEach
    <3>. QED
      BY <3>1, <3>2, <3>3, <3>4 DEF Streams
  <2>3. CASE l \notin T
    <3>1. t.given[l] = st.given[l] /\ t.status[l] = st.status[l] /\ l \notin opened
      BY <2>3, OpenedEach DEF ServeChanges
    <3>. QED
      BY <3>1 DEF Streams
  <2>. QED
    BY <2>2, <2>3
<1>5. opened \cap Streams(st, e) = {}
  BY DEF Opened, Streams
<1>6. ASSUME NEW x \in Entries PROVE t.currentStreamCount[x] = Cardinality(Streams(t, x))
  <2>1. st.currentStreamCount[x] = Cardinality(Streams(st, x)) /\ IsFiniteSet(Streams(st, x))
    BY ListenersFinite DEF Streaming, Streams
  <2>2. t.currentStreamCount[x] =
          IF x = e THEN st.currentStreamCount[x] + n ELSE st.currentStreamCount[x]
    BY <1>1 DEF StateType, ServeChanges
  <2>3. CASE x = e
    <3>1. Cardinality(Streams(st, x) \cup opened) = Cardinality(Streams(st, x)) + n
      BY <1>2, <1>5, <2>1, <2>3, CountDisjoint
    <3>. QED
      BY <1>4, <2>1, <2>2, <2>3, <3>1
  <2>4. CASE x # e
    BY <1>4, <2>1, <2>2, <2>4
  <2>. QED
    BY <2>3, <2>4
<1>7. ASSUME NEW l \in Listeners, t.status[l] \in {"streaming", "orphan"}
      PROVE  t.phase[t.given[l]] = "ready"
  <2>1. CASE l \in T
    <3>1. t.given[l] = e /\ t.status[l] = StatusOffered(st, e, l) /\ t.phase = st.phase
      BY <2>1 DEF ServeChanges, SameKeys
    <3>2. l \in Opened(st, e, {l})
      <4>1. StatusOffered(st, e, l) \in {"streaming", "orphan"} <=> l \in Opened(st, e, {l})
        BY <2>1, OfferOpens
      <4>. QED
        BY <1>7, <3>1, <4>1
    <3>3. opened # {}
      BY <2>1, <3>2, OpenedEach
    <3>. QED
      BY <1>2, <3>1, <3>3
  <2>2. CASE l \notin T
    BY <1>7, <2>2 DEF ServeChanges, SameKeys, Streaming
  <2>. QED
    BY <2>1, <2>2
<1>8. UnusedCounted(t)
  <2>1. st.currentStreamCount[e] \in Nat
    <3>1. st.currentStreamCount[e] = Cardinality(Streams(st, e))
      BY <1>1 DEF Streaming
    <3>2. Streams(st, e) \subseteq Listeners
      BY DEF Streams
    <3>. QED
      BY <3>1, <3>2, ListenersFinite
  <2>2. OpenStreams(st, e, n).emptySessionCount =
           Cardinality({x \in Entries : st.phase[x] = "ready" /\
                         [st.currentStreamCount EXCEPT ![e] = @ + n][x] = 0})
    <3>. HIDE DEF n
    <3>. QED
      BY <1>1, <1>2, <1>3, <2>1, OpenStreamsUnused
  <2>3. /\ t.phase = st.phase
        /\ t.currentStreamCount = [st.currentStreamCount EXCEPT ![e] = @ + n]
        /\ t.emptySessionCount = OpenStreams(st, e, n).emptySessionCount
    BY DEF ServeChanges, SameKeys
  <2>4. Unused(t) = {x \in Entries : st.phase[x] = "ready" /\
                         [st.currentStreamCount EXCEPT ![e] = @ + n][x] = 0}
    <3>. HIDE DEF n
    <3>. QED
      BY <2>3 DEF Unused
  <2>. QED
    BY <2>2, <2>3, <2>4, Zenon DEF UnusedCounted
<1>. QED
  BY <1>6, <1>7, <1>8 DEF Streaming

\* Callers U are answered, one way or another, and leave the lists.
LEMMA AnsweredListening ==
  ASSUME NEW st, NEW r, NEW T, Listening(st, r, T), NEW U, NEW t,
         \A e \in Entries : t.listeners[e] = {} \/ t.phase[e] = st.phase[e],
         \A e \in Entries : t.listeners[e] = st.listeners[e] \ U,
         \A l \in Listeners : IF l \in U THEN t.status[l] # "waiting" ELSE t.status[l] = st.status[l],
         \A e \in Entries : st.listeners[e] \subseteq Listeners
  PROVE  Listening(t, r, T \ U)
<1>1. \A e \in Entries : t.listeners[e] # {} => t.phase[e] \in Pending \/ e = r
  BY DEF Listening
<1>2. \A e \in Entries : \A l \in t.listeners[e] :
        t.status[l] \in {"waiting", "rejected"} /\ l \notin T \ U
  BY DEF Listening
<1>3. \A x, y \in Entries : x # y => t.listeners[x] \cap t.listeners[y] = {}
  BY DEF Listening
<1>4. \A l \in Listeners : t.status[l] = "waiting" =>
        l \in T \ U \/ \E e \in Entries : l \in t.listeners[e]
  BY DEF Listening
<1>. QED
  BY <1>1, <1>2, <1>3, <1>4 DEF Listening

\* The predicates that read neither listeners nor streams.
LEMMA SameKeysFiled ==
  ASSUME NEW st, NEW t, SameFiles(st, t), SameKeys(st, t), SamePool(st, t)
  PROVE  /\ Filed(st) => Filed(t)
         /\ Measured(st) => Measured(t)
         /\ Listing(st) => Listing(t)
         /\ Counted(st) => Counted(t)
<1>1. Filed(st) => Filed(t)
  BY DEF SameFiles, SameKeys, Filed
<1>2. Measured(st) => Measured(t)
  BY DEF SameFiles, Measured, InQueue
<1>3. Listing(st) => Listing(t)
  BY DEF SameKeys, SamePool, Listing, Listed
<1>4. Counted(st) => Counted(t)
  BY DEF SameKeys, SamePool, Counted, InPhases
<1>. QED
  BY <1>1, <1>2, <1>3, <1>4

LEMMA AcceptFields ==
  ASSUME NEW st \in StateType, NEW s \in Entries, NEW e \in Entries, NEW T
  PROVE  /\ ServeChanges(st, Accept(st, s, e, T), s, T)
         /\ Accept(st, s, e, T).listeners = [st.listeners EXCEPT ![e] = @ \ T]
<1>. DEFINE u == Serve(st, s, T)
            L == [st.listeners EXCEPT ![e] = @ \ T]
            t == Accept(st, s, e, T)
<1>1. ServeChanges(st, u, s, T) /\ u.listeners = st.listeners
  BY ServeFields
<1>2. t = [u EXCEPT !.listeners[e] = @ \ T]
  BY DEF Accept
<1>3. \A f : [u EXCEPT !.listeners = f].listeners = f
  BY DEF Serve, OpenStreams, StateType
<1>4. t = [u EXCEPT !.listeners = L]
  <2>. HIDE DEF u
  <2>. QED
    BY <1>1, <1>2
<1>. HIDE DEF L
<1>5. /\ SameFiles(u, t) /\ SameKeys(u, t) /\ SamePool(u, t) /\ SameCapacity(u, t)
      /\ SameCallers(u, t) /\ SameStreams(u, t)
      /\ t.relay = u.relay /\ t.life = u.life /\ t.gracefullyClosing = u.gracefullyClosing
  <2>. HIDE DEF u, t
  <2>. QED
    BY <1>4 DEF SameFiles, SameKeys, SamePool, SameCapacity, SameCallers, SameStreams
<1>6. t.listeners = L
  BY <1>3, <1>4
<1>7. ServeChanges(st, t, s, T)
  <2>. HIDE DEF u, t
  <2>. QED
    BY <1>1, <1>5 DEF ServeChanges, SameFiles, SameKeys, SamePool, SameCapacity, SameCallers,
                      SameStreams
<1>. QED
  BY <1>6, <1>7 DEF L

\* _accept() on session s for listeners of an entry that is not queued.
LEMMA AcceptAccounted ==
  ASSUME NEW st, Good(st), NEW s, HasSession(st, s), NEW e \in Entries, NEW r,
         Accounted(st, r, {}), NEW T \in SUBSET st.listeners[e]
  PROVE  LET t == Accept(st, s, e, T)
         IN  /\ Accounted(t, r, {})
             /\ st.phase[e] # "queued" /\ Attended(st) => Attended(t)
             /\ ServeChanges(st, t, s, T) /\ t.listeners = [st.listeners EXCEPT ![e] = @ \ T]
<1>. DEFINE t == Accept(st, s, e, T)
<1>1. s \in Entries /\ st \in StateType /\ st.listeners \in [Entries -> SUBSET Listeners]
  BY DEF HasSession, Good, StateType
<1>2. ServeChanges(st, t, s, T) /\ t.listeners = [st.listeners EXCEPT ![e] = @ \ T]
  BY <1>1, AcceptFields
<1>. HIDE DEF t
<1>3. T \subseteq Listeners /\ \A l \in T : st.status[l] \in {"waiting", "rejected"}
  BY <1>1 DEF Accounted, Listening
<1>4. \A x \in Entries : t.listeners[x] = st.listeners[x] \ T
  BY <1>1, <1>2 DEF Accounted, Listening
<1>5. Streaming(t) /\ UnusedCounted(t)
  BY <1>2, <1>3, ServeStreams DEF Accounted
<1>6. Listening(t, r, {})
  <2>1. \A l \in Listeners : IF l \in T THEN t.status[l] # "waiting" ELSE t.status[l] = st.status[l]
    <3>1. ASSUME NEW l \in T PROVE t.status[l] # "waiting"
      <4>1. l \in Listeners /\ t.status[l] = StatusOffered(st, s, l)
        BY <1>2, <1>3 DEF ServeChanges
      <4>2. StatusOffered(st, s, l) # "waiting"
        BY <1>3 DEF StatusOffered
      <4>. QED
        BY <4>1, <4>2
    <3>2. \A l \in Listeners : l \notin T => t.status[l] = st.status[l]
      BY <1>2 DEF ServeChanges
    <3>. QED
      BY <3>1, <3>2
  <2>2. \A x \in Entries : st.listeners[x] \subseteq Listeners
    BY <1>1
  <2>3. t.phase = st.phase
    BY <1>2 DEF ServeChanges, SameKeys
  <2>4. Listening(t, r, {} \ T)
    BY <1>4, <2>1, <2>2, <2>3, AnsweredListening DEF Accounted
  <2>. QED
    BY <2>4
<1>7. Filed(t) /\ Measured(t) /\ Listing(t) /\ Counted(t)
  BY <1>2, SameKeysFiled DEF ServeChanges, Accounted
<1>8. st.phase[e] # "queued" /\ Attended(st) => Attended(t)
  BY <1>1, <1>2 DEF ServeChanges, SameKeys, Attended
<1>. QED
  BY <1>2, <1>5, <1>6, <1>7, <1>8 DEF Accounted, t

\* What processListeners() changes.
ListenersServed(st, t, e, T) ==
  LET D == Emptied(st, e, T)
      C == Candidates(st, e)
      n == Cardinality(Opened(st, e, T))
      reset(f, value) == [x \in Entries |-> IF x \in D THEN value ELSE f[x]]
  IN /\ Measured(t)
     /\ \A q \in Options, o \in Origins :
          t.queue[q][o] = IF st.queue[q][o] \in D THEN None ELSE st.queue[q][o]
     /\ t.phase = reset(st.phase, "none")
     /\ t.origin = reset(st.origin, None) /\ t.options = reset(st.options, None)
     /\ t.originSet = reset(st.originSet, {})
     /\ t.maxConcurrentStreams = reset(st.maxConcurrentStreams, 0)
     /\ t.destroyed = st.destroyed \ D /\ t.gracefullyClosing = st.gracefullyClosing \ D
     /\ \A x \in Entries : t.listeners[x] =
          IF x \in D THEN {} ELSE IF x \in C THEN st.listeners[x] \ T ELSE st.listeners[x]
     /\ SamePool(st, t) /\ t.relay = st.relay /\ t.life = st.life
     /\ t.currentStreamCount = [st.currentStreamCount EXCEPT ![e] = @ + n]
     /\ t.emptySessionCount = OpenStreams(st, e, n).emptySessionCount
     /\ t.status = [l \in Listeners |-> IF l \in T THEN StatusOffered(st, e, l) ELSE st.status[l]]
     /\ t.given = [l \in Listeners |-> IF l \in T THEN e ELSE st.given[l]]

\* What Forget changes.
Forgotten(st, t, D, ph) ==
  /\ SameFiles(st, t) /\ SamePool(st, t) /\ SameStreams(st, t) /\ SameCallers(st, t)
  /\ t.relay = st.relay /\ t.life = st.life
  /\ t.phase = [x \in Entries |-> IF x \in D THEN ph ELSE st.phase[x]]
  /\ t.listeners = [x \in Entries |-> IF x \in D THEN {} ELSE st.listeners[x]]
  /\ t.origin = [x \in Entries |-> IF x \in D THEN None ELSE st.origin[x]]
  /\ t.options = [x \in Entries |-> IF x \in D THEN None ELSE st.options[x]]
  /\ t.originSet = [x \in Entries |-> IF x \in D THEN {} ELSE st.originSet[x]]
  /\ t.maxConcurrentStreams = [x \in Entries |-> IF x \in D THEN 0 ELSE st.maxConcurrentStreams[x]]
  /\ t.destroyed = st.destroyed \ D /\ t.gracefullyClosing = st.gracefullyClosing \ D

LEMMA ForgetFields ==
  ASSUME NEW st \in StateType, NEW D, NEW ph
  PROVE  Forgotten(st, Forget(st, D, ph), D, ph)
  BY DEF StateType, Forget, Forgotten, SameFiles, SamePool, SameStreams, SameCallers

LEMMA ListenersFields ==
  ASSUME NEW st \in StateType, NEW L
  PROVE  LET t == [st EXCEPT !.listeners = L]
         IN  /\ SameFiles(st, t) /\ SameKeys(st, t) /\ SamePool(st, t) /\ SameStreams(st, t)
             /\ SameCallers(st, t) /\ SameCapacity(st, t) /\ t.relay = st.relay
             /\ t.life = st.life /\ t.gracefullyClosing = st.gracefullyClosing /\ t.listeners = L
  BY DEF StateType, SameFiles, SameKeys, SamePool, SameStreams, SameCallers, SameCapacity

LEMMA ProcessListenersFields ==
  ASSUME NEW st, Good(st), Filed(st), Measured(st),
         NEW e \in Entries, st.phase[e] = "ready", NEW T
  PROVE  ListenersServed(st, ProcessListeners(st, e, T), e, T)
<1>. DEFINE p == st.options[e]
            C == Candidates(st, e)
            D == Emptied(st, e, T)
            u == Serve(st, e, T)
            L == [x \in Entries |-> IF x \in C THEN st.listeners[x] \ T ELSE st.listeners[x]]
            v == [u EXCEPT !.listeners = L]
            w == Unqueue(v, p, D)
            t == Forget(w, D, "none")
<1>1. p \in Options /\ st \in StateType
  BY ReadyKeyed DEF Good
<1>2. C \subseteq InQueue(st, p) /\ D \subseteq C /\ C \subseteq Entries
  <2>1. \A o \in st.originSet[e] : o \in Origins
    BY <1>1 DEF StateType
  <2>2. C \subseteq InQueue(st, p)
    BY <2>1 DEF Candidates, InQueue
  <2>. QED
    BY <1>1, <2>2, InQueueEntries DEF Emptied
<1>3. ServeChanges(st, u, e, T) /\ Good(u)
  BY <1>1, ServeFields, ServeGood DEF HasSession
<1>4. L \in [Entries -> SUBSET Listeners]
  BY <1>1 DEF StateType
<1>5. /\ Good(v) /\ SameFiles(u, v) /\ SameKeys(u, v) /\ SamePool(u, v) /\ SameStreams(u, v)
      /\ SameCallers(u, v) /\ SameCapacity(u, v) /\ v.relay = u.relay
      /\ v.life = u.life /\ v.gracefullyClosing = u.gracefullyClosing /\ v.listeners = L
  <2>. HIDE DEF u, L
  <2>1. u \in StateType
    BY <1>3 DEF Good
  <2>. QED
    BY <1>3, <1>4, <2>1, ListenersGood, ListenersFields
<1>6. Measured(v) /\ InQueue(v, p) = InQueue(st, p) /\ v.queue = st.queue
  <2>1. v.queue = st.queue /\ v.kLength = st.kLength
    BY <1>3, <1>5 DEF ServeChanges, SameFiles
  <2>. HIDE DEF v
  <2>. QED
    BY <2>1 DEF Measured, InQueue
<1>7. /\ w \in StateType /\ SameButQueue(v, w) /\ Measured(w)
      /\ \A q \in Options, o \in Origins :
           w.queue[q][o] = IF q = p /\ st.queue[p][o] \in D THEN None ELSE st.queue[q][o]
  <2>. HIDE DEF v, D, p, C
  <2>1. D \subseteq Entries /\ D \subseteq InQueue(v, p) /\ v \in StateType
    BY <1>2, <1>5, <1>6 DEF Good
  <2>2. Good(w)
    BY <1>1, <1>5, <2>1, UnqueueGood
  <2>3. SameButQueue(v, w)
    BY <2>1, UnqueueSame
  <2>4. /\ Measured(w)
        /\ \A q \in Options, o \in Origins :
             w.queue[q][o] = IF q = p /\ v.queue[p][o] \in D THEN None ELSE v.queue[q][o]
    BY <1>1, <1>6, <2>1, UnqueueEntries
  <2>. QED
    BY <1>6, <2>2, <2>3, <2>4 DEF Good
<1>8. \A q \in Options, o \in Origins : st.queue[q][o] \in D => q = p
  <2>1. \A x \in D : x # None /\ \E o \in Origins : st.queue[p][o] = x
    BY <1>2 DEF InQueue
  <2>. HIDE DEF D
  <2>. QED
    BY <1>1, <2>1 DEF Filed
<1>9. ProcessListeners(st, e, T) = t
  BY DEF ProcessListeners
<1>. HIDE DEF u, v, w
<1>10. Forgotten(w, t, D, "none")
  <2>1. w \in StateType
    BY <1>7
  <2>. HIDE DEF D
  <2>. QED
    BY <2>1, ForgetFields
<1>. HIDE DEF t, D, C
<1>11. /\ SamePool(st, t) /\ t.relay = st.relay /\ t.life = st.life
       /\ t.currentStreamCount = u.currentStreamCount /\ t.emptySessionCount = u.emptySessionCount
       /\ t.status = u.status /\ t.given = u.given
       /\ w.phase = st.phase /\ w.origin = st.origin /\ w.options = st.options
       /\ w.originSet = st.originSet /\ w.maxConcurrentStreams = st.maxConcurrentStreams
       /\ w.destroyed = st.destroyed /\ w.gracefullyClosing = st.gracefullyClosing
       /\ w.listeners = L
  <2>. HIDE DEF L
  <2>. QED
    BY <1>3, <1>5, <1>7, <1>10 DEF ServeChanges, SameFiles, SameKeys, SamePool, SameStreams,
       SameCallers, SameCapacity, SameButQueue, Forgotten
<1>12. /\ t.phase = [x \in Entries |-> IF x \in D THEN "none" ELSE st.phase[x]]
       /\ t.origin = [x \in Entries |-> IF x \in D THEN None ELSE st.origin[x]]
       /\ t.options = [x \in Entries |-> IF x \in D THEN None ELSE st.options[x]]
       /\ t.originSet = [x \in Entries |-> IF x \in D THEN {} ELSE st.originSet[x]]
       /\ t.maxConcurrentStreams =
            [x \in Entries |-> IF x \in D THEN 0 ELSE st.maxConcurrentStreams[x]]
       /\ t.destroyed = st.destroyed \ D /\ t.gracefullyClosing = st.gracefullyClosing \ D
  <2>. HIDE DEF L
  <2>. QED
    BY <1>10, <1>11 DEF Forgotten
<1>13. \A x \in Entries : t.listeners[x] =
         IF x \in D THEN {} ELSE IF x \in C THEN st.listeners[x] \ T ELSE st.listeners[x]
  BY <1>10, <1>11 DEF Forgotten
<1>14. /\ Measured(t)
       /\ \A q \in Options, o \in Origins :
            t.queue[q][o] = IF st.queue[q][o] \in D THEN None ELSE st.queue[q][o]
  <2>1. t.queue = w.queue /\ t.kLength = w.kLength
    BY <1>10 DEF Forgotten, SameFiles
  <2>2. Measured(t)
    BY <1>7, <2>1 DEF Measured, InQueue
  <2>. QED
    BY <1>7, <1>8, <2>1, <2>2
<1>15. /\ t.currentStreamCount =
            [st.currentStreamCount EXCEPT ![e] = @ + Cardinality(Opened(st, e, T))]
       /\ t.emptySessionCount = OpenStreams(st, e, Cardinality(Opened(st, e, T))).emptySessionCount
       /\ t.status = [l \in Listeners |-> IF l \in T THEN StatusOffered(st, e, l) ELSE st.status[l]]
       /\ t.given = [l \in Listeners |-> IF l \in T THEN e ELSE st.given[l]]
  BY <1>3, <1>11 DEF ServeChanges
<1>. QED
  BY <1>9, <1>11, <1>12, <1>13, <1>14, <1>15, ZenonT(30) DEF ListenersServed, C, D

LEMMA EmptiedQueued ==
  ASSUME NEW st, Good(st), NEW e \in Entries, st.phase[e] = "ready", NEW T
  PROVE  /\ Candidates(st, e) \subseteq InQueue(st, st.options[e])
         /\ Candidates(st, e) \subseteq Entries
         /\ \A x \in Emptied(st, e, T) :
              x \in Candidates(st, e) /\ st.phase[x] = "queued" /\ st.listeners[x] \subseteq T
<1>1. st.options[e] \in Options /\ st \in StateType
  BY ReadyKeyed DEF Good
<1>2. \A o \in st.originSet[e] : o \in Origins
  BY <1>1 DEF StateType
<1>3. Candidates(st, e) \subseteq InQueue(st, st.options[e])
  BY <1>2 DEF Candidates, InQueue
<1>. QED
  BY <1>1, <1>3, InQueueEntries DEF Emptied

\* The handlers of one session empty, drop and serve the entries of others:
\* nobody is lost on the way, no entry stays queued for nobody.
LEMMA ProcessListenersAccounted ==
  ASSUME NEW st, Good(st), Accounted(st, None, {}), Attended(st),
         NEW e \in Entries, st.phase[e] = "ready", NEW T \in SUBSET WaitingFor(st, e)
  PROVE  LET t == ProcessListeners(st, e, T)
         IN  Accounted(t, None, {}) /\ Attended(t) /\ ListenersServed(st, t, e, T)
<1>. DEFINE t == ProcessListeners(st, e, T)
            u == Serve(st, e, T)
            C == Candidates(st, e)
            D == Emptied(st, e, T)
<1>1. st \in StateType /\ st.listeners \in [Entries -> SUBSET Listeners]
  BY DEF Good, StateType
<1>2. C \subseteq Entries /\ \A x \in D : x \in C /\ st.phase[x] = "queued" /\ st.listeners[x] \subseteq T
  BY EmptiedQueued
<1>3. ListenersServed(st, t, e, T)
  BY ProcessListenersFields DEF Accounted
<1>4. /\ t.phase = [x \in Entries |-> IF x \in D THEN "none" ELSE st.phase[x]]
      /\ t.origin = [x \in Entries |-> IF x \in D THEN None ELSE st.origin[x]]
      /\ t.options = [x \in Entries |-> IF x \in D THEN None ELSE st.options[x]]
      /\ t.destroyed = st.destroyed \ D
      /\ \A q \in Options, o \in Origins :
           t.queue[q][o] = IF st.queue[q][o] \in D THEN None ELSE st.queue[q][o]
      /\ Measured(t) /\ SamePool(st, t)
  BY <1>3 DEF ListenersServed
<1>5. \A x \in Entries : t.listeners[x] =
        IF x \in D THEN {} ELSE IF x \in C THEN st.listeners[x] \ T ELSE st.listeners[x]
  BY <1>3 DEF ListenersServed
<1>6. T \subseteq Listeners /\ \A l \in T : \E x \in C : l \in st.listeners[x]
  BY <1>1, <1>2 DEF WaitingFor
<1>. HIDE DEF t, C, D
<1>7. \A x \in Entries : t.listeners[x] = st.listeners[x] \ T
  <2>1. SUFFICES ASSUME NEW x \in Entries PROVE t.listeners[x] = st.listeners[x] \ T
    OBVIOUS
  <2>2. CASE x \in D
    BY <1>2, <1>5, <2>2
  <2>3. CASE x \notin D /\ x \in C
    BY <1>5, <2>3
  <2>4. CASE x \notin C
    <3>1. x \notin D
      BY <1>2, <2>4
    <3>2. \A y \in C : st.listeners[x] \cap st.listeners[y] = {}
      BY <1>2, <2>4 DEF Accounted, Listening
    <3>. QED
      BY <1>5, <1>6, <2>4, <3>1, <3>2
  <2>. QED
    BY <2>2, <2>3, <2>4
<1>8. \A l \in T : st.status[l] \in {"idle", "waiting", "rejected"}
  BY <1>2, <1>6 DEF Accounted, Listening
<1>9. Listening(t, None, {})
  <2>1. \A l \in Listeners : IF l \in T THEN t.status[l] # "waiting" ELSE t.status[l] = st.status[l]
    <3>1. t.status = [l \in Listeners |-> IF l \in T THEN StatusOffered(st, e, l) ELSE st.status[l]]
      BY <1>3 DEF ListenersServed
    <3>2. ASSUME NEW l \in T PROVE StatusOffered(st, e, l) # "waiting"
      BY <1>8 DEF StatusOffered
    <3>. QED
      BY <1>6, <3>1, <3>2
  <2>2. \A x \in Entries : st.listeners[x] \subseteq Listeners
    BY <1>1
  <2>3. \A x \in Entries : t.listeners[x] = {} \/ t.phase[x] = st.phase[x]
    BY <1>4, <1>5
  <2>4. Listening(t, None, {} \ T)
    BY <1>7, <2>1, <2>2, <2>3, AnsweredListening DEF Accounted
  <2>. QED
    BY <2>4
<1>10. Attended(t)
  <2>1. ASSUME NEW x \in Entries, t.phase[x] = "queued" PROVE t.listeners[x] # {}
    <3>1. x \notin D /\ st.phase[x] = "queued"
      BY <1>4, <2>1
    <3>2. st.listeners[x] # {}
      BY <3>1 DEF Attended
    <3>3. CASE x \in C
      BY <1>7, <3>1, <3>3 DEF D, C, Emptied
    <3>4. CASE x \notin C
      BY <1>5, <3>1, <3>2, <3>4
    <3>. QED
      BY <3>3, <3>4
  <2>. QED
    BY <2>1 DEF Attended
<1>11. Filed(t)
  <2>1. \A q \in Options, o \in Origins : st.queue[q][o] \in Entries \cup {None}
    BY <1>1 DEF StateType
  <2>2. ASSUME NEW q \in Options, NEW o \in Origins, t.queue[q][o] # None
        PROVE  /\ t.origin[t.queue[q][o]] = o /\ t.options[t.queue[q][o]] = q
               /\ t.phase[t.queue[q][o]] \in Pending /\ t.queue[q][o] \notin t.destroyed
    <3>1. t.queue[q][o] = st.queue[q][o] /\ st.queue[q][o] \in Entries \ D
      BY <1>4, <2>1, <2>2
    <3>. QED
      BY <1>4, <2>2, <3>1 DEF Accounted, Filed
  <2>3. ASSUME NEW x \in Entries, t.phase[x] \in Pending, x \notin t.destroyed
        PROVE  t.queue[t.options[x]][t.origin[x]] = x
    <3>1. x \notin D /\ t.options[x] = st.options[x] /\ t.origin[x] = st.origin[x]
          /\ st.phase[x] \in Pending /\ x \notin st.destroyed
      BY <1>4, <2>3 DEF Pending
    <3>2. st.queue[st.options[x]][st.origin[x]] = x
      BY <3>1 DEF Accounted, Filed
    <3>3. st.options[x] \in Options /\ st.origin[x] \in Origins
      BY <3>1, ReadyKeyed DEF Pending
    <3>. QED
      BY <1>4, <3>1, <3>2, <3>3
  <2>4. \A x \in t.destroyed : t.phase[x] \in Pending
    <3>1. st.destroyed \subseteq Entries
      BY <1>1 DEF StateType
    <3>. QED
      BY <1>4, <3>1 DEF Accounted, Filed
  <2>. QED
    BY <2>2, <2>3, <2>4 DEF Filed
<1>12. \A x \in Entries : t.phase[x] = "ready" <=> st.phase[x] = "ready"
  BY <1>2, <1>4
<1>13. Listing(t)
  <2>1. t.sessions = st.sessions
    BY <1>4 DEF SamePool
  <2>2. \A p \in Options : \A i \in 1..Len(st.sessions[p]) :
          st.sessions[p][i] \in Entries /\ st.phase[st.sessions[p][i]] = "ready"
    <3>1. ASSUME NEW p \in Options, NEW i \in 1..Len(st.sessions[p])
          PROVE  st.sessions[p][i] \in Entries /\ st.sessions[p][i] \in Listed(st, p)
      BY DEF Good, Pooled, HasSession, Listed, ToSet
    <3>. QED
      BY <3>1 DEF Accounted, Listing
  <2>3. \A p \in Options : \A i \in 1..Len(st.sessions[p]) :
          t.options[st.sessions[p][i]] = st.options[st.sessions[p][i]]
    BY <1>2, <1>4, <2>2
  <2>4. \A p \in Options : Listed(t, p) = Listed(st, p)
    BY <2>1 DEF Listed
  <2>5. \A x \in Entries : t.phase[x] = "ready" <=> \E p \in Options : x \in Listed(t, p)
    BY <1>12, <2>4 DEF Accounted, Listing
  <2>6. \A p \in Options : \A i, j \in 1..Len(st.sessions[p]) :
          /\ t.options[st.sessions[p][i]] = p
          /\ st.sessions[p][i] = st.sessions[p][j] => i = j
    BY <2>3 DEF Accounted, Listing
  <2>. QED
    BY <2>1, <2>5, <2>6 DEF Listing
<1>14. Streaming(u) /\ UnusedCounted(u) /\ ServeChanges(st, u, e, T)
  <2>1. ServeChanges(st, u, e, T)
    BY <1>1, ServeFields
  <2>. HIDE DEF u
  <2>. QED
    BY <1>6, <1>8, <2>1, ServeStreams DEF Accounted, HasSession
<1>15. /\ t.currentStreamCount = u.currentStreamCount /\ t.emptySessionCount = u.emptySessionCount
       /\ t.status = u.status /\ t.given = u.given /\ u.phase = st.phase
  BY <1>3, <1>14 DEF ListenersServed, ServeChanges, SameKeys
<1>. HIDE DEF u
<1>16. Streaming(t)
  <2>1. \A x : Streams(t, x) = Streams(u, x)
    BY <1>15 DEF Streams
  <2>2. ASSUME NEW l \in Listeners, t.status[l] \in {"streaming", "orphan"}
        PROVE  t.phase[t.given[l]] = "ready"
    <3>1. st.phase[t.given[l]] = "ready"
      BY <1>14, <1>15, <2>2 DEF Streaming
    <3>2. t.given[l] \in Entries
      <4>1. Good(t)
        BY ProcessListenersGood DEF t
      <4>. QED
        BY <2>2, <4>1 DEF Good, Holding, HasSession
    <3>. QED
      BY <1>12, <3>1, <3>2
  <2>3. ASSUME NEW x \in Entries PROVE t.currentStreamCount[x] = Cardinality(Streams(t, x))
    BY <1>14, <1>15, <2>1 DEF Streaming
  <2>. QED
    BY <2>2, <2>3 DEF Streaming
<1>17. UnusedCounted(t)
  <2>1. Unused(t) = Unused(u)
    BY <1>12, <1>15 DEF Unused
  <2>. QED
    BY <1>14, <1>15, <2>1 DEF UnusedCounted
<1>18. Counted(t)
  <2>1. InPhases(t, {"connecting", "connected", "ready"}) =
          InPhases(st, {"connecting", "connected", "ready"})
    BY <1>2, <1>4 DEF InPhases
  <2>2. t.sessionCount = st.sessionCount
    BY <1>4 DEF SamePool
  <2>. QED
    BY <2>1, <2>2 DEF Accounted, Counted
<1>. QED
  BY <1>3, <1>4, <1>9, <1>10, <1>11, <1>13, <1>16, <1>17, <1>18 DEF Accounted, t

------------------------------------------------------------------------------
(* The start of queued entries.                                             *)

Starting(st) == {e \in UNION {InQueue(st, p) : p \in Options} : st.phase[e] = "queued"}

\* What StartEntries changes.
Started(st, t) ==
  /\ SameFiles(st, t) /\ SameStreams(st, t) /\ SameCallers(st, t) /\ SameCapacity(st, t)
  /\ t.origin = st.origin /\ t.options = st.options /\ t.destroyed = st.destroyed
  /\ t.sessions = st.sessions /\ t.listeners = st.listeners /\ t.relay = st.relay
  /\ t.life = st.life /\ t.gracefullyClosing = st.gracefullyClosing
  /\ t.phase = [e \in Entries |-> IF e \in Starting(st) THEN "connecting" ELSE st.phase[e]]
  /\ t.sessionCount = st.sessionCount + Cardinality(Starting(st))

LEMMA StartEntriesFields == ASSUME NEW st \in StateType PROVE Started(st, StartEntries(st))
<1>. DEFINE S == Starting(st)
            started == [e \in Entries |-> IF e \in S THEN "connecting" ELSE st.phase[e]]
            n == st.sessionCount + Cardinality(S)
<1>1. StartEntries(st) = [st EXCEPT !.phase = started, !.sessionCount = n]
  BY DEF StartEntries, Starting, StateType
<1>. HIDE DEF started, n
<1>2. LET t == StartEntries(st)
      IN  /\ SameFiles(st, t) /\ SameStreams(st, t) /\ SameCallers(st, t) /\ SameCapacity(st, t)
          /\ t.origin = st.origin /\ t.options = st.options /\ t.destroyed = st.destroyed
          /\ t.sessions = st.sessions /\ t.listeners = st.listeners /\ t.relay = st.relay
          /\ t.life = st.life /\ t.gracefullyClosing = st.gracefullyClosing
          /\ t.phase = started /\ t.sessionCount = n
  BY <1>1 DEF StateType, SameFiles, SameStreams, SameCallers, SameCapacity
<1>. QED
  BY <1>2 DEF Started, started, n

\* Entries that start were not counted before; none that could start is left.
LEMMA StartEntriesAccounted ==
  ASSUME NEW st, Good(st), NEW r, NEW T, Accounted(st, r, T), Attended(st),
         NEW t, Started(st, t)
  PROVE  /\ Accounted(t, r, T) /\ Attended(t)
         /\ \A e \in Entries : t.phase[e] = "queued" => e \in t.destroyed
<1>. DEFINE S == Starting(st)
            running == {"connecting", "connected", "ready"}
<1>1. /\ st \in StateType /\ S \subseteq Entries
      /\ \A e \in S : st.phase[e] = "queued"
      /\ \A e \in Entries : st.phase[e] = "queued" /\ e \notin st.destroyed => e \in S
  <2>1. st \in StateType
    BY DEF Good
  <2>2. S \subseteq Entries
    BY <2>1, InQueueEntries DEF Starting
  <2>3. ASSUME NEW e \in Entries, st.phase[e] = "queued", e \notin st.destroyed PROVE e \in S
    <3>1. st.queue[st.options[e]][st.origin[e]] = e
      BY <2>3 DEF Accounted, Filed, Pending
    <3>2. st.options[e] \in Options /\ st.origin[e] \in Origins
      BY <2>3, ReadyKeyed
    <3>3. e \in InQueue(st, st.options[e])
      BY <3>1, <3>2, NoneAssumption DEF InQueue
    <3>. QED
      BY <2>3, <3>2, <3>3 DEF Starting
  <2>. QED
    BY <2>1, <2>2, <2>3 DEF Starting
<1>2. \A e \in Entries : t.phase[e] = IF e \in S THEN "connecting" ELSE st.phase[e]
  BY DEF Started
<1>. HIDE DEF S
<1>3. \A e \in Entries : /\ t.phase[e] \in Pending <=> st.phase[e] \in Pending
                         /\ t.phase[e] = "ready" <=> st.phase[e] = "ready"
  BY <1>1, <1>2 DEF Pending
<1>4. Filed(t)
  <2>1. /\ t.queue = st.queue /\ t.origin = st.origin /\ t.options = st.options
        /\ t.destroyed = st.destroyed /\ st.destroyed \subseteq Entries
        /\ st.queue \in [Options -> [Origins -> Entries \cup {None}]]
    BY <1>1 DEF Started, SameFiles, StateType
  <2>. QED
    BY <1>3, <2>1 DEF Accounted, Filed
<1>5. Measured(t)
  BY DEF Started, SameFiles, Accounted, Measured, InQueue
<1>6. Listening(t, r, T) /\ Attended(t)
  <2>1. t.listeners = st.listeners /\ t.status = st.status
    BY DEF Started, SameCallers
  <2>2. Attended(t)
    BY <1>2, <2>1 DEF Attended
  <2>. QED
    BY <1>3, <2>1, <2>2 DEF Accounted, Listening
<1>7. Listing(t)
  <2>1. t.sessions = st.sessions /\ t.options = st.options
    BY DEF Started
  <2>. QED
    BY <1>3, <2>1 DEF Accounted, Listing, Listed
<1>8. Streaming(t)
  <2>1. /\ t.given = st.given /\ t.status = st.status
        /\ t.currentStreamCount = st.currentStreamCount
    BY DEF Started, SameStreams, SameCallers
  <2>2. \A x : Streams(t, x) = Streams(st, x)
    BY <2>1 DEF Streams
  <2>3. \A l \in Listeners : st.status[l] \in {"streaming", "orphan"} => st.given[l] \in Entries
    BY DEF Good, Holding, HasSession
  <2>. QED
    BY <1>3, <2>1, <2>2, <2>3 DEF Accounted, Streaming
<1>9. UnusedCounted(t)
  <2>1. Unused(t) = Unused(st)
    BY <1>3 DEF Started, SameStreams, Unused
  <2>. QED
    BY <2>1 DEF Started, SameStreams, Accounted, UnusedCounted
<1>10. Counted(t)
  <2>1. InPhases(t, running) = InPhases(st, running) \cup S
    BY <1>1, <1>2 DEF InPhases
  <2>2. InPhases(st, running) \cap S = {}
    BY <1>1 DEF InPhases
  <2>3. /\ IsFiniteSet(S) /\ IsFiniteSet(InPhases(st, running))
    BY <1>1, EntriesFinite DEF InPhases
  <2>4. Cardinality(InPhases(st, running) \cup S)
          = Cardinality(InPhases(st, running)) + Cardinality(S)
    BY <2>2, <2>3, CountDisjoint
  <2>. QED
    BY <2>1, <2>4 DEF Started, Accounted, Counted, S
<1>11. \A e \in Entries : t.phase[e] = "queued" => e \in t.destroyed
  BY <1>1, <1>2 DEF Started
<1>. QED
  BY <1>4, <1>5, <1>6, <1>7, <1>8, <1>9, <1>10, <1>11 DEF Accounted

LEMMA ProcessQueueAccounted ==
  ASSUME NEW st, Good(st), NEW r, NEW T, Accounted(st, r, T), Attended(st),
         NEW t \in ProcessQueue(st)
  PROVE  Accounted(t, r, T) /\ Attended(t) /\ t.relay = st.relay
<1>1. CASE st.sessionCount >= MaxSessions
  <2>1. SameAccounts(st, t) /\ t.relay = st.relay
    BY <1>1, CloseEmptySessionsSame DEF ProcessQueue, Good
  <2>. QED
    BY <2>1, SameAccountsAccounted
<1>2. CASE ~(st.sessionCount >= MaxSessions)
  <2>1. Started(st, t)
    BY <1>2, StartEntriesFields DEF ProcessQueue, Good
  <2>2. t.relay = st.relay
    BY <2>1 DEF Started
  <2>. QED
    BY <2>1, <2>2, StartEntriesAccounted
<1>. QED
  BY <1>1, <1>2

------------------------------------------------------------------------------
(* Queueing callers.                                                        *)

\* What Enqueue changes before it runs the queue: callers T join entry e ...
Joined(st, t, e, T) ==
  /\ SameFiles(st, t) /\ SameKeys(st, t) /\ SamePool(st, t) /\ SameStreams(st, t)
  /\ SameCapacity(st, t) /\ t.given = st.given /\ t.relay = st.relay
  /\ t.life = st.life /\ t.gracefullyClosing = st.gracefullyClosing
  /\ t.status = [l \in Listeners |->
                   IF l \in T /\ st.status[l] = "idle" THEN "waiting" ELSE st.status[l]]
  /\ t.listeners = [st.listeners EXCEPT ![e] = @ \cup T]

\* ... or e is queued for them.
Queued(st, t, e, o, p, T) ==
  /\ SamePool(st, t) /\ SameStreams(st, t) /\ SameCapacity(st, t)
  /\ t.given = st.given /\ t.relay = st.relay /\ t.destroyed = st.destroyed
  /\ t.life = st.life /\ t.gracefullyClosing = st.gracefullyClosing
  /\ t.status = [l \in Listeners |->
                   IF l \in T /\ st.status[l] = "idle" THEN "waiting" ELSE st.status[l]]
  /\ t.listeners = [st.listeners EXCEPT ![e] = T]
  /\ t.queue = [st.queue EXCEPT ![p] = [@ EXCEPT ![o] = e]]
  /\ t.kLength = [st.kLength EXCEPT ![p] = @ + 1]
  /\ t.origin = [st.origin EXCEPT ![e] = o] /\ t.options = [st.options EXCEPT ![e] = p]
  /\ t.phase = [st.phase EXCEPT ![e] = "queued"]

LEMMA EnqueueFields ==
  ASSUME NEW st \in StateType, NEW o \in Origins, NEW p \in Options, NEW T \in SUBSET Listeners,
         NEW u \in Enqueue(st, o, p, T)
  PROVE  IF st.queue[p][o] # None
         THEN Joined(st, u, st.queue[p][o], T)
         ELSE \E e \in Fresh(st), t \in StateType : Queued(st, t, e, o, p, T) /\ u \in ProcessQueue(t)
<1>. DEFINE S == [l \in Listeners |->
                   IF l \in T /\ st.status[l] = "idle" THEN "waiting" ELSE st.status[l]]
            waiting == [st EXCEPT !.status = S]
<1>1. S \in [Listeners -> Statuses]
  BY DEF StateType, Statuses
<1>2. CASE st.queue[p][o] # None
  <2>. DEFINE joined == st.queue[p][o]
              L == [st.listeners EXCEPT ![joined] = @ \cup T]
  <2>1. u = [[st EXCEPT !.status = S] EXCEPT !.listeners = L]
    BY <1>2 DEF Enqueue, Join, StateType
  <2>. HIDE DEF S, L
  <2>2. /\ SameFiles(st, u) /\ SameKeys(st, u) /\ SamePool(st, u) /\ SameStreams(st, u)
        /\ SameCapacity(st, u) /\ u.given = st.given /\ u.relay = st.relay
        /\ u.life = st.life /\ u.gracefullyClosing = st.gracefullyClosing
        /\ u.status = S /\ u.listeners = L
    BY <2>1, SMTT(30) DEF StateType, SameFiles, SameKeys, SamePool, SameStreams, SameCapacity
  <2>. QED
    BY <1>2, <2>2, SMTT(30) DEF Joined, S, L
<1>3. CASE st.queue[p][o] = None
  <2>. DEFINE new(e) == [waiting EXCEPT
                   !.queue[p][o] = e, !.kLength[p] = @ + 1, !.origin[e] = o, !.options[e] = p,
                   !.listeners[e] = T, !.phase[e] = "queued"]
  <2>0. u \in UNION {ProcessQueue(new(e)) : e \in {f \in Fresh(st) : \A g \in Fresh(st) : f <= g}}
    BY <1>3, Zenon DEF Enqueue
  <2>. HIDE DEF new
  <2>1. PICK e \in Fresh(st) : u \in ProcessQueue(new(e))
    BY <2>0, Zenon
  <2>. USE DEF new
  <2>. DEFINE Q == [st.queue EXCEPT ![p] = [@ EXCEPT ![o] = e]]
              K == [st.kLength EXCEPT ![p] = @ + 1]
              L == [st.listeners EXCEPT ![e] = T]
              or == [st.origin EXCEPT ![e] = o]
              op == [st.options EXCEPT ![e] = p]
              ph == [st.phase EXCEPT ![e] = "queued"]
              t == new(e)
  <2>2. t = [[[[[[[st EXCEPT !.status = S] EXCEPT !.queue = Q] EXCEPT !.kLength = K]
            EXCEPT !.origin = or] EXCEPT !.options = op] EXCEPT !.listeners = L] EXCEPT !.phase = ph]
    BY DEF StateType
  <2>3. e \in Entries
    BY DEF Fresh
  <2>4. Q \in [Options -> [Origins -> Entries \cup {None}]]
    BY <2>3 DEF StateType
  <2>5. /\ K \in [Options -> Int] /\ L \in [Entries -> SUBSET Listeners]
        /\ or \in [Entries -> Origins \cup {None}] /\ op \in [Entries -> Options \cup {None}]
    BY <2>3 DEF StateType
  <2>6. ph \in [Entries -> Phases]
    BY <2>3 DEF StateType, Phases
  <2>. HIDE DEF S, Q, K, L, or, op, ph, t
  <2>7. t \in StateType
    BY <1>1, <2>2, <2>4, <2>5, <2>6 DEF StateType
  <2>8. /\ SamePool(st, t) /\ SameStreams(st, t) /\ SameCapacity(st, t)
        /\ t.given = st.given /\ t.relay = st.relay /\ t.destroyed = st.destroyed
        /\ t.life = st.life /\ t.gracefullyClosing = st.gracefullyClosing
        /\ t.status = S /\ t.listeners = L /\ t.queue = Q /\ t.kLength = K
        /\ t.origin = or /\ t.options = op /\ t.phase = ph
    BY <2>2 DEF StateType, SamePool, SameStreams, SameCapacity
  <2>9. Queued(st, t, e, o, p, T)
    BY <2>8 DEF Queued, S, Q, K, L, or, op, ph
  <2>. QED
    BY <1>3, <2>1, <2>7, <2>9 DEF t
<1>. QED
  BY <1>2, <1>3

LEMMA JoinedAccounted ==
  ASSUME NEW st, Good(st), NEW T \in SUBSET Listeners, Accounted(st, None, T), Attended(st),
         \A l \in T : st.status[l] \in {"idle", "waiting", "rejected"},
         NEW e \in Entries, st.phase[e] \in Pending, NEW t, Joined(st, t, e, T)
  PROVE  Accounted(t, None, {}) /\ Attended(t)
<1>1. st.listeners \in [Entries -> SUBSET Listeners] /\ st.status \in [Listeners -> Statuses]
  BY DEF Good, StateType
<1>2. Filed(t) /\ Measured(t) /\ Listing(t) /\ Counted(t)
  BY SameKeysFiled DEF Joined, Accounted
<1>3. /\ t.phase = st.phase /\ t.given = st.given /\ SameStreams(st, t)
      /\ \A x \in Entries : t.listeners[x] =
           IF x = e THEN st.listeners[x] \cup T ELSE st.listeners[x]
      /\ \A l \in Listeners : t.status[l] =
           IF l \in T /\ st.status[l] = "idle" THEN "waiting" ELSE st.status[l]
  BY <1>1 DEF Joined, SameKeys
<1>4. Streaming(t) /\ UnusedCounted(t)
  <2>1. \A x : Streams(t, x) = Streams(st, x)
    BY <1>3 DEF Streams
  <2>2. Unused(t) = Unused(st)
    BY <1>3 DEF Unused, SameStreams
  <2>. QED
    BY <1>3, <2>1, <2>2 DEF Accounted, Streaming, UnusedCounted, SameStreams
<1>5. Attended(t)
  BY <1>3 DEF Attended
<1>6. Listening(t, None, {})
  <2>1. \A x \in Entries : t.listeners[x] # {} => t.phase[x] \in Pending \/ x = None
    BY <1>3 DEF Accounted, Listening
  <2>2. ASSUME NEW x \in Entries, NEW l \in t.listeners[x]
        PROVE  t.status[l] \in {"waiting", "rejected"}
    <3>1. l \in Listeners
      BY <1>1, <1>3
    <3>. QED
      BY <1>3, <2>2, <3>1 DEF Accounted, Listening
  <2>3. \A x, y \in Entries : x # y => t.listeners[x] \cap t.listeners[y] = {}
    BY <1>3 DEF Accounted, Listening
  <2>4. \A l \in Listeners : t.status[l] = "waiting" => \E x \in Entries : l \in t.listeners[x]
    BY <1>3, ZenonT(30) DEF Accounted, Listening
  <2>. QED
    BY <2>1, <2>2, <2>3, <2>4 DEF Listening
<1>. QED
  BY <1>2, <1>4, <1>5, <1>6 DEF Accounted

\* A fresh entry is in no list, no map and no count.
LEMMA QueuedAccounted ==
  ASSUME NEW st, Good(st), NEW T \in SUBSET Listeners, Accounted(st, None, T), Attended(st),
         T # {}, \A l \in T : st.status[l] \in {"idle", "waiting", "rejected"},
         NEW o \in Origins, NEW p \in Options, st.queue[p][o] = None,
         NEW e \in Fresh(st), NEW t, Queued(st, t, e, o, p, T)
  PROVE  Accounted(t, None, {}) /\ Attended(t)
<1>1. /\ st.listeners \in [Entries -> SUBSET Listeners] /\ st.status \in [Listeners -> Statuses]
      /\ st.queue \in [Options -> [Origins -> Entries \cup {None}]]
      /\ st.kLength \in [Options -> Int] /\ st.phase \in [Entries -> Phases]
      /\ st.origin \in [Entries -> Origins \cup {None}]
      /\ st.options \in [Entries -> Options \cup {None}] /\ st.destroyed \subseteq Entries
      /\ st.sessions \in [Options -> Seq(Entries)] /\ st \in StateType
  BY DEF Good, StateType
<1>2. e \in Entries /\ st.phase[e] = "none" /\ e # None
  BY NoneAssumption DEF Fresh
<1>3. e \notin st.destroyed /\ st.listeners[e] = {}
      /\ \A q \in Options, x \in Origins : st.queue[q][x] # e
  BY <1>2 DEF Accounted, Filed, Listening, Pending
<1>4. /\ \A x \in Entries : t.phase[x] = IF x = e THEN "queued" ELSE st.phase[x]
      /\ \A x \in Entries : t.origin[x] = IF x = e THEN o ELSE st.origin[x]
      /\ \A x \in Entries : t.options[x] = IF x = e THEN p ELSE st.options[x]
      /\ \A x \in Entries : t.listeners[x] = IF x = e THEN T ELSE st.listeners[x]
      /\ \A q \in Options, x \in Origins : t.queue[q][x] =
           IF q = p /\ x = o THEN e ELSE st.queue[q][x]
      /\ \A q \in Options : t.kLength[q] = IF q = p THEN st.kLength[q] + 1 ELSE st.kLength[q]
      /\ \A l \in Listeners : t.status[l] =
           IF l \in T /\ st.status[l] = "idle" THEN "waiting" ELSE st.status[l]
  BY <1>1 DEF Queued
<1>5. t.destroyed = st.destroyed /\ t.sessions = st.sessions /\ t.sessionCount = st.sessionCount
      /\ t.given = st.given /\ SameStreams(st, t)
  BY DEF Queued, SamePool
<1>6. Filed(t)
  <2>1. \A q \in Options, x \in Origins : st.queue[q][x] # None => st.queue[q][x] \in Entries
    BY <1>1
  <2>2. ASSUME NEW q \in Options, NEW x \in Origins, t.queue[q][x] # None
        PROVE  /\ t.origin[t.queue[q][x]] = x /\ t.options[t.queue[q][x]] = q
               /\ t.phase[t.queue[q][x]] \in Pending /\ t.queue[q][x] \notin t.destroyed
    <3>1. CASE q = p /\ x = o
      BY <1>2, <1>3, <1>4, <1>5, <3>1 DEF Pending
    <3>2. CASE ~(q = p /\ x = o)
      <4>1. t.queue[q][x] = st.queue[q][x] /\ st.queue[q][x] \in Entries \ {e}
        BY <1>3, <1>4, <2>1, <2>2, <3>2
      <4>. QED
        BY <1>4, <1>5, <2>2, <4>1 DEF Accounted, Filed
    <3>. QED
      BY <3>1, <3>2
  <2>3. ASSUME NEW x \in Entries, t.phase[x] \in Pending, x \notin t.destroyed
        PROVE  t.queue[t.options[x]][t.origin[x]] = x
    <3>1. CASE x = e
      BY <1>4, <3>1
    <3>2. CASE x # e
      <4>1. st.phase[x] \in Pending /\ x \notin st.destroyed
        BY <1>4, <1>5, <2>3, <3>2
      <4>2. st.queue[st.options[x]][st.origin[x]] = x
        BY <4>1 DEF Accounted, Filed
      <4>3. st.options[x] \in Options /\ st.origin[x] \in Origins
        BY <4>1, ReadyKeyed DEF Pending
      <4>4. ~(st.options[x] = p /\ st.origin[x] = o)
        BY <4>2, NoneAssumption
      <4>. QED
        BY <1>4, <3>2, <4>2, <4>3, <4>4, SMTT(30)
    <3>. QED
      BY <3>1, <3>2
  <2>4. \A x \in t.destroyed : t.phase[x] \in Pending
    BY <1>1, <1>3, <1>4, <1>5 DEF Accounted, Filed
  <2>. QED
    BY <2>2, <2>3, <2>4 DEF Filed
<1>7. Measured(t)
  <2>1. SUFFICES ASSUME NEW q \in Options PROVE t.kLength[q] = Cardinality(InQueue(t, q))
    BY DEF Measured
  <2>2. st.kLength[q] = Cardinality(InQueue(st, q))
    BY DEF Accounted, Measured
  <2>3. CASE q = p
    <3>1. InQueue(t, q) = InQueue(st, q) \cup {e}
      BY <1>2, <1>4, <2>3 DEF InQueue
    <3>2. e \notin InQueue(st, q) /\ IsFiniteSet(InQueue(st, q))
      BY <1>1, <1>3, InQueueEntries, EntriesFinite DEF InQueue
    <3>3. Cardinality(InQueue(st, q) \cup {e}) = Cardinality(InQueue(st, q)) + 1
      BY <3>2, CountOneMore
    <3>. QED
      BY <1>4, <2>2, <2>3, <3>1, <3>3
  <2>4. CASE q # p
    <3>1. InQueue(t, q) = InQueue(st, q)
      BY <1>4, <2>4 DEF InQueue
    <3>. QED
      BY <1>4, <2>2, <2>4, <3>1
  <2>. QED
    BY <2>3, <2>4
<1>8. Listening(t, None, {})
  <2>1. \A x \in Entries : t.listeners[x] # {} => t.phase[x] \in Pending \/ x = None
    BY <1>4 DEF Accounted, Listening, Pending
  <2>2. ASSUME NEW x \in Entries, NEW l \in t.listeners[x]
        PROVE  t.status[l] \in {"waiting", "rejected"}
    <3>1. l \in Listeners
      BY <1>1, <1>4
    <3>. QED
      BY <1>4, <2>2, <3>1 DEF Accounted, Listening
  <2>3. \A x, y \in Entries : x # y => t.listeners[x] \cap t.listeners[y] = {}
    BY <1>4 DEF Accounted, Listening
  <2>4. \A l \in Listeners : t.status[l] = "waiting" => \E x \in Entries : l \in t.listeners[x]
    BY <1>2, <1>3, <1>4 DEF Accounted, Listening
  <2>. QED
    BY <2>1, <2>2, <2>3, <2>4 DEF Listening
<1>9. Attended(t)
  BY <1>4 DEF Attended
<1>10. \A x \in Entries : t.phase[x] = "ready" <=> st.phase[x] = "ready"
  BY <1>2, <1>4
<1>11. Listing(t)
  <2>1. \A q \in Options : Listed(t, q) = Listed(st, q)
    BY <1>5 DEF Listed
  <2>2. ASSUME NEW q \in Options, NEW i \in 1..Len(st.sessions[q])
        PROVE  t.options[st.sessions[q][i]] = st.options[st.sessions[q][i]]
    <3>1. HasSession(st, st.sessions[q][i])
      BY DEF Good, Pooled
    <3>. QED
      BY <1>2, <1>4, <3>1 DEF HasSession
  <2>3. \A x \in Entries : t.phase[x] = "ready" <=> \E q \in Options : x \in Listed(t, q)
    BY <1>10, <2>1 DEF Accounted, Listing
  <2>4. \A q \in Options : \A i, j \in 1..Len(t.sessions[q]) :
          /\ t.options[t.sessions[q][i]] = q
          /\ t.sessions[q][i] = t.sessions[q][j] => i = j
    BY <1>5, <2>2 DEF Accounted, Listing
  <2>. QED
    BY <2>3, <2>4 DEF Listing
<1>12. Streaming(t)
  <2>1. \A l \in Listeners : t.status[l] \in {"streaming", "orphan"} <=>
          st.status[l] \in {"streaming", "orphan"}
    BY <1>4
  <2>2. \A x : Streams(t, x) = Streams(st, x)
    BY <1>5, <2>1 DEF Streams
  <2>3. \A l \in Listeners : st.status[l] \in {"streaming", "orphan"} => st.given[l] \in Entries
    BY DEF Good, Holding, HasSession
  <2>. QED
    BY <1>5, <1>10, <2>1, <2>2, <2>3 DEF Accounted, Streaming, SameStreams
<1>13. UnusedCounted(t) /\ Counted(t)
  <2>1. Unused(t) = Unused(st)
    BY <1>5, <1>10 DEF Unused, SameStreams
  <2>2. InPhases(t, {"connecting", "connected", "ready"}) =
          InPhases(st, {"connecting", "connected", "ready"})
    BY <1>2, <1>4 DEF InPhases
  <2>. QED
    BY <1>5, <2>1, <2>2 DEF Accounted, UnusedCounted, Counted, SameStreams
<1>. QED
  BY <1>6, <1>7, <1>8, <1>9, <1>11, <1>12, <1>13 DEF Accounted

LEMMA QueuedGood ==
  ASSUME NEW st, Good(st), NEW T \in SUBSET Listeners, NEW o \in Origins, NEW p \in Options,
         NEW e \in Fresh(st), NEW t \in StateType, Queued(st, t, e, o, p, T)
  PROVE  Good(t)
<1>1. e \in Entries /\ st.phase[e] = "none" /\ e # None /\ o # None /\ p # None
  BY NoneAssumption DEF Fresh
<1>2. /\ st.phase \in [Entries -> Phases] /\ st.origin \in [Entries -> Origins \cup {None}]
      /\ st.options \in [Entries -> Options \cup {None}]
  BY DEF Good, StateType
<1>3. /\ \A x \in Entries : t.phase[x] = IF x = e THEN "queued" ELSE st.phase[x]
      /\ \A x \in Entries : t.origin[x] = IF x = e THEN o ELSE st.origin[x]
      /\ \A x \in Entries : t.options[x] = IF x = e THEN p ELSE st.options[x]
  BY <1>2 DEF Queued
<1>4. /\ t.given = st.given /\ t.life = st.life /\ t.relay = st.relay
      /\ t.sessions = st.sessions /\ t.gracefullyClosing = st.gracefullyClosing
      /\ t.currentStreamCount = st.currentStreamCount
      /\ \A l \in Listeners : t.status[l] \in {"holding", "streaming", "orphan"} =>
           st.status[l] \in {"holding", "streaming", "orphan"}
  BY DEF Queued, SamePool, SameStreams
<1>5. \A x : HasSession(st, x) => HasSession(t, x)
  BY <1>1, <1>3, <1>4 DEF HasSession
<1>6. Keyed(t)
  BY <1>1, <1>3 DEF Good, Keyed
<1>7. Pooled(t)
  BY <1>4, <1>5 DEF Good, Pooled
<1>8. Holding(t)
  BY <1>4, <1>5 DEF Good, Holding
<1>9. Relaying(t) /\ Closing(t)
  <2>1. st.relay # None => st.relay \in Entries
    BY DEF Good, StateType
  <2>. QED
    BY <1>1, <1>3, <1>4, <2>1 DEF Good, Relaying, Closing
<1>. QED
  BY <1>6, <1>7, <1>8, <1>9 DEF Good

LEMMA EnqueueAccounted ==
  ASSUME NEW st, Good(st), NEW T \in SUBSET Listeners, Accounted(st, None, T), Attended(st),
         T # {}, \A l \in T : st.status[l] \in {"idle", "waiting", "rejected"},
         NEW o \in Origins, NEW p \in Options, NEW u \in Enqueue(st, o, p, T)
  PROVE  Accounted(u, None, {}) /\ Attended(u) /\ u.relay = st.relay
<1>1. st \in StateType
  BY DEF Good
<1>2. CASE st.queue[p][o] # None
  <2>1. Joined(st, u, st.queue[p][o], T)
    BY <1>1, <1>2, EnqueueFields
  <2>2. st.queue[p][o] \in Entries /\ st.phase[st.queue[p][o]] \in Pending
    BY <1>1, <1>2 DEF StateType, Accounted, Filed
  <2>3. u.relay = st.relay
    BY <2>1 DEF Joined
  <2>. QED
    BY <2>1, <2>2, <2>3, JoinedAccounted
<1>3. CASE st.queue[p][o] = None
  <2>1. PICK e \in Fresh(st), t \in StateType : Queued(st, t, e, o, p, T) /\ u \in ProcessQueue(t)
    BY <1>1, <1>3, EnqueueFields
  <2>2. Accounted(t, None, {}) /\ Attended(t)
    BY <1>3, <2>1, QueuedAccounted
  <2>3. Good(t)
    BY <2>1, QueuedGood
  <2>4. t.relay = st.relay
    BY <2>1 DEF Queued
  <2>. QED
    BY <2>1, <2>2, <2>3, <2>4, ProcessQueueAccounted
<1>. QED
  BY <1>2, <1>3

------------------------------------------------------------------------------
(* The lists of the pool.                                                   *)

Distinct(s) == \A i, j \in 1..Len(s) : s[i] = s[j] => i = j

LEMMA ListElements ==
  ASSUME NEW s \in Seq(Entries)
  PROVE  Len(s) \in Nat /\ \A x : x \in ToSet(s) <=> \E k \in 1..Len(s) : s[k] = x
  BY LenProperties DEF ToSet

LEMMA InsertDistinct ==
  ASSUME NEW s \in Seq(Entries), NEW i \in 0..Len(s), NEW e \in Entries, e \notin ToSet(s), Distinct(s)
  PROVE  /\ Distinct(InsertAt(s, i + 1, e))
         /\ \A x : x \in ToSet(InsertAt(s, i + 1, e)) <=> x \in ToSet(s) \/ x = e
<1>0. /\ InsertAt(s, i + 1, e) \in Seq(Entries)
      /\ Len(InsertAt(s, i + 1, e)) = Len(s) + 1
      /\ \A k \in 1..i : InsertAt(s, i + 1, e)[k] = s[k]
      /\ InsertAt(s, i + 1, e)[i + 1] = e
      /\ \A k \in (i + 2)..(Len(s) + 1) : InsertAt(s, i + 1, e)[k] = s[k - 1]
  BY InsertEntry, Zenon
<1>. DEFINE t == InsertAt(s, i + 1, e)
            from(k) == IF k <= i THEN k ELSE k - 1
            to(k) == IF k <= i THEN k ELSE k + 1
<1>1. /\ t \in Seq(Entries) /\ Len(t) = Len(s) + 1 /\ t[i + 1] = e
      /\ \A k \in 1..i : t[k] = s[k]
      /\ \A k \in (i + 2)..(Len(s) + 1) : t[k] = s[k - 1]
  BY <1>0, Zenon
<1>. HIDE DEF t
<1>2. Len(s) \in Nat /\ \A x : x \in ToSet(s) <=> \E k \in 1..Len(s) : s[k] = x
  BY ListElements
<1>3. \A x : x \in ToSet(t) <=> \E k \in 1..Len(t) : t[k] = x
  BY <1>1, ListElements
<1>4. ASSUME NEW k \in 1..Len(t), k # i + 1
      PROVE  from(k) \in 1..Len(s) /\ t[k] = s[from(k)] /\ t[k] # e
  <2>1. CASE k <= i
    <3>1. k \in 1..i /\ k \in 1..Len(s)
      BY <1>1, <1>2, <2>1
    <3>. QED
      BY <1>1, <1>2, <2>1, <3>1
  <2>2. CASE ~(k <= i)
    <3>1. k \in (i + 2)..(Len(s) + 1) /\ k - 1 \in 1..Len(s)
      BY <1>1, <1>2, <1>4, <2>2
    <3>. QED
      BY <1>1, <1>2, <2>2, <3>1
  <2>. QED
    BY <2>1, <2>2
<1>5. ASSUME NEW k \in 1..Len(s) PROVE to(k) \in 1..Len(t) /\ t[to(k)] = s[k]
  <2>1. CASE k <= i
    <3>1. k \in 1..i /\ k \in 1..Len(t)
      BY <1>1, <1>2, <2>1
    <3>. QED
      BY <1>1, <2>1, <3>1
  <2>2. CASE ~(k <= i)
    <3>1. k + 1 \in (i + 2)..(Len(s) + 1) /\ k + 1 \in 1..Len(t) /\ (k + 1) - 1 = k
      BY <1>1, <1>2, <2>2
    <3>. QED
      BY <1>1, <2>2, <3>1
  <2>. QED
    BY <2>1, <2>2
<1>6. ASSUME NEW j \in 1..Len(t), NEW k \in 1..Len(t), t[j] = t[k] PROVE j = k
  <2>1. j = i + 1 <=> k = i + 1
    BY <1>1, <1>4, <1>6
  <2>2. CASE j # i + 1
    <3>1. from(j) = from(k)
      BY <1>4, <1>6, <2>1, <2>2 DEF Distinct
    <3>. QED
      BY <1>1, <1>2, <2>1, <2>2, <3>1
  <2>. QED
    BY <2>1, <2>2
<1>7. ASSUME NEW x PROVE x \in ToSet(t) <=> x \in ToSet(s) \/ x = e
  <2>1. ASSUME x \in ToSet(t), x # e PROVE x \in ToSet(s)
    <3>1. PICK k \in 1..Len(t) : t[k] = x
      BY <1>3, <2>1
    <3>2. k # i + 1
      BY <1>1, <2>1, <3>1
    <3>. QED
      BY <1>2, <1>4, <3>1, <3>2
  <2>2. ASSUME x \in ToSet(s) PROVE x \in ToSet(t)
    BY <1>2, <1>3, <1>5, <2>2
  <2>3. e \in ToSet(t)
    <3>1. i + 1 \in 1..Len(t)
      BY <1>1, <1>2
    <3>. QED
      BY <1>1, <1>3, <3>1
  <2>. QED
    BY <2>1, <2>2, <2>3
<1>. QED
  BY <1>6, <1>7 DEF Distinct, t

LEMMA RemoveDistinct ==
  ASSUME NEW s \in Seq(Entries), NEW i \in 1..Len(s), Distinct(s)
  PROVE  /\ Distinct(RemoveAt(s, i))
         /\ \A x : x \in ToSet(RemoveAt(s, i)) <=> x \in ToSet(s) /\ x # s[i]
<1>. DEFINE t == RemoveAt(s, i)
            from(k) == IF k < i THEN k ELSE k + 1
            to(k) == IF k < i THEN k ELSE k - 1
<1>1. /\ t \in Seq(Entries) /\ Len(t) = Len(s) - 1
      /\ \A k \in 1..(i - 1) : t[k] = s[k]
      /\ \A k \in i..(Len(s) - 1) : t[k] = s[k + 1]
  BY RemoveAtElements
<1>. HIDE DEF t
<1>2. Len(s) \in Nat /\ \A x : x \in ToSet(s) <=> \E k \in 1..Len(s) : s[k] = x
  BY ListElements
<1>3. \A x : x \in ToSet(t) <=> \E k \in 1..Len(t) : t[k] = x
  BY <1>1, ListElements
<1>4. ASSUME NEW k \in 1..Len(t)
      PROVE  from(k) \in 1..Len(s) /\ from(k) # i /\ t[k] = s[from(k)]
  <2>1. CASE k < i
    <3>1. k \in 1..(i - 1) /\ k \in 1..Len(s)
      BY <1>1, <1>2, <2>1
    <3>. QED
      BY <1>1, <2>1, <3>1
  <2>2. CASE ~(k < i)
    <3>1. k \in i..(Len(s) - 1) /\ k + 1 \in 1..Len(s) /\ k + 1 # i
      BY <1>1, <1>2, <2>2
    <3>. QED
      BY <1>1, <2>2, <3>1
  <2>. QED
    BY <2>1, <2>2
<1>5. ASSUME NEW k \in 1..Len(s), k # i PROVE to(k) \in 1..Len(t) /\ t[to(k)] = s[k]
  <2>1. CASE k < i
    <3>1. k \in 1..(i - 1) /\ k \in 1..Len(t)
      BY <1>1, <1>2, <2>1
    <3>. QED
      BY <1>1, <2>1, <3>1
  <2>2. CASE ~(k < i)
    <3>1. k - 1 \in i..(Len(s) - 1) /\ k - 1 \in 1..Len(t) /\ (k - 1) + 1 = k
      BY <1>1, <1>2, <1>5, <2>2
    <3>. QED
      BY <1>1, <2>2, <3>1
  <2>. QED
    BY <2>1, <2>2
<1>6. ASSUME NEW j \in 1..Len(t), NEW k \in 1..Len(t), t[j] = t[k] PROVE j = k
  <2>1. from(j) = from(k)
    BY <1>4, <1>6 DEF Distinct
  <2>. QED
    BY <1>1, <1>2, <2>1
<1>7. ASSUME NEW x PROVE x \in ToSet(t) <=> x \in ToSet(s) /\ x # s[i]
  <2>1. ASSUME x \in ToSet(t) PROVE x \in ToSet(s) /\ x # s[i]
    <3>1. PICK k \in 1..Len(t) : t[k] = x
      BY <1>3, <2>1
    <3>. QED
      BY <1>2, <1>4, <3>1 DEF Distinct
  <2>2. ASSUME x \in ToSet(s), x # s[i] PROVE x \in ToSet(t)
    <3>1. PICK k \in 1..Len(s) : s[k] = x
      BY <1>2, <2>2
    <3>2. k # i
      BY <2>2, <3>1
    <3>. QED
      BY <1>3, <1>5, <3>1, <3>2
  <2>. QED
    BY <2>1, <2>2
<1>. QED
  BY <1>6, <1>7 DEF Distinct, t

\* What EnterPool changes.
Entered(st, t, e, i, n, O) ==
  /\ SameFiles(st, t) /\ SameCallers(st, t)
  /\ t.origin = st.origin /\ t.options = st.options /\ t.destroyed = st.destroyed
  /\ t.listeners = st.listeners /\ t.sessionCount = st.sessionCount /\ t.relay = st.relay
  /\ t.life = st.life /\ t.gracefullyClosing = st.gracefullyClosing
  /\ t.currentStreamCount = st.currentStreamCount
  /\ t.emptySessionCount = st.emptySessionCount + 1
  /\ t.sessions = [st.sessions EXCEPT ![st.options[e]] = InsertAt(@, i + 1, e)]
  /\ t.maxConcurrentStreams = [st.maxConcurrentStreams EXCEPT ![e] = n]
  /\ t.originSet = [st.originSet EXCEPT ![e] = O]
  /\ t.phase = [st.phase EXCEPT ![e] = "ready"]

LEMMA EnterPoolFields ==
  ASSUME NEW st \in StateType, NEW e \in Entries, st.options[e] \in Options, NEW i, NEW n, NEW O
  PROVE  Entered(st, EnterPool(st, e, i, n, O), e, i, n, O)
<1>. DEFINE t == EnterPool(st, e, i, n, O)
            lists == [st.sessions EXCEPT ![st.options[e]] = InsertAt(@, i + 1, e)]
            limits == [st.maxConcurrentStreams EXCEPT ![e] = n]
            sets == [st.originSet EXCEPT ![e] = O]
            ph == [st.phase EXCEPT ![e] = "ready"]
            empty == st.emptySessionCount + 1
<1>1. t = [[[[[st EXCEPT !.sessions = lists] EXCEPT !.maxConcurrentStreams = limits]
              EXCEPT !.originSet = sets] EXCEPT !.phase = ph] EXCEPT !.emptySessionCount = empty]
  BY DEF StateType, EnterPool
<1>. HIDE DEF lists, limits, sets, ph, empty, t
<1>2. /\ SameFiles(st, t) /\ SameCallers(st, t)
      /\ t.origin = st.origin /\ t.options = st.options /\ t.destroyed = st.destroyed
      /\ t.listeners = st.listeners /\ t.sessionCount = st.sessionCount /\ t.relay = st.relay
      /\ t.life = st.life /\ t.gracefullyClosing = st.gracefullyClosing
      /\ t.currentStreamCount = st.currentStreamCount /\ t.emptySessionCount = empty
      /\ t.sessions = lists /\ t.maxConcurrentStreams = limits /\ t.originSet = sets /\ t.phase = ph
  BY <1>1 DEF StateType, SameFiles, SameCallers
<1>. QED
  BY <1>2 DEF Entered, lists, limits, sets, ph, empty, t

\* The entry leaves the queue and its session enters the pool: its listeners
\* are in hand until _accept() has seen to them.
LEMMA EnterPoolAccounted ==
  ASSUME NEW st, Good(st), Accounted(st, None, {}), Attended(st),
         NEW e \in Entries, st.phase[e] = "connected", e \notin st.destroyed,
         NEW u, SameButQueue(st, u), Measured(u),
         \A q \in Options, o \in Origins :
           u.queue[q][o] = IF st.queue[q][o] = e THEN None ELSE st.queue[q][o],
         NEW i \in 0..Len(st.sessions[st.options[e]]), NEW n, NEW O,
         NEW t, Entered(u, t, e, i, n, O)
  PROVE  Accounted(t, e, {}) /\ Attended(t)
<1>1. /\ st.queue \in [Options -> [Origins -> Entries \cup {None}]]
      /\ st.phase \in [Entries -> Phases] /\ st.destroyed \subseteq Entries
      /\ st.sessions \in [Options -> Seq(Entries)] /\ st.options[e] \in Options
  BY ReadyKeyed DEF Good, StateType
<1>2. /\ \A x \in Entries : t.phase[x] = IF x = e THEN "ready" ELSE st.phase[x]
      /\ \A q \in Options, o \in Origins :
           t.queue[q][o] = IF st.queue[q][o] = e THEN None ELSE st.queue[q][o]
      /\ Measured(t) /\ t.options = st.options /\ t.origin = st.origin
      /\ t.destroyed = st.destroyed /\ t.listeners = st.listeners
      /\ t.given = st.given /\ t.status = st.status /\ t.currentStreamCount = st.currentStreamCount
      /\ t.emptySessionCount = st.emptySessionCount + 1 /\ t.sessionCount = st.sessionCount
      /\ t.sessions = [st.sessions EXCEPT ![st.options[e]] = InsertAt(@, i + 1, e)]
  <2>1. t.queue = u.queue /\ t.kLength = u.kLength /\ u.phase = st.phase /\ u.options = st.options
        /\ u.origin = st.origin /\ u.destroyed = st.destroyed /\ u.listeners = st.listeners
        /\ u.sessions = st.sessions /\ u.sessionCount = st.sessionCount
        /\ u.emptySessionCount = st.emptySessionCount /\ u.currentStreamCount = st.currentStreamCount
        /\ u.given = st.given /\ u.status = st.status
    BY DEF Entered, SameFiles, SameButQueue, SameKeys, SamePool, SameStreams, SameCallers
  <2>2. Measured(t)
    BY <2>1 DEF Measured, InQueue
  <2>3. t.phase = [st.phase EXCEPT ![e] = "ready"]
        /\ t.sessions = [st.sessions EXCEPT ![st.options[e]] = InsertAt(@, i + 1, e)]
    BY <2>1 DEF Entered
  <2>4. \A x \in Entries : t.phase[x] = IF x = e THEN "ready" ELSE st.phase[x]
    BY <1>1, <2>3
  <2>. QED
    BY <2>1, <2>2, <2>3, <2>4 DEF Entered, SameCallers
<1>3. Filed(t)
  <2>1. ASSUME NEW q \in Options, NEW o \in Origins, t.queue[q][o] # None
        PROVE  /\ t.origin[t.queue[q][o]] = o /\ t.options[t.queue[q][o]] = q
               /\ t.phase[t.queue[q][o]] \in Pending /\ t.queue[q][o] \notin t.destroyed
    <3>1. t.queue[q][o] = st.queue[q][o] /\ st.queue[q][o] \in Entries \ {e}
      BY <1>1, <1>2, <2>1
    <3>. QED
      BY <1>2, <2>1, <3>1 DEF Accounted, Filed
  <2>2. ASSUME NEW x \in Entries, t.phase[x] \in Pending, x \notin t.destroyed
        PROVE  t.queue[t.options[x]][t.origin[x]] = x
    <3>1. x # e /\ st.phase[x] \in Pending /\ x \notin st.destroyed
      BY <1>2, <2>2 DEF Pending
    <3>2. st.queue[st.options[x]][st.origin[x]] = x
      BY <3>1 DEF Accounted, Filed
    <3>3. st.options[x] \in Options /\ st.origin[x] \in Origins
      BY <3>1, ReadyKeyed DEF Pending
    <3>. QED
      BY <1>2, <3>1, <3>2, <3>3
  <2>3. \A x \in t.destroyed : t.phase[x] \in Pending
    BY <1>1, <1>2 DEF Accounted, Filed
  <2>. QED
    BY <2>1, <2>2, <2>3 DEF Filed
<1>4. Listening(t, e, {}) /\ Attended(t)
  <2>1. \A x \in Entries : t.listeners[x] # {} => t.phase[x] \in Pending \/ x = e
    BY <1>2, NoneAssumption DEF Accounted, Listening
  <2>2. Attended(t)
    BY <1>2 DEF Attended
  <2>. QED
    BY <1>2, <2>1, <2>2 DEF Accounted, Listening
<1>5. Streams(st, e) = {} /\ st.currentStreamCount[e] = 0
  <2>1. Streams(st, e) = {}
    BY DEF Accounted, Streaming, Streams
  <2>. QED
    BY <2>1, FS_EmptySet DEF Accounted, Streaming
<1>6. Streaming(t)
  <2>1. \A x : Streams(t, x) = Streams(st, x)
    BY <1>2 DEF Streams
  <2>2. \A l \in Listeners : st.status[l] \in {"streaming", "orphan"} => st.given[l] \in Entries
    BY DEF Good, Holding, HasSession
  <2>. QED
    BY <1>2, <2>1, <2>2 DEF Accounted, Streaming
<1>7. UnusedCounted(t)
  <2>1. Unused(t) = Unused(st) \cup {e}
    BY <1>2, <1>5 DEF Unused
  <2>2. e \notin Unused(st) /\ IsFiniteSet(Unused(st))
    BY EntriesFinite DEF Unused
  <2>3. Cardinality(Unused(st) \cup {e}) = Cardinality(Unused(st)) + 1
    BY <2>2, CountOneMore
  <2>. QED
    BY <1>2, <2>1, <2>3 DEF Accounted, UnusedCounted
<1>8. Counted(t)
  <2>1. InPhases(t, {"connecting", "connected", "ready"}) =
          InPhases(st, {"connecting", "connected", "ready"})
    BY <1>2 DEF InPhases
  <2>. QED
    BY <1>2, <2>1 DEF Accounted, Counted
<1>9. Listing(t)
  <2>. DEFINE p == st.options[e]
              s == st.sessions[p]
  <2>1. s \in Seq(Entries) /\ i \in 0..Len(s)
    BY <1>1
  <2>2. e \notin ToSet(s) /\ Distinct(s)
    BY <1>1 DEF Accounted, Listing, Listed, Distinct
  <2>3. /\ Distinct(InsertAt(s, i + 1, e))
        /\ \A x : x \in ToSet(InsertAt(s, i + 1, e)) <=> x \in ToSet(s) \/ x = e
    <3>. HIDE DEF s
    <3>. QED
      BY <2>1, <2>2, InsertDistinct
  <2>4. \A q \in Options : t.sessions[q] = IF q = p THEN InsertAt(s, i + 1, e) ELSE st.sessions[q]
    BY <1>1, <1>2
  <2>5. \A q \in Options, x \in Entries : x \in Listed(st, q) => st.options[x] = q
    <3>1. ASSUME NEW q \in Options, NEW x \in Entries, x \in ToSet(st.sessions[q])
          PROVE  st.options[x] = q
      <4>1. PICK k \in 1..Len(st.sessions[q]) : st.sessions[q][k] = x
        <5>1. st.sessions[q] \in Seq(Entries)
          BY <1>1
        <5>. QED
          BY <3>1, <5>1, ListElements
      <4>. QED
        BY <4>1 DEF Accounted, Listing
    <3>. QED
      BY <3>1 DEF Listed
  <2>6. \A q \in Options : \A x : x \in Listed(t, q) <=> x \in Listed(st, q) \/ (q = p /\ x = e)
    <3>. HIDE DEF s
    <3>. QED
      BY <2>3, <2>4 DEF Listed, s
  <2>7. \A q \in Options : Distinct(t.sessions[q])
    <3>. HIDE DEF s
    <3>. QED
      BY <2>3, <2>4 DEF Accounted, Listing, Distinct
  <2>8. \A q \in Options : t.sessions[q] \in Seq(Entries)
    <3>1. InsertAt(s, i + 1, e) \in Seq(Entries)
      <4>. HIDE DEF s
      <4>. QED
        BY <2>1, InsertEntry
    <3>. HIDE DEF s
    <3>. QED
      BY <1>1, <2>4, <3>1
  <2>9. ASSUME NEW q \in Options, NEW k \in 1..Len(t.sessions[q])
        PROVE  t.options[t.sessions[q][k]] = q
    <3>1. t.sessions[q][k] \in Listed(t, q) /\ t.sessions[q][k] \in Entries
      BY <2>8, ElementOfSeq DEF Listed, ToSet
    <3>. QED
      BY <1>2, <2>5, <2>6, <3>1
  <2>10. \A x \in Entries : t.phase[x] = "ready" <=> \E q \in Options : x \in Listed(t, q)
    BY <1>1, <1>2, <2>6 DEF Accounted, Listing
  <2>. QED
    BY <2>7, <2>9, <2>10 DEF Listing, Distinct
<1>. QED
  BY <1>2, <1>3, <1>4, <1>6, <1>7, <1>8, <1>9 DEF Accounted

------------------------------------------------------------------------------
(* The end of an entry.                                                     *)

\* What the `close' event of a session in the pool changes before Forget.
LeftPool(st, t, e, i) ==
  /\ SameFiles(st, t) /\ SameKeys(st, t) /\ SameCallers(st, t) /\ SameCapacity(st, t)
  /\ t.listeners = st.listeners /\ t.relay = st.relay
  /\ t.life = st.life /\ t.gracefullyClosing = st.gracefullyClosing
  /\ t.currentStreamCount = st.currentStreamCount
  /\ t.emptySessionCount = st.emptySessionCount - 1
  /\ t.sessionCount = st.sessionCount - 1
  /\ t.sessions = [st.sessions EXCEPT ![st.options[e]] = RemoveAt(@, i)]

LEMMA LeftPoolAccounted ==
  ASSUME NEW st, Good(st), Accounted(st, None, {}), Attended(st),
         NEW e \in Entries, st.phase[e] = "ready", st.currentStreamCount[e] = 0,
         NEW i \in 1..Len(st.sessions[st.options[e]]), st.sessions[st.options[e]][i] = e,
         NEW u, LeftPool(st, u, e, i), NEW t, Forgotten(u, t, {e}, "closed")
  PROVE  Accounted(t, None, {}) /\ Attended(t)
<1>. DEFINE p == st.options[e]
            s == st.sessions[p]
<1>1. /\ st.queue \in [Options -> [Origins -> Entries \cup {None}]]
      /\ st.phase \in [Entries -> Phases] /\ st.destroyed \subseteq Entries
      /\ st.sessions \in [Options -> Seq(Entries)] /\ p \in Options
      /\ st.listeners \in [Entries -> SUBSET Listeners]
  BY ReadyKeyed DEF Good, StateType
<1>2. /\ \A x \in Entries : t.phase[x] = IF x = e THEN "closed" ELSE st.phase[x]
      /\ \A x \in Entries : t.origin[x] = IF x = e THEN None ELSE st.origin[x]
      /\ \A x \in Entries : t.options[x] = IF x = e THEN None ELSE st.options[x]
      /\ \A x \in Entries : t.listeners[x] = IF x = e THEN {} ELSE st.listeners[x]
      /\ t.destroyed = st.destroyed \ {e}
  BY DEF Forgotten, LeftPool, SameKeys
<1>3. /\ t.queue = st.queue /\ t.kLength = st.kLength /\ t.given = st.given /\ t.status = st.status
      /\ t.currentStreamCount = st.currentStreamCount
      /\ t.emptySessionCount = st.emptySessionCount - 1 /\ t.sessionCount = st.sessionCount - 1
      /\ t.sessions = [st.sessions EXCEPT ![p] = RemoveAt(@, i)]
  BY DEF Forgotten, LeftPool, SameFiles, SameCallers, SameStreams, SamePool
<1>. HIDE DEF p, s
<1>4. Filed(t) /\ Measured(t)
  <2>1. ASSUME NEW q \in Options, NEW o \in Origins, t.queue[q][o] # None
        PROVE  /\ t.origin[t.queue[q][o]] = o /\ t.options[t.queue[q][o]] = q
               /\ t.phase[t.queue[q][o]] \in Pending /\ t.queue[q][o] \notin t.destroyed
    <3>1. t.queue[q][o] = st.queue[q][o] /\ st.queue[q][o] \in Entries
      BY <1>1, <1>3, <2>1
    <3>2. st.queue[q][o] # e
      BY <2>1, <3>1 DEF Accounted, Filed, Pending
    <3>. QED
      BY <1>2, <2>1, <3>1, <3>2 DEF Accounted, Filed
  <2>2. ASSUME NEW x \in Entries, t.phase[x] \in Pending, x \notin t.destroyed
        PROVE  t.queue[t.options[x]][t.origin[x]] = x
    BY <1>2, <1>3, <2>2 DEF Accounted, Filed, Pending
  <2>3. \A x \in t.destroyed : t.phase[x] \in Pending
    BY <1>1, <1>2 DEF Accounted, Filed
  <2>4. Measured(t)
    BY <1>3 DEF Accounted, Measured, InQueue
  <2>. QED
    BY <2>1, <2>2, <2>3, <2>4 DEF Filed
<1>5. Listening(t, None, {}) /\ Attended(t)
  <2>1. st.listeners[e] = {}
    BY NoneAssumption DEF Accounted, Listening, Pending
  <2>2. \A x \in Entries : t.listeners[x] = st.listeners[x]
    BY <1>2, <2>1
  <2>3. Attended(t)
    BY <1>2, <2>2 DEF Attended
  <2>4. \A x \in Entries : t.listeners[x] # {} => t.phase[x] \in Pending \/ x = None
    BY <1>2, <2>2 DEF Accounted, Listening
  <2>. QED
    BY <1>3, <2>2, <2>3, <2>4 DEF Accounted, Listening
<1>6. Streaming(t)
  <2>1. Streams(st, e) = {}
    <3>1. Cardinality(Streams(st, e)) = 0
      BY DEF Accounted, Streaming
    <3>2. IsFiniteSet(Streams(st, e))
      BY ListenersFinite DEF Streams
    <3>. QED
      BY <3>1, <3>2, FS_EmptySet
  <2>2. \A x : Streams(t, x) = Streams(st, x)
    BY <1>3 DEF Streams
  <2>3. ASSUME NEW l \in Listeners, t.status[l] \in {"streaming", "orphan"}
        PROVE  t.phase[t.given[l]] = "ready"
    <3>1. st.given[l] # e /\ st.given[l] \in Entries
      BY <1>3, <2>1, <2>3 DEF Streams, Good, Holding, HasSession
    <3>. QED
      BY <1>2, <1>3, <2>3, <3>1 DEF Accounted, Streaming
  <2>. QED
    BY <1>3, <2>2, <2>3 DEF Accounted, Streaming
<1>7. UnusedCounted(t)
  <2>1. Unused(t) = Unused(st) \ {e} /\ e \in Unused(st)
    BY <1>2, <1>3 DEF Unused
  <2>2. IsFiniteSet(Unused(st))
    BY EntriesFinite DEF Unused
  <2>3. Cardinality(Unused(st) \ {e}) = Cardinality(Unused(st)) - 1
    BY <2>1, <2>2, CountOneLess
  <2>. QED
    BY <1>3, <2>1, <2>3 DEF Accounted, UnusedCounted
<1>8. Counted(t)
  <2>. DEFINE R(x) == InPhases(x, {"connecting", "connected", "ready"})
  <2>1. R(t) = R(st) \ {e} /\ e \in R(st)
    BY <1>2, <1>3 DEF InPhases
  <2>2. IsFiniteSet(R(st))
    BY EntriesFinite DEF InPhases
  <2>3. Cardinality(R(st) \ {e}) = Cardinality(R(st)) - 1
    <3>. HIDE DEF R
    <3>. QED
      BY <2>1, <2>2, CountOneLess
  <2>. QED
    BY <1>3, <2>1, <2>3 DEF Accounted, Counted
<1>9. Listing(t)
  <2>1. s \in Seq(Entries) /\ i \in 1..Len(s) /\ s[i] = e /\ Distinct(s)
    BY <1>1 DEF s, p, Accounted, Listing, Distinct
  <2>2. /\ Distinct(RemoveAt(s, i)) /\ RemoveAt(s, i) \in Seq(Entries)
        /\ \A x : x \in ToSet(RemoveAt(s, i)) <=> x \in ToSet(s) /\ x # e
    BY <2>1, RemoveDistinct, RemoveAtElements
  <2>3. \A q \in Options : t.sessions[q] = IF q = p THEN RemoveAt(s, i) ELSE st.sessions[q]
    BY <1>1, <1>3 DEF s
  <2>4. \A q \in Options, x \in Entries : x \in Listed(st, q) => st.options[x] = q
    <3>1. ASSUME NEW q \in Options, NEW x \in Entries, x \in ToSet(st.sessions[q])
          PROVE  st.options[x] = q
      <4>1. PICK k \in 1..Len(st.sessions[q]) : st.sessions[q][k] = x
        <5>1. st.sessions[q] \in Seq(Entries)
          BY <1>1
        <5>. QED
          BY <3>1, <5>1, ListElements
      <4>. QED
        BY <4>1 DEF Accounted, Listing
    <3>. QED
      BY <3>1 DEF Listed
  <2>5. \A q \in Options : \A x : x \in Listed(t, q) <=> x \in Listed(st, q) /\ ~(q = p /\ x = e)
    BY <2>2, <2>3 DEF Listed, s
  <2>6. \A q \in Options : Distinct(t.sessions[q]) /\ t.sessions[q] \in Seq(Entries)
    BY <1>1, <2>2, <2>3, SMTT(30) DEF Accounted, Listing, Distinct
  <2>7. ASSUME NEW q \in Options, NEW k \in 1..Len(t.sessions[q])
        PROVE  t.options[t.sessions[q][k]] = q
    <3>1. t.sessions[q][k] \in Listed(t, q) /\ t.sessions[q][k] \in Entries
      BY <2>6, ElementOfSeq DEF Listed, ToSet
    <3>2. t.sessions[q][k] # e
      BY <2>4, <2>5, <3>1 DEF p
    <3>. QED
      BY <1>2, <2>4, <2>5, <3>1, <3>2
  <2>8. \A x \in Entries : t.phase[x] = "ready" <=> \E q \in Options : x \in Listed(t, q)
    BY <1>1, <1>2, <2>4, <2>5 DEF Accounted, Listing, p
  <2>. QED
    BY <2>6, <2>7, <2>8 DEF Listing, Distinct
<1>. QED
  BY <1>4, <1>5, <1>6, <1>7, <1>8, <1>9 DEF Accounted

\* What the end of an entry without a listed session changes.
Ended(st, t, e) ==
  /\ Measured(t)
  /\ \A q \in Options, o \in Origins :
       t.queue[q][o] = IF st.queue[q][o] = e THEN None ELSE st.queue[q][o]
  /\ \A x \in Entries : t.phase[x] = IF x = e THEN "closed" ELSE st.phase[x]
  /\ \A x \in Entries : t.origin[x] = IF x = e THEN None ELSE st.origin[x]
  /\ \A x \in Entries : t.options[x] = IF x = e THEN None ELSE st.options[x]
  /\ \A x \in Entries : t.listeners[x] = IF x = e THEN {} ELSE st.listeners[x]
  /\ \A x \in Entries : t.originSet[x] = IF x = e THEN {} ELSE st.originSet[x]
  /\ \A x \in Entries : t.maxConcurrentStreams[x] =
       IF x = e THEN 0 ELSE st.maxConcurrentStreams[x]
  /\ t.destroyed = st.destroyed \ {e} /\ t.gracefullyClosing = st.gracefullyClosing \ {e}
  /\ SameStreams(st, t) /\ t.sessions = st.sessions /\ t.sessionCount = st.sessionCount - 1
  /\ t.given = st.given /\ t.relay = st.relay /\ t.life = st.life
  /\ t.status = [l \in Listeners |->
       IF l \in st.listeners[e] /\ st.status[l] = "waiting" THEN "rejected" ELSE st.status[l]]

LEMMA EndedAccounted ==
  ASSUME NEW st, Good(st), Accounted(st, None, {}), Attended(st),
         NEW e \in Entries, st.phase[e] \in {"connecting", "connected"}, NEW t, Ended(st, t, e)
  PROVE  Accounted(t, None, {}) /\ Attended(t)
<1>1. /\ st.queue \in [Options -> [Origins -> Entries \cup {None}]]
      /\ st.phase \in [Entries -> Phases] /\ st.destroyed \subseteq Entries
      /\ st.listeners \in [Entries -> SUBSET Listeners]
  BY DEF Good, StateType
<1>2. /\ Measured(t)
      /\ \A q \in Options, o \in Origins :
           t.queue[q][o] = IF st.queue[q][o] = e THEN None ELSE st.queue[q][o]
      /\ \A x \in Entries : t.phase[x] = IF x = e THEN "closed" ELSE st.phase[x]
      /\ \A x \in Entries : t.origin[x] = IF x = e THEN None ELSE st.origin[x]
      /\ \A x \in Entries : t.options[x] = IF x = e THEN None ELSE st.options[x]
      /\ \A x \in Entries : t.listeners[x] = IF x = e THEN {} ELSE st.listeners[x]
      /\ t.destroyed = st.destroyed \ {e} /\ t.sessions = st.sessions
      /\ t.sessionCount = st.sessionCount - 1
      /\ t.given = st.given /\ SameStreams(st, t)
      /\ \A l \in Listeners : t.status[l] =
          IF l \in st.listeners[e] /\ st.status[l] = "waiting" THEN "rejected" ELSE st.status[l]
  BY DEF Ended
<1>3. Filed(t)
  <2>1. ASSUME NEW q \in Options, NEW o \in Origins, t.queue[q][o] # None
        PROVE  /\ t.origin[t.queue[q][o]] = o /\ t.options[t.queue[q][o]] = q
               /\ t.phase[t.queue[q][o]] \in Pending /\ t.queue[q][o] \notin t.destroyed
    <3>1. t.queue[q][o] = st.queue[q][o] /\ st.queue[q][o] \in Entries \ {e}
      BY <1>1, <1>2, <2>1
    <3>. QED
      BY <1>2, <2>1, <3>1 DEF Accounted, Filed
  <2>2. ASSUME NEW x \in Entries, t.phase[x] \in Pending, x \notin t.destroyed
        PROVE  t.queue[t.options[x]][t.origin[x]] = x
    <3>1. x # e /\ st.phase[x] \in Pending /\ x \notin st.destroyed
      BY <1>2, <2>2 DEF Pending
    <3>2. st.queue[st.options[x]][st.origin[x]] = x
      BY <3>1 DEF Accounted, Filed
    <3>3. st.options[x] \in Options /\ st.origin[x] \in Origins
      BY <3>1, ReadyKeyed DEF Pending
    <3>. QED
      BY <1>2, <3>1, <3>2, <3>3
  <2>3. \A x \in t.destroyed : t.phase[x] \in Pending
    BY <1>1, <1>2 DEF Accounted, Filed
  <2>. QED
    BY <2>1, <2>2, <2>3 DEF Filed
<1>4. Listening(t, None, {})
  <2>1. \A x \in Entries : t.listeners[x] = st.listeners[x] \ st.listeners[e]
    BY <1>2 DEF Accounted, Listening
  <2>2. \A x \in Entries : t.listeners[x] = {} \/ t.phase[x] = st.phase[x]
    BY <1>2
  <2>3. \A l \in Listeners : IF l \in st.listeners[e] THEN t.status[l] # "waiting"
                             ELSE t.status[l] = st.status[l]
    BY <1>2
  <2>4. \A x \in Entries : st.listeners[x] \subseteq Listeners
    BY <1>1
  <2>5. Listening(t, None, {} \ st.listeners[e])
    BY <2>1, <2>2, <2>3, <2>4, AnsweredListening DEF Accounted
  <2>6. {} \ st.listeners[e] = {}
    OBVIOUS
  <2>. QED
    BY <2>5, <2>6
<1>5. Attended(t)
  BY <1>2 DEF Attended
<1>6. \A x \in Entries : t.phase[x] = "ready" <=> st.phase[x] = "ready"
  BY <1>2
<1>7. Streaming(t)
  <2>1. \A l \in Listeners : t.status[l] \in {"streaming", "orphan"} <=>
          st.status[l] \in {"streaming", "orphan"}
    BY <1>2
  <2>2. \A x : Streams(t, x) = Streams(st, x)
    BY <1>2, <2>1 DEF Streams
  <2>3. \A l \in Listeners : st.status[l] \in {"streaming", "orphan"} => st.given[l] \in Entries
    BY DEF Good, Holding, HasSession
  <2>. QED
    BY <1>2, <1>6, <2>1, <2>2, <2>3 DEF Accounted, Streaming, SameStreams
<1>8. UnusedCounted(t)
  <2>1. Unused(t) = Unused(st)
    BY <1>2, <1>6 DEF Unused, SameStreams
  <2>. QED
    BY <1>2, <2>1 DEF Accounted, UnusedCounted, SameStreams
<1>9. Counted(t)
  <2>. DEFINE R(x) == InPhases(x, {"connecting", "connected", "ready"})
  <2>1. R(t) = R(st) \ {e} /\ e \in R(st)
    BY <1>2 DEF InPhases
  <2>2. IsFiniteSet(R(st))
    BY EntriesFinite DEF InPhases
  <2>3. Cardinality(R(st) \ {e}) = Cardinality(R(st)) - 1
    <3>. HIDE DEF R
    <3>. QED
      BY <2>1, <2>2, CountOneLess
  <2>. QED
    BY <1>2, <2>1, <2>3 DEF Accounted, Counted
<1>10. Listing(t)
  <2>1. \A q \in Options : Listed(t, q) = Listed(st, q)
    BY <1>2 DEF Listed
  <2>2. ASSUME NEW q \in Options, NEW k \in 1..Len(st.sessions[q])
        PROVE  t.options[st.sessions[q][k]] = st.options[st.sessions[q][k]]
    <3>1. HasSession(st, st.sessions[q][k])
      BY DEF Good, Pooled
    <3>. QED
      BY <1>2, <3>1 DEF HasSession
  <2>3. \A x \in Entries : t.phase[x] = "ready" <=> \E q \in Options : x \in Listed(t, q)
    BY <1>6, <2>1 DEF Accounted, Listing
  <2>4. \A q \in Options : \A j, k \in 1..Len(t.sessions[q]) :
          /\ t.options[t.sessions[q][j]] = q
          /\ t.sessions[q][j] = t.sessions[q][k] => j = k
    BY <1>2, <2>2 DEF Accounted, Listing
  <2>. QED
    BY <2>3, <2>4 DEF Listing
<1>. QED
  BY <1>2, <1>3, <1>4, <1>5, <1>7, <1>8, <1>9, <1>10 DEF Accounted

------------------------------------------------------------------------------
(* From states to actions.                                                  *)

\* A state between two handlers.
Idle(st) ==
  Good(st) /\ Accounted(st, None, {}) /\ Attended(st) /\ st.relay = None

LEMMA IdleNow == ASSUME AInv, relay = None PROVE Idle(Now)
  BY NowFields DEF AInv, IInv, Idle

LEMMA BecomeIdle == ASSUME NEW t, Idle(t), Become(t) PROVE AInv'
<1>1. Now' = t
  BY BecomeState DEF Idle, Good
<1>2. relay' = t.relay
  BY DEF Become
<1>. QED
  BY <1>1, <1>2 DEF AInv, IInv, Idle

LEMMA BecomeOneOfIdle ==
  ASSUME NEW S, \A t \in S : Idle(t), BecomeOneOf(S)
  PROVE  AInv'
  BY BecomeIdle DEF BecomeOneOf

LEMMA SameIdle ==
  ASSUME NEW st, Idle(st), NEW t, Good(t), SameAccounts(st, t), t.relay = st.relay
  PROVE  Idle(t)
<1>1. Accounted(t, None, {}) /\ (Attended(st) => Attended(t))
  BY SameAccountsAccounted DEF Idle
<1>. QED
  BY <1>1 DEF Idle

LEMMA CloseEmptySessionsIdle ==
  ASSUME NEW st, Idle(st), NEW n, NEW t \in CloseEmptySessions(st, n)
  PROVE  Idle(t)
<1>1. Good(st) /\ st \in StateType
  BY DEF Idle, Good
<1>2. Good(t) /\ SameAccounts(st, t) /\ t.relay = st.relay
  BY <1>1, CloseEmptySessionsGood, CloseEmptySessionsSame
<1>. QED
  BY <1>2, SameIdle

LEMMA AfterAcceptIdle ==
  ASSUME NEW st, Idle(st), NEW e, NEW t \in AfterAccept(st, e)
  PROVE  Idle(t)
<1>1. Good(st) /\ st \in StateType
  BY DEF Idle, Good
<1>2. Good(t) /\ SameAccounts(st, t) /\ t.relay = st.relay
  BY <1>1, AfterAcceptGood, AfterAcceptSame
<1>. QED
  BY <1>2, SameIdle

LEMMA ProcessQueueIdle ==
  ASSUME NEW st, Idle(st), NEW t \in ProcessQueue(st)
  PROVE  Idle(t)
<1>1. Good(t)
  BY ProcessQueueGood DEF Idle
<1>2. Accounted(t, None, {}) /\ Attended(t) /\ t.relay = st.relay
  BY ProcessQueueAccounted DEF Idle
<1>. QED
  BY <1>1, <1>2 DEF Idle

LEMMA ProcessListenersIdle ==
  ASSUME NEW st, Idle(st), NEW e \in Entries, st.phase[e] = "ready", NEW T \in SUBSET WaitingFor(st, e)
  PROVE  Idle(ProcessListeners(st, e, T)) /\ ProcessListeners(st, e, T).phase[e] = "ready"
<1>. DEFINE t == ProcessListeners(st, e, T)
<1>1. Good(t) /\ t.phase[e] = "ready"
  BY ProcessListenersGood DEF Idle
<1>2. Accounted(t, None, {}) /\ Attended(t) /\ ListenersServed(st, t, e, T)
  BY ProcessListenersAccounted DEF Idle
<1>. HIDE DEF t
<1>3. Idle(t)
  BY <1>1, <1>2 DEF Idle, ListenersServed
<1>. QED
  BY <1>1, <1>3 DEF t

LEMMA CloseCoveredSessionsIdle ==
  ASSUME NEW st, Idle(st), NEW e \in Entries, st.phase[e] = "ready"
  PROVE  Idle(CloseCoveredSessions(st, e))
  BY CloseCoveredSessionsGood, CloseCoveredSessionsSame, SameIdle DEF Idle

LEMMA CloseSessionIfCoveredIdle ==
  ASSUME NEW st, Idle(st), NEW e \in Entries
  PROVE  Idle(CloseSessionIfCovered(st, e))
  BY CloseSessionIfCoveredGood, CloseSessionIfCoveredSame, SameIdle DEF Idle

\* The end of the settings and origin handlers.
LEMMA ServeOthersIdle ==
  ASSUME NEW st, Idle(st), NEW e \in Entries, st.phase[e] = "ready", NEW T \in SUBSET WaitingFor(st, e)
  PROVE  LET served == ProcessListeners(st, e, T)
         IN  Idle(IF IsFree(served, e) THEN CloseCoveredSessions(served, e) ELSE served)
<1>. DEFINE served == ProcessListeners(st, e, T)
<1>1. Idle(served) /\ served.phase[e] = "ready"
  BY ProcessListenersIdle
<1>2. Idle(CloseCoveredSessions(served, e))
  <2>. HIDE DEF served
  <2>. QED
    BY <1>1, CloseCoveredSessionsIdle
<1>. QED
  BY <1>1, <1>2

\* resolve(session) for one caller that is no entry's listener.
LEMMA ServeIdle ==
  ASSUME NEW st, Idle(st), NEW e, HasSession(st, e), NEW l \in Listeners, st.status[l] = "idle"
  PROVE  Idle(Serve(st, e, {l}))
<1>. DEFINE t == Serve(st, e, {l})
<1>1. e \in Entries /\ st \in StateType /\ st.listeners \in [Entries -> SUBSET Listeners] /\ Good(st)
  BY DEF HasSession, Idle, Good, StateType
<1>2. ServeChanges(st, t, e, {l}) /\ t.listeners = st.listeners /\ Good(t)
  BY <1>1, ServeFields, ServeGood
<1>. HIDE DEF t
<1>3. Streaming(t) /\ UnusedCounted(t)
  BY <1>1, <1>2, ServeStreams DEF Idle, Accounted
<1>4. Listening(t, None, {})
  <2>1. \A x \in Entries : t.listeners[x] = st.listeners[x] \ {l}
    BY <1>2 DEF Idle, Accounted, Listening
  <2>2. \A m \in Listeners : IF m \in {l} THEN t.status[m] # "waiting" ELSE t.status[m] = st.status[m]
    <3>1. StatusOffered(st, e, l) # "waiting"
      BY DEF StatusOffered
    <3>. QED
      BY <1>2, <3>1 DEF ServeChanges
  <2>3. t.phase = st.phase
    BY <1>2 DEF ServeChanges, SameKeys
  <2>4. \A x \in Entries : st.listeners[x] \subseteq Listeners
    BY <1>1
  <2>5. Listening(t, None, {} \ {l})
    BY <2>1, <2>2, <2>3, <2>4, AnsweredListening DEF Idle, Accounted
  <2>. QED
    BY <2>5
<1>5. Filed(t) /\ Measured(t) /\ Listing(t) /\ Counted(t)
  BY <1>2, SameKeysFiled DEF ServeChanges, Idle, Accounted
<1>6. Attended(t) /\ t.relay = None
  BY <1>2 DEF ServeChanges, SameKeys, Idle, Attended
<1>. QED
  BY <1>2, <1>3, <1>4, <1>5, <1>6 DEF Idle, Accounted, t

------------------------------------------------------------------------------
(* The actions.                                                             *)

LEMMA GetSessionAInv ==
  ASSUME AInv, NEW l \in Listeners, NEW o \in Origins, NEW p \in Options, GetSession(l, o, p)
  PROVE  AInv'
<1>1. relay = None /\ status[l] = "idle" /\ Idle(Now)
  BY IdleNow DEF GetSession
<1>2. CASE AvailableAt(Now, o, p) # {}
  <2>1. PICK i \in AvailableAt(Now, o, p) : Become(Serve(Now, sessions[p][i], {l}))
    BY <1>2 DEF GetSession
  <2>2. HasSession(Now, sessions[p][i])
    BY ListedHasSession, NowFields DEF AvailableAt, AInv
  <2>. QED
    BY <1>1, <2>1, <2>2, ServeIdle, BecomeIdle, NowFields
<1>3. CASE AvailableAt(Now, o, p) = {}
  <2>1. BecomeOneOf(Enqueue(Now, o, p, {l}))
    BY <1>3 DEF GetSession
  <2>2. Accounted(Now, None, {l})
    BY <1>1, NowFields DEF Idle, Accounted, Listening
  <2>3. \A t \in Enqueue(Now, o, p, {l}) :
          Good(t) /\ Accounted(t, None, {}) /\ Attended(t) /\ t.relay = None
    <3>1. Good(Now) /\ Attended(Now) /\ Now.relay = None /\ Now.status[l] = "idle"
      BY <1>1, NowFields DEF Idle
    <3>. QED
      BY <2>2, <3>1, EnqueueGood, EnqueueAccounted
  <2>. QED
    BY <2>1, <2>3, BecomeOneOfIdle DEF Idle
<1>. QED
  BY <1>2, <1>3

LEMMA CloseEmptyAInv == ASSUME AInv, CloseEmpty PROVE AInv'
<1>1. Idle(Now)
  BY IdleNow DEF CloseEmpty
<1>. QED
  BY <1>1, CloseEmptySessionsIdle, BecomeOneOfIdle DEF CloseEmpty

LEMMA SessionCloseAInv == ASSUME AInv, NEW e \in Entries, SessionClose(e) PROVE AInv'
<1>1. Idle(Now) /\ Become(Close(Now, {e}))
  BY IdleNow DEF SessionClose
<1>2. Idle(Close(Now, {e}))
  BY <1>1, CloseGood, CloseSame, SameIdle DEF Idle, Good
<1>. QED
  BY <1>1, <1>2, BecomeIdle

LEMMA SessionLostAInv == ASSUME AInv, NEW e \in Entries, SessionLost(e) PROVE AInv'
<1>1. Idle(Now) /\ Become(Destroy(Now, {e}))
  BY IdleNow DEF SessionLost
<1>2. Idle(Destroy(Now, {e}))
  BY <1>1, DestroyGood, DestroySame, SameIdle DEF Idle, Good
<1>. QED
  BY <1>1, <1>2, BecomeIdle

LEMMA SessionDrainedAInv == ASSUME AInv, NEW e \in Entries, SessionDrained(e) PROVE AInv'
<1>1. Idle(Now) /\ Become(Destroy(Now, {e}))
  BY IdleNow DEF SessionDrained
<1>2. Idle(Destroy(Now, {e}))
  BY <1>1, DestroyGood, DestroySame, SameIdle DEF Idle, Good
<1>. QED
  BY <1>1, <1>2, BecomeIdle

\* All that stays the same when only what became of the callers changes.
SameButStatus(st, t) ==
  /\ SameFiles(st, t) /\ SameKeys(st, t) /\ SamePool(st, t) /\ SameStreams(st, t)
  /\ SameCapacity(st, t) /\ t.listeners = st.listeners /\ t.given = st.given
  /\ t.relay = st.relay /\ t.life = st.life /\ t.gracefullyClosing = st.gracefullyClosing

\* No stream opens or ends, and nobody starts to wait.
LEMMA StatusIdle ==
  ASSUME NEW st, Idle(st), NEW t, Good(t), SameButStatus(st, t),
         \A l \in Listeners :
           /\ t.status[l] \in {"streaming", "orphan"} <=> st.status[l] \in {"streaming", "orphan"}
           /\ t.status[l] = "waiting" => st.status[l] = "waiting"
           /\ st.status[l] \in {"waiting", "rejected"} => t.status[l] \in {"waiting", "rejected"}
  PROVE  Idle(t)
<1>1. Filed(t) /\ Measured(t) /\ Listing(t) /\ Counted(t)
  BY SameKeysFiled DEF SameButStatus, Idle, Accounted
<1>2. Attended(t) /\ t.relay = None
  BY DEF SameButStatus, SameKeys, Idle, Attended
<1>3. Listening(t, None, {})
  <2>1. \A x \in Entries : st.listeners[x] \subseteq Listeners
    BY DEF Idle, Good, StateType
  <2>. QED
    BY <2>1 DEF SameButStatus, SameKeys, Idle, Accounted, Listening
<1>4. Streaming(t)
  <2>1. \A x : Streams(t, x) = Streams(st, x)
    BY DEF SameButStatus, Streams
  <2>. QED
    BY <2>1 DEF SameButStatus, SameKeys, SameStreams, Idle, Accounted, Streaming
<1>5. UnusedCounted(t)
  <2>1. Unused(t) = Unused(st)
    BY DEF SameButStatus, SameKeys, SameStreams, Unused
  <2>. QED
    BY <2>1 DEF SameButStatus, SameStreams, Idle, Accounted, UnusedCounted
<1>. QED
  BY <1>1, <1>2, <1>3, <1>4, <1>5 DEF Idle, Accounted

LEMMA RejectFields ==
  ASSUME NEW st \in StateType, NEW T
  PROVE  /\ SameButStatus(st, Reject(st, T))
         /\ Reject(st, T).status = [l \in Listeners |->
              IF l \in T /\ st.status[l] = "waiting" THEN "rejected" ELSE st.status[l]]
  BY DEF StateType, Reject, SameButStatus, SameFiles, SameKeys, SamePool, SameStreams, SameCapacity

LEMMA RestatusFields ==
  ASSUME NEW st \in StateType, NEW l \in Listeners, NEW s
  PROVE  LET t == [st EXCEPT !.status[l] = s]
         IN  SameButStatus(st, t) /\ t.status = [st.status EXCEPT ![l] = s]
  BY DEF StateType, SameButStatus, SameFiles, SameKeys, SamePool, SameStreams, SameCapacity

LEMMA FirstSettingsRefusedAInv ==
  ASSUME AInv, NEW e \in Entries, FirstSettingsRefused(e)
  PROVE  AInv'
<1>. DEFINE u == Reject(Now, listeners[e])
<1>1. Idle(Now) /\ Become(Destroy(u, {e}))
  BY IdleNow DEF FirstSettingsRefused
<1>2. Now \in StateType /\ Good(u)
  BY <1>1, RejectGood DEF Idle, Good
<1>3. SameButStatus(Now, u) /\ u.status = [l \in Listeners |->
              IF l \in listeners[e] /\ Now.status[l] = "waiting" THEN "rejected" ELSE Now.status[l]]
  BY <1>2, RejectFields
<1>. HIDE DEF u
<1>4. Idle(u)
  BY <1>1, <1>2, <1>3, StatusIdle
<1>5. Idle(Destroy(u, {e}))
  BY <1>4, DestroyGood, DestroySame, SameIdle DEF Idle, Good
<1>. QED
  BY <1>1, <1>5, BecomeIdle

LEMMA RejectServernameAInv ==
  ASSUME AInv, NEW l \in Listeners, RejectServername(l)
  PROVE  AInv'
<1>. DEFINE t == [Now EXCEPT !.status[l] = "rejected"]
<1>1. Idle(Now) /\ Become(t) /\ Now.status[l] = "idle"
  BY IdleNow, NowFields DEF RejectServername
<1>2. Now \in StateType /\ Good(t)
  BY <1>1, StatusGood DEF Idle, Good, Statuses
<1>3. SameButStatus(Now, t) /\ t.status = [Now.status EXCEPT ![l] = "rejected"]
  BY <1>2, RestatusFields
<1>4. Now.status \in [Listeners -> Statuses]
  BY <1>2 DEF StateType
<1>. HIDE DEF t
<1>5. Idle(t)
  BY <1>1, <1>2, <1>3, <1>4, StatusIdle
<1>. QED
  BY <1>1, <1>5, BecomeIdle

LEMMA UserRequestAInv ==
  ASSUME AInv, NEW l \in Listeners, UserRequest(l)
  PROVE  AInv'
<1>. DEFINE e == given[l]
<1>1. Idle(Now) /\ Good(Now) /\ Now.status[l] = "holding" /\ Now.given[l] = e
  BY IdleNow, NowFields DEF UserRequest, Idle
<1>2. HasSession(Now, e) /\ e \in Entries
  BY <1>1 DEF Good, Holding, HasSession
<1>3. Now \in StateType /\ Now.status \in [Listeners -> Statuses]
      /\ Now.currentStreamCount \in [Entries -> Int]
  BY <1>1 DEF Good, StateType
<1>4. CASE ~Accepting(Now, e)
  <2>. DEFINE t == [Now EXCEPT !.status[l] = "refused"]
  <2>1. Become(t) /\ Good(t)
    BY <1>1, <1>4, StatusGood DEF UserRequest, Statuses
  <2>2. SameButStatus(Now, t) /\ t.status = [Now.status EXCEPT ![l] = "refused"]
    BY <1>3, RestatusFields
  <2>. HIDE DEF t
  <2>3. Idle(t)
    BY <1>1, <1>3, <2>1, <2>2, StatusIdle
  <2>. QED
    BY <2>1, <2>3, BecomeIdle
<1>5. CASE Accepting(Now, e)
  <2>. DEFINE u == OpenStreams(Now, e, 1)
              t == [u EXCEPT !.status[l] = "streaming"]
  <2>1. Now.phase[e] = "ready"
    BY <1>2, <1>5 DEF Accepting, HasSession
  <2>2. /\ u \in StateType
        /\ SameFiles(Now, u) /\ SameKeys(Now, u) /\ SamePool(Now, u) /\ SameCapacity(Now, u)
        /\ u.relay = Now.relay /\ u.listeners = Now.listeners /\ u.status = Now.status
        /\ u.given = Now.given
        /\ u.currentStreamCount = [Now.currentStreamCount EXCEPT ![e] = @ + 1]
    BY <1>2, <1>3, OpenStreamsFields
  <2>3. Now.currentStreamCount[e] \in Nat
    <3>1. Now.currentStreamCount[e] = Cardinality(Streams(Now, e))
      BY <1>1, <1>2 DEF Idle, Accounted, Streaming
    <3>2. Streams(Now, e) \subseteq Listeners
      BY DEF Streams
    <3>. QED
      BY <3>1, <3>2, ListenersFinite
  <2>4. u.emptySessionCount = Cardinality({x \in Entries : Now.phase[x] = "ready" /\
                         [Now.currentStreamCount EXCEPT ![e] = @ + 1][x] = 0})
    BY <1>1, <1>2, <1>3, <2>1, <2>3, OpenStreamsUnused DEF Idle, Accounted
  <2>5. Good(t) /\ Become(t)
    <3>1. Good(u)
      BY <1>1, <1>2, <1>5, OpenStreamsGood
    <3>2. u.given[l] # None
      BY <1>1, <1>2, <2>2, NoneAssumption
    <3>3. Good(t)
      <4>. HIDE DEF u
      <4>. QED
        BY <3>1, <3>2, StatusGood DEF Statuses
    <3>. QED
      BY <1>5, <3>3 DEF UserRequest
  <2>6. SameButStatus(u, t) /\ t.status = [Now.status EXCEPT ![l] = "streaming"]
    <3>. HIDE DEF u
    <3>. QED
      BY <2>2, RestatusFields
  <2>. HIDE DEF u, t
  <2>7. /\ SameFiles(Now, t) /\ SameKeys(Now, t) /\ SamePool(Now, t) /\ t.relay = Now.relay
        /\ t.listeners = Now.listeners /\ t.given = Now.given
        /\ t.currentStreamCount = u.currentStreamCount /\ t.emptySessionCount = u.emptySessionCount
    BY <2>2, <2>6 DEF SameButStatus, SameFiles, SameKeys, SamePool, SameStreams
  <2>8. \A m \in Listeners : t.status[m] = IF m = l THEN "streaming" ELSE Now.status[m]
    BY <1>3, <2>6
  <2>9. Filed(t) /\ Measured(t) /\ Listing(t) /\ Counted(t)
    BY <1>1, <2>7, SameKeysFiled DEF Idle, Accounted
  <2>10. Attended(t) /\ t.relay = None
    BY <1>1, <2>7 DEF SameKeys, Idle, Attended
  <2>11. Listening(t, None, {})
    <3>1. Listening(Now, None, {}) /\ t.phase = Now.phase
      BY <1>1, <2>7 DEF Idle, Accounted, SameKeys
    <3>2. \A x \in Entries : \A m \in Now.listeners[x] : m \in Listeners /\ m # l
      BY <1>1, <1>3, <3>1 DEF Listening, StateType
    <3>. QED
      BY <2>7, <2>8, <3>1, <3>2 DEF Listening
  <2>12. UnusedCounted(t)
    <3>1. Unused(t) = {x \in Entries : Now.phase[x] = "ready" /\
                         [Now.currentStreamCount EXCEPT ![e] = @ + 1][x] = 0}
      BY <2>2, <2>7 DEF SameKeys, Unused
    <3>. QED
      BY <2>4, <2>7, <3>1 DEF UnusedCounted
  <2>13. Streaming(t)
    <3>1. \A x : Streams(t, x) = IF x = e THEN Streams(Now, x) \cup {l} ELSE Streams(Now, x)
      BY <1>1, <2>7, <2>8 DEF Streams
    <3>2. ASSUME NEW x \in Entries PROVE t.currentStreamCount[x] = Cardinality(Streams(t, x))
      <4>1. Now.currentStreamCount[x] = Cardinality(Streams(Now, x)) /\ IsFiniteSet(Streams(Now, x))
        BY <1>1, ListenersFinite DEF Idle, Accounted, Streaming, Streams
      <4>2. l \notin Streams(Now, x)
        BY <1>1 DEF Streams
      <4>3. Cardinality(Streams(Now, x) \cup {l}) = Cardinality(Streams(Now, x)) + 1
        BY <4>1, <4>2, CountOneMore
      <4>4. t.currentStreamCount[x] =
              IF x = e THEN Now.currentStreamCount[x] + 1 ELSE Now.currentStreamCount[x]
        BY <1>3, <2>2, <2>7
      <4>5. CASE x = e
        BY <3>1, <4>1, <4>3, <4>4, <4>5
      <4>6. CASE x # e
        BY <3>1, <4>1, <4>4, <4>6
      <4>. QED
        BY <4>5, <4>6
    <3>3. \A m \in Listeners : t.status[m] \in {"streaming", "orphan"} => t.phase[t.given[m]] = "ready"
      BY <1>1, <2>1, <2>7, <2>8 DEF SameKeys, Idle, Accounted, Streaming
    <3>. QED
      BY <3>2, <3>3 DEF Streaming
  <2>14. Idle(t)
    BY <2>5, <2>9, <2>10, <2>11, <2>12, <2>13 DEF Idle, Accounted
  <2>. QED
    BY <2>5, <2>14, BecomeIdle
<1>. QED
  BY <1>4, <1>5

LEMMA ConnectedAInv == ASSUME AInv, NEW e \in Entries, Connected(e) PROVE AInv'
<1>. DEFINE ph == [phase EXCEPT ![e] = "connected"]
            t == [Now EXCEPT !.phase = ph]
<1>1. Idle(Now) /\ Good(Now) /\ phase[e] = "connecting" /\ phase \in [Entries -> Phases]
  BY IdleNow, NowFields DEF Connected, Idle, Good, StateType
<1>2. [Now EXCEPT !.phase[e] = "connected"] = t
  BY DEF Now
<1>3. Become(t) /\ Now' = t
  <2>1. Become(t)
    BY <1>2 DEF Connected
  <2>2. t \in StateType
    <3>1. ph \in [Entries -> Phases]
      BY <1>1 DEF Phases
    <3>. HIDE DEF ph
    <3>. QED
      BY <1>1, <3>1 DEF Good, StateType
  <2>. QED
    BY <2>1, <2>2, BecomeState
<1>4. Good(t)
  BY <1>3, ConnectedIInv DEF AInv, IInv
<1>5. /\ SameFiles(Now, t) /\ SamePool(Now, t) /\ SameStreams(Now, t) /\ SameCallers(Now, t)
      /\ t.listeners = Now.listeners /\ t.origin = Now.origin /\ t.options = Now.options
      /\ t.destroyed = Now.destroyed /\ t.relay = Now.relay /\ t.phase = ph
  <2>. HIDE DEF ph
  <2>. QED
    BY DEF Now, SameFiles, SamePool, SameStreams, SameCallers
<1>6. \A x \in Entries : /\ t.phase[x] \in Pending <=> Now.phase[x] \in Pending
                         /\ t.phase[x] = "ready" <=> Now.phase[x] = "ready"
                         /\ t.phase[x] = "queued" <=> Now.phase[x] = "queued"
  BY <1>1, <1>5, NowFields DEF Pending
<1>. HIDE DEF t
<1>7. Filed(t) /\ Measured(t)
  <2>1. Now.destroyed \subseteq Entries
        /\ Now.queue \in [Options -> [Origins -> Entries \cup {None}]]
    BY <1>1 DEF Good, StateType
  <2>2. Measured(t)
    BY <1>1, <1>5 DEF SameFiles, Idle, Accounted, Measured, InQueue
  <2>3. Filed(Now)
    BY <1>1 DEF Idle, Accounted
  <2>4. t.queue = Now.queue /\ t.origin = Now.origin /\ t.options = Now.options /\ t.destroyed = Now.destroyed
    BY <1>5 DEF SameFiles
  <2>5. ASSUME NEW q \in Options, NEW o \in Origins PROVE Now.queue[q][o] \in Entries \cup {None}
    BY <2>1
  <2>. QED
    BY <1>6, <2>1, <2>2, <2>3, <2>4, <2>5, SMTT(30) DEF Filed
<1>8. Listening(t, None, {}) /\ Attended(t) /\ t.relay = None
  BY <1>1, <1>5, <1>6 DEF SameCallers, Idle, Accounted, Listening, Attended
<1>9. Listing(t)
  BY <1>1, <1>5, <1>6 DEF SamePool, Idle, Accounted, Listing, Listed
<1>10. Streaming(t)
  <2>1. \A x : Streams(t, x) = Streams(Now, x)
    BY <1>5 DEF SameCallers, Streams
  <2>2. \A l \in Listeners : Now.status[l] \in {"streaming", "orphan"} => Now.given[l] \in Entries
    BY <1>1 DEF Good, Holding, HasSession
  <2>. QED
    BY <1>1, <1>5, <1>6, <2>1, <2>2 DEF SameCallers, SameStreams, Idle, Accounted, Streaming
<1>11. UnusedCounted(t) /\ Counted(t)
  <2>1. Unused(t) = Unused(Now)
    BY <1>5, <1>6 DEF Unused, SameStreams
  <2>2. InPhases(t, {"connecting", "connected", "ready"}) =
          InPhases(Now, {"connecting", "connected", "ready"})
    BY <1>1, <1>5, NowFields DEF InPhases
  <2>. QED
    BY <1>1, <1>5, <2>1, <2>2
       DEF SamePool, SameStreams, Idle, Accounted, UnusedCounted, Counted
<1>12. Idle(t)
  BY <1>4, <1>7, <1>8, <1>9, <1>10, <1>11 DEF Idle, Accounted
<1>. QED
  BY <1>3, <1>12, BecomeIdle

\* Entries the agent forgets while they run are destroyed ones.
LEMMA AgentDestroyAInv == ASSUME AInv, AgentDestroy PROVE AInv'
<1>. DEFINE u == Destroy(Now, UNION {Listed(Now, p) : p \in Options})
            F == UNION {InQueue(Now, p) : p \in Options}
            D == u.destroyed \cup F
            Q == [p \in Options |-> [o \in Origins |-> None]]
            K == [p \in Options |-> 0]
            t == [u EXCEPT !.destroyed = D, !.queue = Q, !.kLength = K]
<1>1. Idle(Now) /\ Become(t)
  BY IdleNow DEF AgentDestroy
<1>2. Idle(u) /\ SameFiles(Now, u)
  <2>1. Idle(u)
    BY <1>1, DestroyGood, DestroySame, SameIdle DEF Idle, Good
  <2>2. SameFiles(Now, u)
    BY <1>1, DestroySame DEF Idle, Good, SameAccounts
  <2>. QED
    BY <2>1, <2>2
<1>3. F \subseteq Entries /\ Now \in StateType /\ u \in StateType
  <2>1. Now \in StateType /\ u \in StateType
    <3>. HIDE DEF u
    <3>. QED
      BY <1>1, <1>2 DEF Idle, Good
  <2>. QED
    BY <2>1, InQueueEntries
<1>4. \A x \in F : \E p \in Options, o \in Origins : u.queue[p][o] = x /\ x # None
  BY <1>2 DEF SameFiles, InQueue
<1>5. \A p \in Options, o \in Origins : u.queue[p][o] # None => u.queue[p][o] \in F
  <2>1. u.queue = Now.queue
    BY <1>2 DEF SameFiles
  <2>2. ASSUME NEW p \in Options, NEW o \in Origins, Now.queue[p][o] # None
        PROVE  Now.queue[p][o] \in InQueue(Now, p)
    BY <2>2 DEF InQueue
  <2>. HIDE DEF u
  <2>. QED
    BY <2>1, <2>2
<1>. HIDE DEF u, F
<1>6. /\ t \in StateType
      /\ SameEntries(u, t) /\ SameCallers(u, t) /\ SameSessions(u, t)
      /\ SamePool(u, t) /\ SameStreams(u, t) /\ t.listeners = u.listeners
      /\ t.queue = Q /\ t.kLength = K /\ t.destroyed = D
  <2>1. /\ Q \in [Options -> [Origins -> Entries \cup {None}]] /\ K \in [Options -> Int]
        /\ D \subseteq Entries
    BY <1>3 DEF StateType
  <2>. HIDE DEF Q, K, D
  <2>. QED
    BY <1>3, <2>1 DEF StateType, SameEntries, SameCallers, SameSessions, SamePool, SameStreams
<1>7. Good(t)
  <2>. HIDE DEF t
  <2>. QED
    BY <1>2, <1>6, SameSessionsGood DEF Idle
<1>. HIDE DEF t
<1>8. t.phase = u.phase /\ t.origin = u.origin /\ t.options = u.options /\ t.relay = u.relay
      /\ u.destroyed \subseteq Entries
  BY <1>3, <1>6 DEF SameEntries, StateType
<1>9. Filed(t)
  <2>1. \A p \in Options, o \in Origins : t.queue[p][o] = None
    BY <1>6
  <2>2. ASSUME NEW e \in Entries, t.phase[e] \in Pending PROVE e \in t.destroyed
    <3>1. CASE e \in u.destroyed
      BY <1>6, <3>1
    <3>2. CASE e \notin u.destroyed
      <4>1. u.queue[u.options[e]][u.origin[e]] = e
        BY <1>2, <1>8, <2>2, <3>2 DEF Idle, Accounted, Filed
      <4>2. u.options[e] \in Options /\ u.origin[e] \in Origins
        BY <1>2, <1>8, <2>2, ReadyKeyed DEF Idle, Pending
      <4>3. e \in F
        BY <1>5, <4>1, <4>2, NoneAssumption
      <4>. QED
        BY <1>6, <4>3
    <3>. QED
      BY <3>1, <3>2
  <2>3. ASSUME NEW e \in t.destroyed PROVE t.phase[e] \in Pending
    <3>1. e \in u.destroyed => u.phase[e] \in Pending
      BY <1>2 DEF Idle, Accounted, Filed
    <3>2. e \in F => u.phase[e] \in Pending
      BY <1>2, <1>4 DEF Idle, Accounted, Filed
    <3>. QED
      BY <1>6, <1>8, <2>3, <3>1, <3>2
  <2>. QED
    BY <2>1, <2>2, <2>3 DEF Filed
<1>10. Measured(t)
  <2>1. \A p \in Options : InQueue(t, p) = {}
    BY <1>6 DEF InQueue
  <2>. QED
    BY <1>6, <2>1, FS_EmptySet DEF Measured
<1>11. Listening(t, None, {}) /\ Attended(t) /\ t.relay = None
  BY <1>2, <1>6, <1>8 DEF SameCallers, Idle, Accounted, Listening, Attended
<1>12. Listing(t)
  BY <1>2, <1>6, <1>8 DEF SamePool, Idle, Accounted, Listing, Listed
<1>13. Streaming(t)
  <2>1. \A x : Streams(t, x) = Streams(u, x)
    BY <1>6 DEF SameCallers, Streams
  <2>. QED
    BY <1>2, <1>6, <1>8, <2>1 DEF SameCallers, SameStreams, Idle, Accounted, Streaming
<1>14. UnusedCounted(t) /\ Counted(t)
  <2>1. Unused(t) = Unused(u)
    BY <1>6, <1>8 DEF Unused, SameStreams
  <2>2. \A P : InPhases(t, P) = InPhases(u, P)
    BY <1>8 DEF InPhases
  <2>. QED
    BY <1>2, <1>6, <2>1, <2>2
       DEF SamePool, SameStreams, Idle, Accounted, UnusedCounted, Counted
<1>15. Idle(t)
  BY <1>7, <1>9, <1>10, <1>11, <1>12, <1>13, <1>14 DEF Idle, Accounted
<1>. QED
  BY <1>1, <1>15, BecomeIdle DEF t

LEMMA CountFields ==
  ASSUME NEW st \in StateType, NEW n
  PROVE  LET t == [st EXCEPT !.sessionCount = n]
         IN  /\ SameFiles(st, t) /\ SameKeys(st, t) /\ SameStreams(st, t) /\ SameCallers(st, t)
             /\ SameCapacity(st, t) /\ t.sessions = st.sessions /\ t.sessionCount = n
             /\ t.listeners = st.listeners /\ t.relay = st.relay /\ t.life = st.life
             /\ t.gracefullyClosing = st.gracefullyClosing
  BY DEF StateType, SameFiles, SameKeys, SameStreams, SameCallers, SameCapacity

\* RemoveFromQueue and Reject of an entry whose end is next.
LEMMA EndingFields ==
  ASSUME NEW st \in StateType, Measured(st), Filed(st), NEW e \in Entries, st.options[e] \in Options,
         NEW L
  PROVE  LET t == Reject(RemoveFromQueue(st, e), L)
         IN  /\ SameKeys(st, t) /\ SamePool(st, t) /\ SameStreams(st, t) /\ SameCapacity(st, t)
             /\ t.listeners = st.listeners /\ t.given = st.given /\ t.relay = st.relay
             /\ t.life = st.life /\ t.gracefullyClosing = st.gracefullyClosing
             /\ t.status = [l \in Listeners |->
                  IF l \in L /\ st.status[l] = "waiting" THEN "rejected" ELSE st.status[l]]
             /\ Measured(t)
             /\ \A q \in Options, o \in Origins :
                  t.queue[q][o] = IF st.queue[q][o] = e THEN None ELSE st.queue[q][o]
<1>. DEFINE u == RemoveFromQueue(st, e)
            t == Reject(u, L)
<1>1. /\ SameButQueue(st, u) /\ Measured(u)
      /\ \A q \in Options, o \in Origins :
           u.queue[q][o] = IF st.queue[q][o] = e THEN None ELSE st.queue[q][o]
  BY RemoveFromQueueEntries
<1>2. \A f : [u EXCEPT !.status = f].status = f
  BY DEF RemoveFromQueue, Unqueue, StateType
<1>3. t = [u EXCEPT !.status = [l \in Listeners |->
             IF l \in L /\ u.status[l] = "waiting" THEN "rejected" ELSE u.status[l]]]
  BY DEF Reject
<1>. HIDE DEF u
<1>4. SameButStatus(u, t)
  BY <1>3 DEF SameButStatus, SameFiles, SameKeys, SamePool, SameStreams, SameCapacity
<1>5. t.status = [l \in Listeners |->
             IF l \in L /\ u.status[l] = "waiting" THEN "rejected" ELSE u.status[l]]
  BY <1>2, <1>3
<1>. HIDE DEF t
<1>6. Measured(t)
  BY <1>1, <1>4 DEF SameButStatus, SameFiles, Measured, InQueue
<1>. QED
  BY <1>1, <1>4, <1>5, <1>6
     DEF SameButQueue, SameButStatus, SameFiles, SameKeys, SamePool, SameStreams, SameCallers,
         SameCapacity, t, u

\* Each lemma ...Steps names the states an action goes through.
LEMMA ConnectFailedSteps ==
  ASSUME AInv, NEW e \in Entries, ConnectFailed(e)
  PROVE  \E v : Ended(Now, v, e) /\ Idle(v) /\ Become(v)
<1>. DEFINE u == RemoveFromQueue(Now, e)
            v == Reject(u, listeners[e])
            w == [v EXCEPT !.sessionCount = v.sessionCount - 1]
            t == Forget(w, {e}, "closed")
<1>1. /\ phase[e] = "connecting" /\ relay = None /\ Idle(Now) /\ Good(Now) /\ Now \in StateType
      /\ Become(t)
  BY IdleNow DEF ConnectFailed, Idle, Good
<1>2. options[e] \in Options
  BY <1>1, ReadyKeyed, NowFields
<1>3. Good(u) /\ SameEntries(Now, u)
  BY <1>1, <1>2, RemoveFromQueueGood, NowFields
<1>4. Good(v) /\ SameEntries(u, v)
  <2>. HIDE DEF u
  <2>. QED
    BY <1>3, RejectGood
<1>5. /\ SameKeys(Now, v) /\ SamePool(Now, v) /\ SameStreams(Now, v) /\ SameCapacity(Now, v)
      /\ v.listeners = Now.listeners /\ v.given = Now.given /\ v.relay = Now.relay
      /\ v.life = Now.life /\ v.gracefullyClosing = Now.gracefullyClosing
      /\ v.status = [l \in Listeners |->
           IF l \in listeners[e] /\ Now.status[l] = "waiting" THEN "rejected" ELSE Now.status[l]]
      /\ Measured(v)
      /\ \A q \in Options, o \in Origins :
           v.queue[q][o] = IF Now.queue[q][o] = e THEN None ELSE Now.queue[q][o]
  BY <1>1, <1>2, EndingFields, NowFields DEF Idle, Accounted
<1>. HIDE DEF u, v
<1>6. Good(w) /\ SameEntries(v, w)
  <2>1. v.sessionCount - 1 \in Int
    BY <1>4 DEF Good, StateType
  <2>. QED
    BY <1>4, <2>1, SessionCountGood
<1>7. /\ SameFiles(v, w) /\ SameKeys(v, w) /\ SameStreams(v, w) /\ SameCallers(v, w)
      /\ SameCapacity(v, w) /\ w.sessions = v.sessions /\ w.sessionCount = v.sessionCount - 1
      /\ w.listeners = v.listeners /\ w.relay = v.relay /\ w.life = v.life
      /\ w.gracefullyClosing = v.gracefullyClosing
  BY <1>4, CountFields DEF Good
<1>. HIDE DEF w
<1>8. w.phase[e] = "connecting" /\ w.relay = None
  BY <1>1, <1>5, <1>7, NowFields DEF SameKeys
<1>9. Good(t)
  BY <1>6, <1>8, ForgetGood, NoneAssumption DEF HasSession
<1>10. Forgotten(w, t, {e}, "closed")
  BY <1>6, ForgetFields DEF Good
<1>. HIDE DEF t
<1>11. Ended(Now, t, e)
  <2>1. t.queue = v.queue /\ t.kLength = v.kLength
    BY <1>7, <1>10 DEF Forgotten, SameFiles
  <2>2. Measured(t)
    BY <1>5, <2>1 DEF Measured, InQueue
  <2>. QED
    BY <1>5, <1>7, <1>10, <2>1, <2>2, NowFields
       DEF Ended, Forgotten, SameKeys, SamePool, SameStreams, SameCallers, SameCapacity
<1>12. Accounted(t, None, {}) /\ Attended(t)
  BY <1>1, <1>11, EndedAccounted, NowFields DEF Idle
<1>13. Idle(t)
  BY <1>1, <1>9, <1>11, <1>12 DEF Idle, Ended
<1>. QED
  BY <1>1, <1>11, <1>13

LEMMA ConnectFailedAInv == ASSUME AInv, NEW e \in Entries, ConnectFailed(e) PROVE AInv'
  BY ConnectFailedSteps, BecomeIdle

LEMMA SessionClosedSteps ==
  ASSUME AInv, NEW e \in Entries, SessionClosed(e)
  PROVE  \/ /\ phase[e] = "ready"
            /\ \E i \in 1..Len(sessions[options[e]]) : \E u, v :
                 /\ sessions[options[e]][i] = e
                 /\ LeftPool(Now, u, e, i) /\ Forgotten(u, v, {e}, "closed")
                 /\ Idle(v) /\ BecomeOneOf(ProcessQueue(v))
         \/ /\ phase[e] = "connected"
            /\ \E v : Ended(Now, v, e) /\ Idle(v) /\ BecomeOneOf(ProcessQueue(v))
<1>. DEFINE p == options[e]
            n == sessionCount - 1
            st == [Now EXCEPT !.sessionCount = n]
<1>1. /\ phase[e] \in {"connected", "ready"} /\ life[e] = "destroyed" /\ currentStreamCount[e] = 0
      /\ relay = None /\ e # None /\ Idle(Now) /\ Good(Now) /\ Now \in StateType
  BY NoneAssumption, IdleNow DEF SessionClosed, Idle, Good
<1>2. p \in Options
  BY <1>1, ReadyKeyed, NowFields
<1>3. [Now EXCEPT !.sessionCount = @ - 1] = st
  BY DEF Now
<1>4. n \in Int
  BY <1>1 DEF Good, StateType, Now
<1>5. Good(st) /\ SameEntries(Now, st) /\ st \in StateType
  <2>. HIDE DEF n
  <2>. QED
    BY <1>1, <1>4, SessionCountGood DEF Good
<1>6. /\ SameFiles(Now, st) /\ SameKeys(Now, st) /\ SameStreams(Now, st) /\ SameCallers(Now, st)
      /\ SameCapacity(Now, st) /\ st.sessions = Now.sessions /\ st.sessionCount = n
      /\ st.listeners = Now.listeners /\ st.relay = Now.relay /\ st.life = Now.life
      /\ st.gracefullyClosing = Now.gracefullyClosing
  <2>. HIDE DEF n
  <2>. QED
    BY <1>1, CountFields
<1>. HIDE DEF st
<1>7. CASE phase[e] = "ready"
  <2>. DEFINE left(i) == [st EXCEPT !.emptySessionCount = @ - 1, !.sessions[p] = RemoveAt(@, i)]
              t(i) == Forget(left(i), {e}, "closed")
  <2>1. PICK i \in 1..Len(sessions[p]) : sessions[p][i] = e /\ BecomeOneOf(ProcessQueue(t(i)))
    BY <1>3, <1>7 DEF SessionClosed
  <2>2. st.relay = None /\ i \in 1..Len(st.sessions[p])
    BY <1>1, <1>6, NowFields
  <2>3. Good(left(i)) /\ left(i).relay = st.relay /\ left(i).life = st.life
    <3>. HIDE DEF p
    <3>. QED
      BY <1>2, <1>5, <2>2, LeavePoolGood
  <2>4. LeftPool(Now, left(i), e, i)
    <3>. DEFINE lists == [st.sessions EXCEPT ![p] = RemoveAt(@, i)]
                empty == st.emptySessionCount - 1
                u == left(i)
    <3>1. u = [[st EXCEPT !.emptySessionCount = empty] EXCEPT !.sessions = lists]
      BY <1>5 DEF StateType
    <3>. HIDE DEF lists, empty, u
    <3>2. /\ SameFiles(st, u) /\ SameKeys(st, u) /\ SameCallers(st, u) /\ SameCapacity(st, u)
          /\ u.listeners = st.listeners /\ u.relay = st.relay /\ u.life = st.life
          /\ u.gracefullyClosing = st.gracefullyClosing
          /\ u.currentStreamCount = st.currentStreamCount /\ u.emptySessionCount = empty
          /\ u.sessionCount = st.sessionCount /\ u.sessions = lists
      BY <1>5, <3>1 DEF StateType, SameFiles, SameKeys, SameCallers, SameCapacity
    <3>3. empty = Now.emptySessionCount - 1 /\ lists = [Now.sessions EXCEPT ![p] = RemoveAt(@, i)]
      BY <1>6 DEF SameStreams, empty, lists
    <3>4. n = Now.sessionCount - 1 /\ p = Now.options[e]
      BY DEF Now
    <3>. HIDE DEF n, p
    <3>5. LeftPool(Now, u, e, i)
      BY <1>6, <3>2, <3>3, <3>4
         DEF LeftPool, SameFiles, SameKeys, SameCallers, SameCapacity, SameStreams
    <3>. QED
      BY <3>5 DEF u
  <2>. HIDE DEF left
  <2>5. Good(t(i)) /\ Forgotten(left(i), t(i), {e}, "closed")
    <3>1. left(i) \in StateType /\ left(i).life[e] = "destroyed" /\ left(i).relay = None
      BY <1>1, <1>6, <2>2, <2>3, NowFields DEF Good
    <3>. QED
      BY <1>1, <2>3, <3>1, ForgetGood, ForgetFields
  <2>. HIDE DEF t
  <2>6. Idle(t(i))
    <3>1. Accounted(t(i), None, {}) /\ Attended(t(i))
      <4>1. /\ Now.phase[e] = "ready" /\ Now.currentStreamCount[e] = 0
            /\ i \in 1..Len(Now.sessions[Now.options[e]]) /\ Now.sessions[Now.options[e]][i] = e
        BY <1>1, <1>7, <2>1, NowFields
      <4>2. Accounted(Now, None, {}) /\ Attended(Now)
        BY <1>1 DEF Idle
      <4>. QED
        BY <1>1, <2>4, <2>5, <4>1, <4>2, LeftPoolAccounted
    <3>. QED
      BY <2>2, <2>3, <2>5, <3>1 DEF Idle, Forgotten
  <2>. QED
    BY <1>7, <2>1, <2>4, <2>5, <2>6
<1>8. CASE phase[e] = "connected"
  <2>. DEFINE u == RemoveFromQueue(st, e)
              v == Reject(u, listeners[e])
              t == Forget(v, {e}, "closed")
  <2>1. BecomeOneOf(ProcessQueue(t))
    BY <1>3, <1>8 DEF SessionClosed
  <2>2. Measured(st) /\ Filed(st) /\ st.options[e] \in Options
    BY <1>1, <1>2, <1>6, NowFields
       DEF SameFiles, SameKeys, Idle, Accounted, Measured, InQueue, Filed
  <2>3. /\ SameKeys(st, v) /\ SamePool(st, v) /\ SameStreams(st, v) /\ SameCapacity(st, v)
        /\ v.listeners = st.listeners /\ v.given = st.given /\ v.relay = st.relay
        /\ v.life = st.life /\ v.gracefullyClosing = st.gracefullyClosing
        /\ v.status = [l \in Listeners |->
             IF l \in listeners[e] /\ st.status[l] = "waiting" THEN "rejected" ELSE st.status[l]]
        /\ Measured(v)
        /\ \A q \in Options, o \in Origins :
             v.queue[q][o] = IF st.queue[q][o] = e THEN None ELSE st.queue[q][o]
    BY <1>5, <2>2, EndingFields
  <2>4. Good(u)
    BY <1>5, <2>2, RemoveFromQueueGood
  <2>5. Good(v)
    <3>. HIDE DEF u
    <3>. QED
      BY <2>4, RejectGood
  <2>. HIDE DEF u, v
  <2>6. v.relay = None /\ v.life[e] = "destroyed"
    BY <1>1, <1>6, <2>3, NowFields
  <2>7. Good(t) /\ Forgotten(v, t, {e}, "closed")
    BY <1>1, <2>5, <2>6, ForgetGood, ForgetFields DEF Good
  <2>. HIDE DEF t
  <2>8. Ended(Now, t, e)
    <3>1. t.queue = v.queue /\ t.kLength = v.kLength
      BY <2>7 DEF Forgotten, SameFiles
    <3>2. Measured(t)
      BY <2>3, <3>1 DEF Measured, InQueue
    <3>3. n = Now.sessionCount - 1 /\ listeners = Now.listeners
      BY DEF Now
    <3>. HIDE DEF n
    <3>. QED
      BY <1>6, <2>3, <2>7, <3>1, <3>2, <3>3
         DEF Ended, Forgotten, SameFiles, SameKeys, SamePool, SameStreams, SameCallers, SameCapacity
  <2>9. Accounted(t, None, {}) /\ Attended(t)
    BY <1>1, <1>8, <2>8, EndedAccounted, NowFields DEF Idle
  <2>10. Idle(t)
    BY <1>1, <2>7, <2>8, <2>9 DEF Idle, Ended
  <2>. QED
    BY <1>8, <2>1, <2>8, <2>10
<1>. QED
  BY <1>1, <1>7, <1>8

LEMMA SessionClosedAInv == ASSUME AInv, NEW e \in Entries, SessionClosed(e) PROVE AInv'
  BY SessionClosedSteps, ProcessQueueIdle, BecomeOneOfIdle

\* Nothing changes but what is left of the handler.
Relayed(st, t, r) ==
  /\ SameAccounts(st, t) /\ SameCapacity(st, t) /\ t.relay = r
  /\ t.life = st.life /\ t.gracefullyClosing = st.gracefullyClosing

LEMMA RelayFields ==
  ASSUME NEW st \in StateType, NEW e
  PROVE  Relayed(st, [st EXCEPT !.relay = e], e)
  BY DEF StateType, Relayed, SameAccounts, SameFiles, SameKeys, SamePool, SameStreams, SameCallers,
         SameCapacity

\* What Relay needs of a state it may start in.
RelayReady(t, e) ==
  /\ Good(t) /\ t.relay = e /\ Accounted(t, e, {}) /\ Attended(t) /\ t.listeners[e] # {}

\* A handler that goes on with Relay.
LEMMA BecomeRelaying ==
  ASSUME NEW e \in Entries, NEW t, RelayReady(t, e), Become(t)
  PROVE  AInv'
<1>1. Now' = t
  BY BecomeState DEF RelayReady, Good
<1>2. relay' = t.relay /\ listeners' = t.listeners
  BY DEF Become
<1>. QED
  BY <1>1, <1>2 DEF RelayReady, AInv, IInv

\* Nothing is in hand once the last listener is served.
LEMMA AllServed ==
  ASSUME NEW st, NEW e \in Entries, Accounted(st, e, {}), st.listeners[e] = {}
  PROVE  Accounted(st, None, {})
  BY DEF Accounted, Listening

\* The states between the calls of the first `remoteSettings' handler: the entry
\* left the queue, the session entered the pool, listeners T were served.
FirstServed(e, n, O, i, T, u, entered, served) ==
  /\ SameButQueue(Now, u)
  /\ \A q \in Options, o \in Origins :
       u.queue[q][o] = IF Now.queue[q][o] = e THEN None ELSE Now.queue[q][o]
  /\ Entered(u, entered, e, i, n, O)
  /\ Good(entered) /\ Accounted(entered, e, {}) /\ Attended(entered)
  /\ ServesUntilFull(entered, e, listeners[e], T)
  /\ ServeChanges(entered, served, e, T)
  /\ served.listeners = [entered.listeners EXCEPT ![e] = @ \ T]

LEMMA FirstSettingsSteps ==
  ASSUME AInv, NEW e \in Entries, NEW n \in Limits, NEW plain \in BOOLEAN, FirstSettings(e, n, plain)
  PROVE  \E i \in SortedIndexes(Now, options[e], n), T \in SUBSET listeners[e] :
         \E u, entered, served :
           /\ FirstServed(e, n, FirstOriginSet(e, plain), i, T, u, entered, served)
           /\ \/ T = listeners[e] /\ Idle(served) /\ BecomeOneOf(AfterAccept(served, e))
              \/ /\ T # listeners[e] /\ Good(served)
                 /\ \E t : Relayed(served, t, e) /\ RelayReady(t, e) /\ Become(t)
<1>. DEFINE p == options[e]
            O == FirstOriginSet(e, plain)
            u == RemoveFromQueue(Now, e)
            enter(i) == EnterPool(u, e, i, n, O)
            accepted(i, T) == Accept(enter(i), e, e, T)
<1>1. /\ phase[e] = "connected" /\ relay = None /\ Idle(Now) /\ Good(Now) /\ Now \in StateType
      /\ e \notin Now.destroyed
  BY IdleNow DEF FirstSettings, Idle, Good, Now
<1>2. p \in Options /\ origin[e] \in Origins
  BY <1>1, ReadyKeyed, NowFields
<1>3. /\ Good(u) /\ SameEntries(Now, u) /\ SameButQueue(Now, u) /\ Measured(u)
      /\ \A q \in Options, o \in Origins :
           u.queue[q][o] = IF Now.queue[q][o] = e THEN None ELSE Now.queue[q][o]
  <2>1. Good(u) /\ SameEntries(Now, u)
    BY <1>1, <1>2, RemoveFromQueueGood, NowFields
  <2>2. /\ SameButQueue(Now, u) /\ Measured(u)
        /\ \A q \in Options, o \in Origins :
             u.queue[q][o] = IF Now.queue[q][o] = e THEN None ELSE Now.queue[q][o]
    BY <1>1, <1>2, RemoveFromQueueEntries, NowFields DEF Idle, Accounted
  <2>. QED
    BY <2>1, <2>2
<1>4. O \in SUBSET Origins /\ n \in Nat
  BY <1>2, EnvironmentAssumption DEF FirstOriginSet
<1>5. PICK i \in SortedIndexes(Now, p, n), T \in SUBSET listeners[e] :
        /\ ServesUntilFull(enter(i), e, listeners[e], T)
        /\ IF T = listeners[e]
           THEN BecomeOneOf(AfterAccept(accepted(i, T), e))
           ELSE Fresh(Now) # {} /\ Become([accepted(i, T) EXCEPT !.relay = e])
  BY DEF FirstSettings
<1>6. i \in 0..Len(sessions[p])
  BY NowFields DEF SortedIndexes
<1>. HIDE DEF u, O
<1>7. /\ Good(enter(i)) /\ enter(i).phase[e] = "ready"
      /\ Accounted(enter(i), e, {}) /\ Attended(enter(i))
      /\ enter(i).listeners = listeners /\ enter(i).relay = None
      /\ Entered(u, enter(i), e, i, n, O)
  <2>1. Good(enter(i)) /\ enter(i).phase[e] = "ready"
    BY <1>1, <1>3, <1>4, <1>6, EnterPoolGood DEF IInv
  <2>2. Entered(u, enter(i), e, i, n, O)
    <3>1. u \in StateType /\ u.options[e] \in Options
      BY <1>2, <1>3, NowFields DEF Good, SameEntries
    <3>. QED
      BY <3>1, EnterPoolFields
  <2>. HIDE DEF enter
  <2>3. Accounted(enter(i), e, {}) /\ Attended(enter(i))
    <3>1. i \in 0..Len(Now.sessions[Now.options[e]]) /\ Now.phase[e] = "connected"
      BY <1>1, <1>6, NowFields
    <3>2. Accounted(Now, None, {}) /\ Attended(Now)
      BY <1>1 DEF Idle
    <3>. QED
      BY <1>1, <1>3, <2>2, <3>1, <3>2, EnterPoolAccounted
  <2>4. enter(i).listeners = listeners /\ enter(i).relay = None
    BY <1>1, <1>3, <2>2, NowFields DEF Entered, SameButQueue
  <2>. QED
    BY <2>1, <2>2, <2>3, <2>4
<1>. HIDE DEF enter
<1>8. /\ Good(accepted(i, T)) /\ accepted(i, T).phase[e] = "ready"
      /\ Accounted(accepted(i, T), e, {}) /\ Attended(accepted(i, T))
      /\ accepted(i, T).relay = None /\ accepted(i, T).listeners[e] = listeners[e] \ T
      /\ ServeChanges(enter(i), accepted(i, T), e, T)
      /\ accepted(i, T).listeners = [enter(i).listeners EXCEPT ![e] = @ \ T]
  <2>. DEFINE a == accepted(i, T)
  <2>1. HasSession(enter(i), e) /\ T \in SUBSET enter(i).listeners[e]
    BY <1>7 DEF HasSession
  <2>2. Good(a) /\ SameEntries(enter(i), a)
    BY <1>7, <2>1, AcceptGood
  <2>3. /\ Accounted(a, e, {})
        /\ enter(i).phase[e] # "queued" /\ Attended(enter(i)) => Attended(a)
        /\ ServeChanges(enter(i), a, e, T) /\ a.listeners = [enter(i).listeners EXCEPT ![e] = @ \ T]
    BY <1>7, <2>1, AcceptAccounted
  <2>4. enter(i).listeners \in [Entries -> SUBSET Listeners]
    BY <1>7 DEF Good, StateType
  <2>. HIDE DEF a
  <2>5. a.listeners[e] = listeners[e] \ T
    BY <1>7, <2>3, <2>4
  <2>. QED
    BY <1>7, <2>2, <2>3, <2>5 DEF SameEntries, a
<1>. HIDE DEF accepted
<1>. DEFINE entered == enter(i)
            served == accepted(i, T)
<1>9. FirstServed(e, n, FirstOriginSet(e, plain), i, T, u, entered, served)
  BY <1>3, <1>5, <1>7, <1>8 DEF FirstServed, O
<1>10. \/ T = listeners[e] /\ Idle(served) /\ BecomeOneOf(AfterAccept(served, e))
       \/ /\ T # listeners[e] /\ Good(served)
          /\ \E t : Relayed(served, t, e) /\ RelayReady(t, e) /\ Become(t)
  <2>1. CASE T = listeners[e]
    <3>1. Idle(served)
      BY <1>8, <2>1, AllServed DEF Idle
    <3>2. BecomeOneOf(AfterAccept(served, e))
      BY <1>5, <2>1
    <3>. QED
      BY <2>1, <3>1, <3>2
  <2>2. CASE T # listeners[e]
    <3>. DEFINE t == [served EXCEPT !.relay = e]
    <3>1. Good(t)
      BY <1>8, RelayGood
    <3>2. Relayed(served, t, e)
      BY <1>8, RelayFields DEF Good
    <3>3. Become(t)
      BY <1>5, <2>2
    <3>. HIDE DEF t
    <3>4. RelayReady(t, e)
      BY <1>8, <2>2, <3>1, <3>2, SameAccountsAccounted DEF Relayed, RelayReady, SameAccounts
    <3>. QED
      BY <1>8, <2>2, <3>2, <3>3, <3>4
  <2>. QED
    BY <2>1, <2>2
<1>. HIDE DEF entered, served
<1>. QED
  BY <1>9, <1>10

LEMMA FirstSettingsAInv ==
  ASSUME AInv, NEW e \in Entries, NEW n \in Limits, NEW plain \in BOOLEAN, FirstSettings(e, n, plain)
  PROVE  AInv'
<1>1. \/ \E served : Idle(served) /\ BecomeOneOf(AfterAccept(served, e))
      \/ \E t : RelayReady(t, e) /\ Become(t)
  BY FirstSettingsSteps
<1>. QED
  BY <1>1, AfterAcceptIdle, BecomeOneOfIdle, BecomeRelaying

\* The listeners of e are in hand.
TakenOut(st, t, e) ==
  /\ SameFiles(st, t) /\ SameKeys(st, t) /\ SamePool(st, t) /\ SameStreams(st, t)
  /\ SameCallers(st, t) /\ SameCapacity(st, t) /\ t.relay = None
  /\ t.life = st.life /\ t.gracefullyClosing = st.gracefullyClosing
  /\ t.listeners = [st.listeners EXCEPT ![e] = {}]

LEMMA RelaySteps ==
  ASSUME AInv, NEW e \in Entries, Relay(e)
  PROVE  /\ relay = e /\ e # None /\ Good(Now) /\ Accounted(Now, e, {}) /\ Attended(Now)
         /\ phase[e] = "ready" /\ origin[e] \in Origins /\ options[e] \in Options
         /\ listeners[e] # {} /\ listeners[e] \subseteq Listeners
         /\ \/ \E i \in AvailableAt(Now, origin[e], options[e]), T \in SUBSET listeners[e] : \E served :
                 LET s == sessions[options[e]][i]
                 IN  /\ PickedAt(Now, origin[e], options[e], i) /\ HasSession(Now, s)
                     /\ ServesUntilFull(Now, s, listeners[e], T)
                     /\ ServeChanges(Now, served, s, T)
                     /\ served.listeners = [Now.listeners EXCEPT ![e] = @ \ T]
                     /\ \/ /\ T = listeners[e] /\ Good(served)
                           /\ \E t : Relayed(served, t, None) /\ Idle(t) /\ BecomeOneOf(AfterAccept(t, e))
                        \/ T # listeners[e] /\ RelayReady(served, e) /\ Become(served)
            \/ /\ AvailableAt(Now, origin[e], options[e]) = {}
               /\ \E v, t : /\ TakenOut(Now, v, e) /\ Good(v) /\ Attended(v)
                            /\ Accounted(v, None, listeners[e])
                            /\ \A l \in listeners[e] : v.status[l] \in {"waiting", "rejected"}
                            /\ t \in Enqueue(v, origin[e], options[e], listeners[e])
                            /\ Idle(t) /\ BecomeOneOf(AfterAccept(t, e))
<1>. DEFINE o == origin[e]
            p == options[e]
            accepted(i, T) == Accept(Now, sessions[p][i], e, T)
<1>1. /\ relay = e /\ e # None /\ Good(Now) /\ Accounted(Now, e, {}) /\ Attended(Now)
      /\ listeners[e] # {} /\ Now \in StateType
  BY NoneAssumption DEF Relay, AInv, IInv, Good
<1>2. phase[e] = "ready" /\ o \in Origins /\ p \in Options
  <2>1. phase[e] = "ready"
    BY <1>1, NowFields DEF Good, Relaying
  <2>. QED
    BY <1>1, <2>1, ReadyKeyed, NowFields
<1>3. listeners \in [Entries -> SUBSET Listeners]
  BY <1>1, NowFields DEF StateType
<1>4. CASE AvailableAt(Now, o, p) # {}
  <2>1. PICK i \in AvailableAt(Now, o, p), T \in SUBSET listeners[e] :
          /\ PickedAt(Now, o, p, i) /\ ServesUntilFull(Now, sessions[p][i], listeners[e], T)
          /\ IF T = listeners[e]
             THEN BecomeOneOf(AfterAccept([accepted(i, T) EXCEPT !.relay = None], e))
             ELSE Become(accepted(i, T))
    BY <1>4 DEF Relay
  <2>2. HasSession(Now, sessions[p][i])
    BY <1>2, ListedHasSession, NowFields DEF AvailableAt, AInv
  <2>3. /\ Good(accepted(i, T)) /\ Accounted(accepted(i, T), e, {}) /\ Attended(accepted(i, T))
        /\ accepted(i, T).relay = e /\ accepted(i, T).listeners[e] = listeners[e] \ T
        /\ ServeChanges(Now, accepted(i, T), sessions[p][i], T)
        /\ accepted(i, T).listeners = [Now.listeners EXCEPT ![e] = @ \ T]
    <3>. DEFINE a == accepted(i, T)
    <3>1. T \in SUBSET Now.listeners[e]
      BY NowFields
    <3>2. Good(a) /\ SameEntries(Now, a)
      BY <1>1, <2>2, AcceptGood
    <3>3. /\ Accounted(a, e, {})
          /\ Now.phase[e] # "queued" /\ Attended(Now) => Attended(a)
          /\ ServeChanges(Now, a, sessions[p][i], T)
          /\ a.listeners = [Now.listeners EXCEPT ![e] = @ \ T]
      BY <1>1, <2>2, <3>1, AcceptAccounted
    <3>. HIDE DEF a
    <3>4. a.listeners[e] = listeners[e] \ T
      BY <1>3, <3>3, NowFields
    <3>. QED
      BY <1>1, <1>2, <3>2, <3>3, <3>4, NowFields DEF SameEntries, a
  <2>. HIDE DEF accepted
  <2>4. CASE T = listeners[e]
    <3>. DEFINE t == [accepted(i, T) EXCEPT !.relay = None]
    <3>1. Good(t)
      BY <2>3, RelayGood
    <3>2. Relayed(accepted(i, T), t, None)
      BY <2>3, RelayFields DEF Good
    <3>3. BecomeOneOf(AfterAccept(t, e))
      BY <2>1, <2>4
    <3>. HIDE DEF t
    <3>4. Accounted(t, e, {}) /\ Attended(t) /\ t.listeners[e] = {}
      BY <2>3, <2>4, <3>2, SameAccountsAccounted DEF Relayed, SameAccounts
    <3>5. Idle(t)
      BY <3>1, <3>2, <3>4, AllServed DEF Idle, Relayed
    <3>. QED
      BY <1>1, <1>2, <1>3, <2>1, <2>2, <2>3, <2>4, <3>2, <3>3, <3>5
  <2>5. CASE T # listeners[e]
    <3>1. Become(accepted(i, T)) /\ RelayReady(accepted(i, T), e)
      BY <2>1, <2>3, <2>5 DEF RelayReady
    <3>. QED
      BY <1>1, <1>2, <1>3, <2>1, <2>2, <2>3, <2>5, <3>1
  <2>. QED
    BY <2>4, <2>5
<1>5. CASE AvailableAt(Now, o, p) = {}
  <2>. DEFINE T == listeners[e]
              L == [listeners EXCEPT ![e] = {}]
              u == [Now EXCEPT !.listeners = L]
              v == [u EXCEPT !.relay = None]
  <2>1. L \in [Entries -> SUBSET Listeners]
    BY <1>3
  <2>2. v = [Now EXCEPT !.listeners[e] = {}, !.relay = None]
    BY DEF Now
  <2>3. PICK st \in Enqueue(v, o, p, T) : BecomeOneOf(AfterAccept(st, e))
    BY <1>5, <2>2 DEF Relay
  <2>4. Good(u) /\ u \in StateType
    <3>. HIDE DEF L
    <3>. QED
      BY <1>1, <2>1, ListenersGood DEF Good
  <2>5. /\ SameFiles(Now, u) /\ SameKeys(Now, u) /\ SamePool(Now, u) /\ SameStreams(Now, u)
        /\ SameCallers(Now, u) /\ SameCapacity(Now, u) /\ u.life = Now.life
        /\ u.gracefullyClosing = Now.gracefullyClosing /\ u.listeners = L
    <3>. HIDE DEF L
    <3>. QED
      BY <1>1, ListenersFields
  <2>. HIDE DEF u
  <2>6. Good(v) /\ Relayed(u, v, None)
    BY <2>4, RelayGood, RelayFields
  <2>. HIDE DEF v
  <2>7. /\ SameFiles(Now, v) /\ SameKeys(Now, v) /\ SamePool(Now, v) /\ SameStreams(Now, v)
        /\ SameCallers(Now, v) /\ v.listeners = L /\ v.relay = None /\ TakenOut(Now, v, e)
    <3>1. Now.listeners = listeners
      BY NowFields
    <3>. QED
      BY <2>5, <2>6, <3>1
         DEF Relayed, SameAccounts, SameFiles, SameKeys, SamePool, SameStreams, SameCallers,
             SameCapacity, TakenOut
  <2>8. Filed(v) /\ Measured(v) /\ Listing(v) /\ Counted(v)
    BY <1>1, <2>7, SameKeysFiled DEF Accounted
  <2>9. Streaming(v) /\ UnusedCounted(v)
    <3>1. \A x : Streams(v, x) = Streams(Now, x)
      BY <2>7 DEF SameCallers, Streams
    <3>2. Unused(v) = Unused(Now)
      BY <2>7 DEF SameKeys, SameStreams, Unused
    <3>. QED
      BY <1>1, <2>7, <3>1, <3>2
         DEF SameKeys, SameCallers, SameStreams, Accounted, Streaming, UnusedCounted
  <2>10. Attended(v)
    BY <1>1, <1>2, <1>3, <2>7, NowFields DEF SameKeys, Attended
  <2>11. Listening(v, None, T) /\ \A l \in T : v.status[l] \in {"waiting", "rejected"}
    <3>1. /\ v.phase = phase /\ v.status = status /\ Listening(Now, e, {})
          /\ \A x \in Entries : v.listeners[x] = IF x = e THEN {} ELSE listeners[x]
      BY <1>1, <1>3, <2>7, NowFields DEF SameKeys, SameCallers, Accounted
    <3>. QED
      BY <1>3, <3>1, NowFields DEF Listening
  <2>12. T \in SUBSET Listeners /\ T # {}
    BY <1>1, <1>3
  <2>. HIDE DEF T, o, p
  <2>13. Accounted(v, None, T)
    BY <2>8, <2>9, <2>11 DEF Accounted
  <2>14. Good(st) /\ Accounted(st, None, {}) /\ Attended(st) /\ st.relay = None
    <3>2. Good(st)
      BY <1>2, <2>3, <2>6, <2>12, EnqueueGood
    <3>3. Accounted(st, None, {}) /\ Attended(st) /\ st.relay = v.relay
      BY <1>2, <2>3, <2>6, <2>10, <2>11, <2>12, <2>13, EnqueueAccounted
    <3>. QED
      BY <2>7, <3>2, <3>3
  <2>15. Idle(st)
    BY <2>14 DEF Idle
  <2>. QED
    BY <1>1, <1>2, <1>3, <1>5, <2>3, <2>6, <2>7, <2>10, <2>11, <2>12, <2>15, <2>13 DEF T, o, p
<1>. QED
  BY <1>4, <1>5

LEMMA RelayAInv == ASSUME AInv, NEW e \in Entries, Relay(e) PROVE AInv'
  BY RelaySteps, AfterAcceptIdle, BecomeOneOfIdle, BecomeRelaying

\* The end of the settings and origin handlers, see ServeOthersIdle.
ServesOthers(st, e, T) ==
  LET served == ProcessListeners(st, e, T)
  IN  /\ ServesInTurn(st, e, T)
      /\ Become(IF IsFree(served, e) THEN CloseCoveredSessions(served, e) ELSE served)

\* Sessions but e offer what they did.
SameOffers(st, t, e) ==
  /\ t.life = st.life
  /\ \A x \in Entries \ {e} : /\ t.originSet[x] = st.originSet[x]
                              /\ t.maxConcurrentStreams[x] = st.maxConcurrentStreams[x]
                              /\ x \in t.gracefullyClosing <=> x \in st.gracefullyClosing

LEMMA SettingsUpdateSteps ==
  ASSUME AInv, NEW e \in Entries, NEW n \in Limits, SettingsUpdate(e, n)
  PROVE  \E st : /\ SameAccounts(Now, st) /\ SameOffers(Now, st, e) /\ Idle(st) /\ st.phase[e] = "ready"
                 /\ \/ ~IsFree(st, e) /\ Become(st)
                    \/ \E T \in SUBSET WaitingFor(st, e) : ServesOthers(st, e, T)
<1>. DEFINE limits == [maxConcurrentStreams EXCEPT ![e] = n]
            st == [Now EXCEPT !.maxConcurrentStreams = limits]
<1>1. [Now EXCEPT !.maxConcurrentStreams[e] = n] = st
  BY DEF Now
<1>2. Idle(Now) /\ Good(Now) /\ Now \in StateType
  BY IdleNow DEF SettingsUpdate, Idle, Good
<1>3. limits \in [Entries -> Nat]
  BY <1>2, EnvironmentAssumption DEF StateType, Now
<1>4. /\ st \in StateType /\ SameEntries(Now, st) /\ SameCallers(Now, st) /\ SameSessions(Now, st)
      /\ SameAccounts(Now, st) /\ st.relay = Now.relay /\ st.phase = Now.phase
      /\ st.life = Now.life /\ st.gracefullyClosing = Now.gracefullyClosing
      /\ st.originSet = Now.originSet /\ st.maxConcurrentStreams = limits
  <2>. HIDE DEF limits
  <2>. QED
    BY <1>2, <1>3 DEF StateType, SameEntries, SameCallers, SameSessions, SameAccounts, SameFiles,
       SameKeys, SamePool, SameStreams
<1>. HIDE DEF st
<1>5. Idle(st) /\ st.phase[e] = "ready"
  <2>1. Good(st)
    BY <1>2, <1>4, SameSessionsGood
  <2>2. Idle(st)
    BY <1>2, <1>4, <2>1, SameIdle
  <2>. QED
    BY <1>4, <2>2, NowFields DEF SettingsUpdate
<1>6. SameOffers(Now, st, e)
  <2>1. \A x \in Entries \ {e} : limits[x] = Now.maxConcurrentStreams[x]
    BY <1>2 DEF Now, StateType
  <2>. HIDE DEF limits
  <2>. QED
    BY <1>4, <2>1 DEF SameOffers
<1>7. \/ ~IsFree(st, e) /\ Become(st)
      \/ \E T \in SUBSET WaitingFor(st, e) : ServesOthers(st, e, T)
  BY <1>1 DEF SettingsUpdate, ServesOthers
<1>. QED
  BY <1>4, <1>5, <1>6, <1>7

LEMMA SettingsUpdateAInv ==
  ASSUME AInv, NEW e \in Entries, NEW n \in Limits, SettingsUpdate(e, n)
  PROVE  AInv'
<1>1. PICK st : /\ Idle(st) /\ st.phase[e] = "ready"
                /\ Become(st) \/ \E T \in SUBSET WaitingFor(st, e) : ServesOthers(st, e, T)
  BY SettingsUpdateSteps
<1>2. CASE Become(st)
  BY <1>1, <1>2, BecomeIdle
<1>3. CASE \E T \in SUBSET WaitingFor(st, e) : ServesOthers(st, e, T)
  BY <1>1, <1>3, ServeOthersIdle, BecomeIdle DEF ServesOthers
<1>. QED
  BY <1>1, <1>2, <1>3

LEMMA OriginFrameSteps ==
  ASSUME AInv, NEW e \in Entries, NEW frame \in OriginFrames, OriginFrame(e, frame)
  PROVE  \E u : /\ SameAccounts(Now, u) /\ SameOffers(Now, u, e) /\ Idle(u)
                /\ u.maxConcurrentStreams = Now.maxConcurrentStreams
                /\ Idle(CloseSessionIfCovered(u, e)) /\ CloseSessionIfCovered(u, e).phase[e] = "ready"
                /\ LET st == CloseSessionIfCovered(u, e)
                   IN  \/ (e \in st.gracefullyClosing \/ ~IsFree(st, e)) /\ Become(st)
                       \/ \E T \in SUBSET WaitingFor(st, e) : ServesOthers(st, e, T)
<1>. DEFINE sets == [originSet EXCEPT ![e] = @ \cup frame]
            G == gracefullyClosing \ {e}
            u == [Now EXCEPT !.originSet = sets, !.gracefullyClosing = G]
            st == CloseSessionIfCovered(u, e)
<1>1. [Now EXCEPT !.originSet[e] = @ \cup frame, !.gracefullyClosing = @ \ {e}] = u
  BY DEF Now
<1>2. Idle(Now) /\ Good(Now) /\ Now \in StateType
  BY IdleNow DEF OriginFrame, Idle, Good
<1>3. sets \in [Entries -> SUBSET Origins] /\ G \in SUBSET Entries /\ G \subseteq Now.gracefullyClosing
  BY <1>2, EnvironmentAssumption DEF StateType, Now
<1>4. /\ u \in StateType /\ SameEntries(Now, u) /\ SameCallers(Now, u) /\ SameSessions(Now, u)
      /\ SameAccounts(Now, u) /\ u.relay = Now.relay /\ u.phase = Now.phase
      /\ u.life = Now.life /\ u.gracefullyClosing = G
      /\ u.originSet = sets /\ u.maxConcurrentStreams = Now.maxConcurrentStreams
  <2>. HIDE DEF sets, G
  <2>. QED
    BY <1>2, <1>3 DEF StateType, SameEntries, SameCallers, SameSessions, SameAccounts, SameFiles,
       SameKeys, SamePool, SameStreams
<1>. HIDE DEF u
<1>5. Idle(u)
  <2>1. Good(u)
    BY <1>2, <1>4, SameSessionsGood
  <2>. QED
    BY <1>2, <1>4, <2>1, SameIdle
<1>6. Idle(st) /\ st.phase[e] = "ready"
  <2>1. Idle(st) /\ SameEntries(u, st)
    BY <1>5, CloseSessionIfCoveredIdle, CloseSessionIfCoveredGood DEF Idle
  <2>. HIDE DEF st
  <2>. QED
    BY <1>4, <2>1, NowFields DEF OriginFrame, SameEntries
<1>7. SameOffers(Now, u, e)
  <2>1. \A x \in Entries \ {e} : sets[x] = Now.originSet[x] /\ (x \in G <=> x \in Now.gracefullyClosing)
    BY <1>2 DEF Now, StateType
  <2>. HIDE DEF sets, G
  <2>. QED
    BY <1>4, <2>1 DEF SameOffers
<1>8. \/ (e \in st.gracefullyClosing \/ ~IsFree(st, e)) /\ Become(st)
      \/ \E T \in SUBSET WaitingFor(st, e) : ServesOthers(st, e, T)
  BY <1>1 DEF OriginFrame, ServesOthers
<1>. QED
  BY <1>4, <1>5, <1>6, <1>7, <1>8

LEMMA OriginFrameAInv ==
  ASSUME AInv, NEW e \in Entries, NEW frame \in OriginFrames, OriginFrame(e, frame)
  PROVE  AInv'
<1>1. PICK st : /\ Idle(st) /\ st.phase[e] = "ready"
                /\ Become(st) \/ \E T \in SUBSET WaitingFor(st, e) : ServesOthers(st, e, T)
  BY OriginFrameSteps
<1>2. CASE Become(st)
  BY <1>1, <1>2, BecomeIdle
<1>3. CASE \E T \in SUBSET WaitingFor(st, e) : ServesOthers(st, e, T)
  BY <1>1, <1>3, ServeOthersIdle, BecomeIdle DEF ServesOthers
<1>. QED
  BY <1>1, <1>2, <1>3

\* What the end of a stream changes before the session is closed or used again.
StreamEnded(st, t, l) ==
  LET e == st.given[l]
  IN /\ SameFiles(st, t) /\ SameKeys(st, t) /\ SamePool(st, t) /\ SameCapacity(st, t)
     /\ t.listeners = st.listeners /\ t.relay = st.relay /\ t.life = st.life
     /\ t.gracefullyClosing = st.gracefullyClosing
     /\ t.status = [st.status EXCEPT ![l] = "done"] /\ t.given = [st.given EXCEPT ![l] = None]
     /\ t.currentStreamCount = [st.currentStreamCount EXCEPT ![e] = @ - 1]
     /\ t.emptySessionCount = IF st.currentStreamCount[e] = 1
                              THEN st.emptySessionCount + 1 ELSE st.emptySessionCount

LEMMA StreamEndedAccounted ==
  ASSUME NEW st, Idle(st), NEW l \in Listeners, st.status[l] \in {"streaming", "orphan"},
         NEW t, StreamEnded(st, t, l)
  PROVE  /\ Accounted(t, None, {}) /\ Attended(t) /\ t.relay = None
         /\ st.given[l] \in Entries /\ st.phase[st.given[l]] = "ready"
         /\ st.currentStreamCount[st.given[l]] \in Nat \ {0}
<1>. DEFINE e == st.given[l]
<1>1. /\ st.status \in [Listeners -> Statuses] /\ st.given \in [Listeners -> Entries \cup {None}]
      /\ st.currentStreamCount \in [Entries -> Int] /\ st.listeners \in [Entries -> SUBSET Listeners]
  BY DEF Idle, Good, StateType
<1>2. e \in Entries /\ e # None /\ st.phase[e] = "ready"
  BY NoneAssumption DEF Idle, Good, Holding, HasSession, Accounted, Streaming
<1>3. /\ \A m \in Listeners : t.status[m] = IF m = l THEN "done" ELSE st.status[m]
      /\ \A m \in Listeners : t.given[m] = IF m = l THEN None ELSE st.given[m]
      /\ \A x \in Entries : t.currentStreamCount[x] =
           IF x = e THEN st.currentStreamCount[x] - 1 ELSE st.currentStreamCount[x]
  BY <1>1, <1>2 DEF StreamEnded
<1>4. /\ t.phase = st.phase /\ t.listeners = st.listeners /\ t.relay = None
      /\ t.emptySessionCount = IF st.currentStreamCount[e] = 1
                               THEN st.emptySessionCount + 1 ELSE st.emptySessionCount
  BY DEF StreamEnded, SameKeys, Idle
<1>5. Filed(t) /\ Measured(t) /\ Listing(t) /\ Counted(t)
  BY SameKeysFiled DEF StreamEnded, Idle, Accounted
<1>6. Attended(t) /\ Listening(t, None, {})
  <2>1. Listening(st, None, {}) /\ Attended(st)
    BY DEF Idle, Accounted
  <2>2. \A x \in Entries : \A m \in st.listeners[x] : m \in Listeners /\ m # l
    BY <1>1, <2>1 DEF Listening
  <2>3. Attended(t)
    BY <1>4, <2>1 DEF Attended
  <2>. QED
    BY <1>3, <1>4, <2>1, <2>2, <2>3 DEF Listening
<1>7. \A x \in Entries : /\ IsFiniteSet(Streams(st, x))
                         /\ st.currentStreamCount[x] = Cardinality(Streams(st, x))
                         /\ st.currentStreamCount[x] \in Nat
  BY ListenersFinite DEF Idle, Accounted, Streaming, Streams
<1>8. \A x \in Entries : Streams(t, x) = IF x = e THEN Streams(st, x) \ {l} ELSE Streams(st, x)
  BY <1>3, NoneAssumption DEF Streams
<1>9. l \in Streams(st, e)
  BY DEF Streams
<1>10. Cardinality(Streams(st, e) \ {l}) = Cardinality(Streams(st, e)) - 1
  BY <1>2, <1>7, <1>9, CountOneLess
<1>11. Streaming(t)
  <2>1. ASSUME NEW x \in Entries PROVE t.currentStreamCount[x] = Cardinality(Streams(t, x))
    <3>1. CASE x = e
      BY <1>3, <1>7, <1>8, <1>10, <3>1
    <3>2. CASE x # e
      BY <1>3, <1>7, <1>8, <3>2
    <3>. QED
      BY <3>1, <3>2
  <2>2. \A m \in Listeners : t.status[m] \in {"streaming", "orphan"} => t.phase[t.given[m]] = "ready"
    BY <1>3, <1>4 DEF Idle, Accounted, Streaming
  <2>. QED
    BY <2>1, <2>2 DEF Streaming
<1>12. st.currentStreamCount[e] # 0
  <2>1. Streams(st, e) # {}
    BY <1>9
  <2>. QED
    BY <1>2, <1>7, <2>1, FS_EmptySet
<1>13. UnusedCounted(t)
  <2>1. IsFiniteSet(Unused(st)) /\ st.emptySessionCount = Cardinality(Unused(st))
    BY EntriesFinite DEF Unused, Idle, Accounted, UnusedCounted
  <2>2. CASE st.currentStreamCount[e] = 1
    <3>1. Unused(t) = Unused(st) \cup {e} /\ e \notin Unused(st)
      BY <1>2, <1>3, <1>4, <2>2 DEF Unused
    <3>2. Cardinality(Unused(st) \cup {e}) = Cardinality(Unused(st)) + 1
      BY <2>1, <3>1, CountOneMore
    <3>. QED
      BY <1>4, <2>1, <2>2, <3>1, <3>2 DEF UnusedCounted
  <2>3. CASE st.currentStreamCount[e] # 1
    <3>1. Unused(t) = Unused(st)
      BY <1>2, <1>3, <1>4, <1>7, <1>12, <2>3 DEF Unused
    <3>. QED
      BY <1>4, <2>1, <2>3, <3>1 DEF UnusedCounted
  <2>. QED
    BY <2>2, <2>3
<1>14. Accounted(t, None, {})
  BY <1>5, <1>6, <1>11, <1>13 DEF Accounted
<1>. QED
  BY <1>2, <1>4, <1>6, <1>7, <1>12, <1>14

\* If it was the last stream of a covered session, that must close: see StreamClose.
LEMMA StreamEndedGood ==
  ASSUME NEW st, Idle(st), NEW l \in Listeners, st.status[l] \in {"streaming", "orphan"},
         NEW t \in StateType, StreamEnded(st, t, l),
         ~(st.currentStreamCount[st.given[l]] = 1 /\ st.given[l] \in st.gracefullyClosing)
  PROVE  Good(t)
<1>. DEFINE e == st.given[l]
<1>1. e \in Entries /\ Good(st)
  BY StreamEndedAccounted DEF Idle
<1>2. SameEntries(st, t)
  BY DEF StreamEnded, SameKeys, SamePool, SameEntries
<1>3. Holding(t)
  <2>1. \A x : HasSession(st, x) => HasSession(t, x)
    BY <1>2 DEF SameEntries, HasSession
  <2>2. /\ st.status \in [Listeners -> Statuses] /\ st.given \in [Listeners -> Entries \cup {None}]
    BY <1>1 DEF Good, StateType
  <2>3. /\ \A m \in Listeners : t.status[m] = IF m = l THEN "done" ELSE st.status[m]
        /\ \A m \in Listeners : t.given[m] = IF m = l THEN None ELSE st.given[m]
    BY <2>2 DEF StreamEnded
  <2>. QED
    BY <1>1, <2>1, <2>3 DEF Good, Holding
<1>4. Closing(t)
  <2>1. st.currentStreamCount \in [Entries -> Int] /\ st.gracefullyClosing \subseteq Entries
    BY <1>1 DEF Good, StateType
  <2>2. /\ t.gracefullyClosing = st.gracefullyClosing /\ t.life = st.life
        /\ \A x \in Entries : t.currentStreamCount[x] =
             IF x = e THEN st.currentStreamCount[x] - 1 ELSE st.currentStreamCount[x]
    BY <1>1, <2>1 DEF StreamEnded
  <2>. QED
    BY <1>1, <2>1, <2>2 DEF Good, Closing
<1>. QED
  BY <1>1, <1>2, <1>3, <1>4, SameEntriesGood

LEMMA CoveringWaiting ==
  ASSUME NEW st, Idle(st), NEW e \in Entries, st.phase[e] = "ready"
  PROVE  LET covering == CloseCoveredSessions(st, e)
         IN  WaitingFor(st, e) = WaitingFor(covering, e) /\ covering.phase[e] = "ready"
<1>. DEFINE covering == CloseCoveredSessions(st, e)
<1>1. SameAccounts(st, covering) /\ SameCapacity(st, covering)
  BY CloseCoveredSessionsSame DEF Idle
<1>. HIDE DEF covering
<1>2. WaitingFor(st, e) = WaitingFor(covering, e) /\ covering.phase[e] = "ready"
  BY <1>1 DEF SameAccounts, SameFiles, SameKeys, SameCapacity, WaitingFor, Candidates
<1>. QED
  BY <1>2 DEF covering

\* Whether session e is closed after the end of its stream, or may be used again.
ClosesAfter(st, e) ==
  currentStreamCount[e] = 1 /\ (TooManyEmpty(st) \/ e \in gracefullyClosing)

UsableAfter(st, e) == ~ClosesAfter(st, e) /\ life[e] = "open" /\ IsFree(st, e)

\* How the handler goes on from there.
ContinuesAfter(st, e) ==
  \/ ClosesAfter(st, e) /\ Become(Close(st, {e}))
  \/ ~ClosesAfter(st, e) /\ ~UsableAfter(st, e) /\ Become(st)
  \/ UsableAfter(st, e) /\ IsCovered(st, e) /\ Become(CloseSessionIfCovered(st, e))
  \/ /\ UsableAfter(st, e) /\ ~IsCovered(st, e)
     /\ \E T \in SUBSET WaitingFor(st, e) :
          LET covering == CloseCoveredSessions(st, e)
              served == ProcessListeners(covering, e, T)
          IN /\ ServesInTurn(covering, e, T)
             /\ BecomeOneOf(IF served.currentStreamCount[e] = 0
                            THEN ProcessQueue(served) ELSE {served})

LEMMA StreamCloseSteps ==
  ASSUME AInv, NEW l \in Listeners, StreamClose(l)
  PROVE  /\ relay = None /\ given[l] \in Entries /\ phase[given[l]] = "ready"
         /\ Now.status[l] \in {"streaming", "orphan"} /\ Idle(Now)
         /\ \E st \in StateType :
              /\ StreamEnded(Now, st, l) /\ st.phase = phase
              /\ Accounted(st, None, {}) /\ Attended(st) /\ st.relay = None
              /\ ~ClosesAfter(st, given[l]) => Idle(st)
              /\ ContinuesAfter(st, given[l])
<1>. DEFINE e == given[l]
            last == currentStreamCount[e] = 1
            S == [status EXCEPT ![l] = "done"]
            gave == [given EXCEPT ![l] = None]
            streams == [currentStreamCount EXCEPT ![e] = @ - 1]
            empty == IF last THEN emptySessionCount + 1 ELSE emptySessionCount
            st == [Now EXCEPT !.status = S, !.given = gave,
                              !.currentStreamCount = streams, !.emptySessionCount = empty]
<1>1. [Now EXCEPT !.status[l] = "done", !.given[l] = None, !.currentStreamCount[e] = @ - 1,
                  !.emptySessionCount = IF last THEN @ + 1 ELSE @] = st
  BY DEF Now
<1>2. Idle(Now) /\ Now \in StateType
  BY IdleNow DEF StreamClose, Idle, Good
<1>3. Now.status[l] \in {"streaming", "orphan"} /\ Now.given[l] = e
  BY NowFields DEF StreamClose
<1>4. e \in Entries /\ phase[e] = "ready"
  <2>1. Now.given[l] \in Entries /\ Now.phase[Now.given[l]] = "ready"
    BY <1>2, <1>3, NoneAssumption DEF Idle, Good, Holding, HasSession, Accounted, Streaming
  <2>. QED
    BY <2>1, NowFields
<1>5. st \in StateType
  <2>1. /\ status \in [Listeners -> Statuses] /\ given \in [Listeners -> Entries \cup {None}]
        /\ currentStreamCount \in [Entries -> Int] /\ emptySessionCount \in Int
    BY <1>2 DEF StateType, Now
  <2>2. S \in [Listeners -> Statuses] /\ gave \in [Listeners -> Entries \cup {None}]
    BY <2>1 DEF Statuses
  <2>3. streams \in [Entries -> Int] /\ empty \in Int
    BY <1>4, <2>1
  <2>. HIDE DEF S, gave, streams, empty
  <2>. QED
    BY <1>2, <2>2, <2>3 DEF StateType
<1>6. StreamEnded(Now, st, l) /\ st.phase = phase
  <2>1. /\ st.status = S /\ st.given = gave /\ st.currentStreamCount = streams
        /\ st.emptySessionCount = empty
        /\ SameFiles(Now, st) /\ SameKeys(Now, st) /\ SamePool(Now, st) /\ SameCapacity(Now, st)
        /\ st.listeners = Now.listeners /\ st.relay = Now.relay /\ st.life = Now.life
        /\ st.gracefullyClosing = Now.gracefullyClosing /\ st.phase = phase
    <3>. HIDE DEF S, gave, streams, empty
    <3>. QED
      BY DEF Now, SameFiles, SameKeys, SamePool, SameCapacity
  <2>. HIDE DEF st
  <2>2. /\ st.status = [Now.status EXCEPT ![l] = "done"] /\ st.given = [Now.given EXCEPT ![l] = None]
        /\ st.currentStreamCount = [Now.currentStreamCount EXCEPT ![e] = @ - 1]
        /\ st.emptySessionCount = IF Now.currentStreamCount[e] = 1
                                  THEN Now.emptySessionCount + 1 ELSE Now.emptySessionCount
    <3>1. Now.emptySessionCount = emptySessionCount
      BY DEF Now
    <3>. QED
      BY <2>1, <3>1, NowFields
  <2>. HIDE DEF S, gave, streams, empty
  <2>. QED
    BY <1>3, <2>1, <2>2 DEF StreamEnded
<1>. HIDE DEF st
<1>7. Accounted(st, None, {}) /\ Attended(st) /\ st.relay = None
  BY <1>2, <1>3, <1>6, StreamEndedAccounted
<1>8. ~ClosesAfter(st, e) => Idle(st)
  <2>1. SUFFICES ASSUME ~ClosesAfter(st, e) PROVE Good(st)
    BY <1>7 DEF Idle
  <2>2. ~(Now.currentStreamCount[Now.given[l]] = 1 /\ Now.given[l] \in Now.gracefullyClosing)
    BY <2>1, NowFields DEF ClosesAfter
  <2>. QED
    BY <1>2, <1>3, <1>5, <1>6, <2>2, StreamEndedGood
<1>9. ContinuesAfter(st, e)
  BY <1>1 DEF StreamClose, ContinuesAfter, ClosesAfter, UsableAfter
<1>10. relay = None
  BY DEF StreamClose
<1>. QED
  BY <1>2, <1>3, <1>4, <1>5, <1>6, <1>7, <1>8, <1>9, <1>10

LEMMA StreamCloseAInv == ASSUME AInv, NEW l \in Listeners, StreamClose(l) PROVE AInv'
<1>. DEFINE e == given[l]
<1>1. PICK st \in StateType :
        /\ StreamEnded(Now, st, l) /\ st.phase = phase
        /\ Accounted(st, None, {}) /\ Attended(st) /\ st.relay = None
        /\ ~ClosesAfter(st, e) => Idle(st)
        /\ ContinuesAfter(st, e)
  BY StreamCloseSteps
<1>2. e \in Entries /\ phase[e] = "ready"
  BY StreamCloseSteps
<1>3. CASE ClosesAfter(st, e)
  <2>1. Become(Close(st, {e}))
    BY <1>1, <1>3 DEF ContinuesAfter, UsableAfter
  <2>. DEFINE t == Close(st, {e})
  <2>2. t \in StateType /\ SameAccounts(st, t) /\ t.relay = st.relay
    <3>1. SameAccounts(st, t) /\ t.relay = st.relay
      BY CloseSame
    <3>. DEFINE closed == [x \in Entries |->
                  IF x \notin {e} \/ st.life[x] # "open" THEN st.life[x]
                  ELSE IF st.currentStreamCount[x] = 0 THEN "destroyed" ELSE "closed"]
    <3>2. closed \in [Entries -> {"open", "closed", "destroyed"}] /\ t = [st EXCEPT !.life = closed]
      BY DEF StateType, Close
    <3>3. t \in StateType
      <4>. HIDE DEF closed, t
      <4>. QED
        BY <3>2 DEF StateType
    <3>. QED
      BY <3>1, <3>3
  <2>. HIDE DEF t
  <2>3. Now' = t
    BY <2>1, <2>2, BecomeState DEF t
  <2>4. Good(t)
    <3>1. IInv'
      BY StreamCloseIInv DEF AInv
    <3>2. Good(Now')
      BY <3>1 DEF IInv
    <3>. QED
      BY <2>3, <3>2
  <2>5. Accounted(t, None, {}) /\ Attended(t) /\ t.relay = None
    BY <1>1, <2>2, SameAccountsAccounted
  <2>6. Idle(t)
    BY <2>4, <2>5 DEF Idle
  <2>. QED
    BY <2>1, <2>6, BecomeIdle DEF t
<1>4. CASE ~ClosesAfter(st, e)
  <2>1. Idle(st)
    BY <1>1, <1>4
  <2>2. CASE ~UsableAfter(st, e)
    <3>1. Become(st)
      BY <1>1, <1>4, <2>2 DEF ContinuesAfter
    <3>. QED
      BY <2>1, <3>1, BecomeIdle
  <2>3. CASE UsableAfter(st, e) /\ IsCovered(st, e)
    <3>1. Become(CloseSessionIfCovered(st, e))
      BY <1>1, <1>4, <2>3 DEF ContinuesAfter
    <3>. QED
      BY <1>2, <2>1, <3>1, CloseSessionIfCoveredIdle, BecomeIdle
  <2>4. CASE UsableAfter(st, e) /\ ~IsCovered(st, e)
    <3>. DEFINE covering == CloseCoveredSessions(st, e)
                served(T) == ProcessListeners(covering, e, T)
    <3>1. PICK T \in SUBSET WaitingFor(st, e) :
            BecomeOneOf(IF served(T).currentStreamCount[e] = 0
                        THEN ProcessQueue(served(T)) ELSE {served(T)})
      BY <1>1, <1>4, <2>4 DEF ContinuesAfter
    <3>2. Idle(covering)
      BY <1>1, <1>2, <2>1, CloseCoveredSessionsIdle
    <3>3. WaitingFor(st, e) = WaitingFor(covering, e) /\ covering.phase[e] = "ready"
      BY <1>1, <1>2, <2>1, CoveringWaiting
    <3>4. Idle(served(T))
      <4>. HIDE DEF covering
      <4>. QED
        BY <1>2, <3>2, <3>3, ProcessListenersIdle
    <3>. HIDE DEF served
    <3>. QED
      BY <3>1, <3>4, ProcessQueueIdle, BecomeOneOfIdle
  <2>. QED
    BY <2>2, <2>3, <2>4
<1>. QED
  BY <1>3, <1>4

------------------------------------------------------------------------------
(* The invariant.                                                           *)

LEMMA InitAInv == Init => AInv
<1>. SUFFICES ASSUME Init PROVE AInv
  OBVIOUS
<1>1. IInv
  BY InitIInv
<1>2. Filed(Now)
  BY DEF Init, Now, Filed, Pending
<1>3. Measured(Now)
  <2>1. SUFFICES ASSUME NEW p \in Options PROVE Now.kLength[p] = Cardinality(InQueue(Now, p))
    BY DEF Measured
  <2>2. InQueue(Now, p) = {} /\ Now.kLength[p] = 0
    BY DEF Init, Now, InQueue
  <2>. QED
    BY <2>2, FS_EmptySet
<1>4. Listening(Now, relay, {}) /\ Attended(Now)
  BY DEF Init, Now, Listening, Attended
<1>5. Listing(Now)
  <2>1. \A p \in Options : Now.sessions[p] = <<>> /\ Len(Now.sessions[p]) = 0 /\ Listed(Now, p) = {}
    BY DEF Init, Now, Listed, ToSet
  <2>2. \A e \in Entries : Now.phase[e] # "ready"
    BY DEF Init, Now
  <2>. QED
    BY <2>1, <2>2 DEF Listing
<1>6. Streaming(Now)
  <2>1. \A l \in Listeners : Now.status[l] = "idle"
    BY DEF Init, Now
  <2>2. \A e \in Entries : Streams(Now, e) = {} /\ Now.currentStreamCount[e] = 0
    BY <2>1 DEF Init, Now, Streams
  <2>3. \A e \in Entries : Now.currentStreamCount[e] = Cardinality(Streams(Now, e))
    BY <2>2, FS_EmptySet
  <2>. QED
    BY <2>1, <2>3 DEF Streaming
<1>7. Counted(Now) /\ UnusedCounted(Now)
  <2>1. \A e \in Entries : Now.phase[e] = "none"
    BY DEF Init, Now
  <2>2. InPhases(Now, {"connecting", "connected", "ready"}) = {} /\ Unused(Now) = {}
    BY <2>1 DEF InPhases, Unused
  <2>3. Now.sessionCount = 0 /\ Now.emptySessionCount = 0
    BY DEF Init, Now
  <2>. QED
    BY <2>2, <2>3, FS_EmptySet DEF Counted, UnusedCounted
<1>8. Accounted(Now, relay, {})
  BY <1>2, <1>3, <1>4, <1>5, <1>6, <1>7 DEF Accounted
<1>. QED
  BY <1>1, <1>4, <1>8 DEF AInv, Init

LEMMA StutterAInv == ASSUME AInv, UNCHANGED vars PROVE AInv'
<1>1. Now' = Now /\ relay' = relay /\ listeners' = listeners
  BY DEF Now, vars
<1>. QED
  BY <1>1 DEF AInv, IInv

LEMMA NextAInv == ASSUME AInv, [Next]_vars PROVE AInv'
<1>1. CASE \E l \in Listeners, o \in Origins, p \in Options : GetSession(l, o, p)
  BY <1>1, GetSessionAInv
<1>2. CASE \E l \in Listeners : RejectServername(l) \/ UserRequest(l) \/ StreamClose(l)
  BY <1>2, RejectServernameAInv, UserRequestAInv, StreamCloseAInv
<1>3. CASE CloseEmpty \/ AgentDestroy
  BY <1>3, CloseEmptyAInv, AgentDestroyAInv
<1>4. CASE \E e \in Entries : Connected(e) \/ ConnectFailed(e) \/ FirstSettingsRefused(e)
  BY <1>4, ConnectedAInv, ConnectFailedAInv, FirstSettingsRefusedAInv
<1>5. CASE \E e \in Entries, n \in Limits : FirstSettings(e, n, FALSE) \/ FirstSettings(e, n, TRUE)
  BY <1>5, FirstSettingsAInv
<1>6. CASE \E e \in Entries : Relay(e)
  BY <1>6, RelayAInv
<1>7. CASE \E e \in Entries, n \in Limits : SettingsUpdate(e, n)
  BY <1>7, SettingsUpdateAInv
<1>8. CASE \E e \in Entries, frame \in OriginFrames : OriginFrame(e, frame)
  BY <1>8, OriginFrameAInv
<1>9. CASE \E e \in Entries : SessionClose(e) \/ SessionLost(e) \/ SessionDrained(e) \/ SessionClosed(e)
  BY <1>9, SessionCloseAInv, SessionLostAInv, SessionDrainedAInv, SessionClosedAInv
<1>10. CASE UNCHANGED vars
  BY <1>10, StutterAInv
<1>. QED
  BY <1>1, <1>2, <1>3, <1>4, <1>5, <1>6, <1>7, <1>8, <1>9, <1>10 DEF Next, OtherStep

LEMMA AccountInvariant == Spec => []AInv
<1>. QED
  BY InitAInv, NextAInv, PTL DEF Spec

\* Whatever handlers run in whatever order, the queue maps a key to a live entry
\* of that key and no waiting entry is lost from it, and the pool lists every
\* session that received SETTINGS, once, under its options, until it closes.
THEOREM QueueAndPoolConsistent == Spec => []KeysConsistent
<1>1. ASSUME AInv PROVE QueueConsistent
  <2>1. Filed(Now) /\ Attended(Now) /\ Now.queue = queue /\ Now.destroyed = destroyed
    BY <1>1 DEF AInv, Accounted, Now
  <2>. QED
    BY <2>1, NowFields DEF Filed, Attended, QueueConsistent, Pending
<1>2. ASSUME AInv PROVE PoolConsistent
  BY <1>2, NowFields DEF AInv, Accounted, Listing, PoolConsistent
<1>3. AInv => KeysConsistent
  BY <1>1, <1>2 DEF KeysConsistent
<1>. QED
  BY <1>3, AccountInvariant, PTL

\* A caller that waits is a listener of exactly one entry, and that entry is in
\* the queue or runs: no handler that moves, empties or replaces entries loses or
\* doubles a caller.  Only agent.destroy() takes an entry with callers out of the
\* queue before it runs, and those callers are the one exception.
THEOREM NobodyLost == Spec => []WaitersAccounted
<1>1. ASSUME AInv PROVE WaitersAccounted
  <2>1. Listening(Now, relay, {}) /\ Filed(Now)
    BY <1>1 DEF AInv, Accounted
  <2>2. ASSUME NEW l \in Listeners, status[l] = "waiting"
        PROVE  \E e \in Entries :
                 l \in listeners[e] /\ (relay = e \/ Attending(e) \/ Abandoned(e))
    <3>1. PICK e \in Entries : l \in listeners[e] /\ (phase[e] \in Pending \/ relay = e)
      BY <2>1, <2>2, NowFields DEF Listening
    <3>2. Now.queue = queue /\ Now.destroyed = destroyed
      BY DEF Now
    <3>3. relay = e \/ Attending(e) \/ Abandoned(e)
      <4>1. CASE relay = e
        BY <4>1
      <4>2. CASE phase[e] = "queued" /\ e \in destroyed
        BY <4>2 DEF Abandoned
      <4>3. CASE phase[e] = "queued" /\ e \notin destroyed
        <5>1. queue[options[e]][origin[e]] = e
          BY <2>1, <3>2, <4>3, NowFields DEF Filed, Pending
        <5>. QED
          BY <4>3, <5>1 DEF Attending
      <4>4. CASE phase[e] \in {"connecting", "connected"}
        BY <4>4 DEF Attending
      <4>. QED
        BY <3>1, <4>1, <4>2, <4>3, <4>4, ZenonT(30) DEF Pending
    <3>. QED
      BY <3>1, <3>3
  <2>3. ASSUME NEW l \in Listeners
        PROVE  Cardinality({e \in Entries : l \in listeners[e]}) <= 1
    <3>. DEFINE S == {e \in Entries : l \in listeners[e]}
    <3>1. CASE S = {}
      <4>1. Cardinality(S) = 0
        BY <3>1, FS_EmptySet
      <4>. QED
        BY <4>1
    <3>2. CASE S # {}
      <4>1. PICK e : e \in S
        BY <3>2
      <4>2. S = {e}
        BY <2>1, <4>1, NowFields DEF Listening
      <4>3. Cardinality(S) = 1
        BY <4>2, FS_Singleton
      <4>. QED
        BY <4>3
    <3>. QED
      BY <3>1, <3>2
  <2>. QED
    BY <2>2, <2>3 DEF WaitersAccounted
<1>2. AInv => WaitersAccounted
  BY <1>1
<1>. QED
  BY <1>2, AccountInvariant, PTL

\* The four running totals the agent keeps by ++ and -- always equal what they
\* count, for any number of sessions, streams and keys.
THEOREM CountersAgree == Spec => []CountersExact
<1>1. ASSUME AInv PROVE CountersExact
  <2>1. /\ Now.sessionCount = sessionCount /\ Now.emptySessionCount = emptySessionCount
        /\ Now.kLength = kLength
    BY DEF Now
  <2>2. Accounted(Now, relay, {})
    BY <1>1 DEF AInv
  <2>3. sessionCount = Cardinality({e \in Entries : phase[e] \in {"connecting", "connected", "ready"}})
    BY <2>1, <2>2, NowFields DEF Accounted, Counted, InPhases
  <2>4. emptySessionCount = Cardinality(AllEmpties(Now))
    <3>1. \A e \in Entries : phase[e] = "ready" <=> \E p \in Options : e \in Listed(Now, p)
      BY <2>2, NowFields DEF Accounted, Listing
    <3>2. \A p \in Options : Listed(Now, p) \subseteq Entries
      BY <1>1, ListedEntries DEF AInv, IInv, Good
    <3>3. AllEmpties(Now) = Unused(Now)
      BY <3>1, <3>2, NowFields DEF AllEmpties, Empties, Unused
    <3>. QED
      BY <2>1, <2>2, <3>3 DEF Accounted, UnusedCounted
  <2>5. \A e \in Entries : currentStreamCount[e] =
          Cardinality({l \in Listeners : given[l] = e /\ status[l] \in {"streaming", "orphan"}})
    BY <2>2, NowFields DEF Accounted, Streaming, Streams
  <2>6. \A p \in Options : kLength[p] = Cardinality(InQueue(Now, p))
    BY <2>1, <2>2 DEF Accounted, Measured
  <2>. QED
    BY <2>3, <2>4, <2>5, <2>6 DEF CountersExact
<1>2. AInv => CountersExact
  BY <1>1
<1>. QED
  BY <1>2, AccountInvariant, PTL
=============================================================================
