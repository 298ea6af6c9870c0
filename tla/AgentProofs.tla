---------------------------- MODULE AgentProofs ----------------------------
(***************************************************************************)
(* Theorems about the session pool: its types, and that a covered session  *)
(* without streams is always closed.                                       *)
(*                                                                         *)
(* A helper of Agent maps a state to a state, so what it preserves is a    *)
(* lemma about the helper; an action composes these lemmas as it composes  *)
(* the helpers.                                                            *)
(***************************************************************************)
EXTENDS Agent, ListLemmas, FiniteSetTheorems

------------------------------------------------------------------------------
(* The inductive invariant, as predicates on a state of the agent.          *)

\* The second half of TypeOK: handlers index by the key of their entry.
Keyed(st) == \A e \in Entries :
  st.phase[e] \notin {"none", "closed"} => st.origin[e] # None /\ st.options[e] # None

\* e had a session and, unless that is destroyed, is still in the pool.
HasSession(st, e) ==
  /\ e \in Entries
  /\ st.phase[e] = "ready" \/ (st.phase[e] = "closed" /\ st.life[e] = "destroyed")

Pooled(st) == \A p \in Options :
  \A i \in 1..Len(st.sessions[p]) : HasSession(st, st.sessions[p][i])

Holding(st) == \A l \in Listeners :
  /\ st.given[l] # None => HasSession(st, st.given[l])
  /\ st.status[l] \in {"holding", "streaming", "orphan"} => st.given[l] # None

Relaying(st) == st.relay # None => st.phase[st.relay] = "ready"

Closing(st) == \A e \in st.gracefullyClosing :
  st.currentStreamCount[e] = 0 => st.life[e] # "open"

Good(st) ==
  /\ st \in StateType
  /\ Keyed(st) /\ Pooled(st) /\ Holding(st) /\ Relaying(st) /\ Closing(st)

IInv == Good(Now)

------------------------------------------------------------------------------
(* From states to actions.                                                  *)

LEMMA BecomeState == ASSUME NEW st, st \in StateType, Become(st) PROVE Now' = st
  BY DEF Become, Now, StateType

LEMMA BecomeGood == ASSUME NEW st, Good(st), Become(st) PROVE IInv'
<1>1. Now' = st
  BY BecomeState DEF Good
<1>. QED
  BY <1>1 DEF IInv

LEMMA BecomeOneOfGood ==
  ASSUME NEW S, \A st \in S : Good(st), BecomeOneOf(S)
  PROVE  IInv'
  BY BecomeGood DEF BecomeOneOf

------------------------------------------------------------------------------
(* Helpers that move no entry from one phase to another.                    *)

SameEntries(st, t) ==
  /\ t.phase = st.phase /\ t.origin = st.origin /\ t.options = st.options
  /\ t.sessions = st.sessions /\ t.relay = st.relay
  /\ \A e \in Entries : st.life[e] = "destroyed" => t.life[e] = "destroyed"

SameCallers(st, t) == t.status = st.status /\ t.given = st.given

LEMMA SameEntriesGood ==
  ASSUME NEW st, Good(st), NEW t \in StateType, SameEntries(st, t),
         Holding(t) \/ SameCallers(st, t), Closing(t)
  PROVE  Good(t)
<1>1. Keyed(t) /\ Relaying(t)
  BY DEF Good, SameEntries, Keyed, Relaying
<1>2. \A e : HasSession(st, e) => HasSession(t, e)
  BY DEF SameEntries, HasSession
<1>3. Pooled(t)
  BY <1>2 DEF Good, SameEntries, Pooled
<1>4. CASE Holding(t)
  BY <1>1, <1>3, <1>4 DEF Good
<1>5. CASE SameCallers(st, t)
  <2>1. Holding(t)
    BY <1>2, <1>5 DEF Good, SameCallers, Holding
  <2>. QED
    BY <1>1, <1>3, <2>1 DEF Good
<1>. QED
  BY <1>4, <1>5

LEMMA DestroyGood ==
  ASSUME NEW st, Good(st), NEW S
  PROVE  Good(Destroy(st, S)) /\ SameEntries(st, Destroy(st, S)) /\ SameCallers(st, Destroy(st, S))
<1>. DEFINE t == Destroy(st, S)
<1>1. t \in StateType
  BY DEF Good, Destroy, StateType
<1>2. SameEntries(st, t) /\ SameCallers(st, t)
  BY DEF Good, Destroy, StateType, SameEntries, SameCallers
<1>3. Closing(t)
  BY DEF Good, Destroy, StateType, Closing
<1>. QED
  BY <1>1, <1>2, <1>3, SameEntriesGood

LEMMA CloseGood ==
  ASSUME NEW st, Good(st), NEW S
  PROVE  Good(Close(st, S)) /\ SameEntries(st, Close(st, S)) /\ SameCallers(st, Close(st, S))
<1>. DEFINE t == Close(st, S)
<1>1. t \in StateType
  <2>1. [e \in Entries |->
          IF e \notin S \/ st.life[e] # "open" THEN st.life[e]
          ELSE IF st.currentStreamCount[e] = 0 THEN "destroyed" ELSE "closed"]
          \in [Entries -> {"open", "closed", "destroyed"}]
    BY DEF Good, StateType
  <2>. QED
    BY <2>1 DEF Good, Close, StateType
<1>2. SameEntries(st, t) /\ SameCallers(st, t)
  BY DEF Good, Close, StateType, SameEntries, SameCallers
<1>3. Closing(t)
  BY DEF Good, Close, StateType, Closing
<1>. QED
  BY <1>1, <1>2, <1>3, SameEntriesGood

\* The only helper that adds covered sessions closes those without streams.
LEMMA GracefullyCloseGood ==
  ASSUME NEW st, Good(st), NEW S, S \subseteq Entries
  PROVE  /\ Good(GracefullyClose(st, S))
         /\ SameEntries(st, GracefullyClose(st, S)) /\ SameCallers(st, GracefullyClose(st, S))
<1>. DEFINE u == [st EXCEPT !.gracefullyClosing = @ \cup S]
            t == GracefullyClose(st, S)
            E == {e \in S : st.currentStreamCount[e] = 0}
            closed == [e \in Entries |->
              IF e \notin E \/ st.life[e] # "open" THEN st.life[e]
              ELSE IF st.currentStreamCount[e] = 0 THEN "destroyed" ELSE "closed"]
<1>1. t = [u EXCEPT !.life = closed]
  BY DEF Good, GracefullyClose, Close, StateType
<1>2. closed \in [Entries -> {"open", "closed", "destroyed"}]
  BY DEF Good, StateType
<1>3. t \in StateType
  <2>. HIDE DEF closed, t
  <2>. QED
    BY <1>1, <1>2 DEF Good, StateType
<1>4. /\ t.phase = st.phase /\ t.origin = st.origin /\ t.options = st.options
      /\ t.sessions = st.sessions /\ t.relay = st.relay /\ t.life = closed
      /\ t.status = st.status /\ t.given = st.given
      /\ t.gracefullyClosing = st.gracefullyClosing \cup S
      /\ t.currentStreamCount = st.currentStreamCount
  <2>. HIDE DEF closed, t
  <2>. QED
    BY <1>1 DEF Good, StateType
<1>5. SameEntries(st, t) /\ SameCallers(st, t)
  BY <1>4 DEF SameEntries, SameCallers
<1>6. Closing(t)
  <2>1. SUFFICES ASSUME NEW e \in st.gracefullyClosing \cup S, st.currentStreamCount[e] = 0
                 PROVE  closed[e] # "open"
    BY <1>4 DEF Closing
  <2>2. e \in Entries
    BY DEF Good, StateType
  <2>3. CASE e \in S
    BY <2>1, <2>2, <2>3
  <2>4. CASE e \in st.gracefullyClosing
    BY <2>1, <2>2, <2>4 DEF Good, Closing
  <2>. QED
    BY <2>1, <2>3, <2>4
<1>. QED
  BY <1>3, <1>5, <1>6, SameEntriesGood

LEMMA RejectGood ==
  ASSUME NEW st, Good(st), NEW T
  PROVE  Good(Reject(st, T)) /\ SameEntries(st, Reject(st, T))
<1>. DEFINE t == Reject(st, T)
            rejected == [l \in Listeners |->
              IF l \in T /\ st.status[l] = "waiting" THEN "rejected" ELSE st.status[l]]
<1>1. t = [st EXCEPT !.status = rejected]
  BY DEF Reject
<1>2. rejected \in [Listeners -> Statuses]
  BY DEF Good, StateType, Statuses
<1>3. /\ t \in StateType
      /\ SameEntries(st, t) /\ t.status = rejected /\ t.given = st.given
      /\ t.gracefullyClosing = st.gracefullyClosing
      /\ t.currentStreamCount = st.currentStreamCount /\ t.life = st.life
  <2>. HIDE DEF rejected, t
  <2>. QED
    BY <1>1, <1>2 DEF Good, StateType, SameEntries
<1>4. Closing(t)
  BY <1>3 DEF Good, Closing
<1>5. \A e : HasSession(st, e) => HasSession(t, e)
  BY <1>3 DEF SameEntries, HasSession
<1>6. Holding(t)
  <2>. HIDE DEF t
  <2>. QED
    BY <1>3, <1>5 DEF Good, Holding
<1>. QED
  BY <1>3, <1>4, <1>6, SameEntriesGood

LEMMA OpenedFinite ==
  ASSUME NEW st, NEW e, NEW T
  PROVE  Cardinality(Opened(st, e, T)) \in Nat
<1>1. Opened(st, e, T) \subseteq Listeners
  BY ListenersAssumption DEF Opened
<1>. QED
  BY <1>1, ListenersAssumption, FS_Subset, FS_CardinalityType

\* Streams open on sessions that take them: never on a covered one.
LEMMA OpenStreamsGood ==
  ASSUME NEW st, Good(st), NEW e \in Entries, NEW n \in Nat, n = 0 \/ Accepting(st, e)
  PROVE  /\ Good(OpenStreams(st, e, n))
         /\ SameEntries(st, OpenStreams(st, e, n)) /\ SameCallers(st, OpenStreams(st, e, n))
<1>. DEFINE t == OpenStreams(st, e, n)
            streams == [st.currentStreamCount EXCEPT ![e] = @ + n]
            empty == IF st.currentStreamCount[e] = 0 /\ n > 0
                     THEN st.emptySessionCount - 1 ELSE st.emptySessionCount
<1>1. t = [[st EXCEPT !.currentStreamCount = streams] EXCEPT !.emptySessionCount = empty]
  BY DEF OpenStreams, Good, StateType
<1>2. streams \in [Entries -> Int] /\ empty \in Int
  BY DEF Good, StateType
<1>3. /\ t \in StateType /\ SameEntries(st, t) /\ SameCallers(st, t)
      /\ t.gracefullyClosing = st.gracefullyClosing
      /\ t.currentStreamCount = streams /\ t.life = st.life
  <2>. HIDE DEF streams, empty, t
  <2>. QED
    BY <1>1, <1>2 DEF Good, StateType, SameEntries, SameCallers
<1>4. Closing(t)
  <2>1. SUFFICES ASSUME NEW x \in st.gracefullyClosing, streams[x] = 0
                 PROVE  st.life[x] # "open"
    BY <1>3 DEF Closing
  <2>2. x \in Entries
    BY DEF Good, StateType
  <2>3. st.currentStreamCount[x] = 0
    BY <2>1, <2>2 DEF Good, StateType, Accepting
  <2>. QED
    BY <2>3 DEF Good, Closing
<1>. QED
  BY <1>3, <1>4, SameEntriesGood

LEMMA ServeGood ==
  ASSUME NEW st, Good(st), NEW e, HasSession(st, e), NEW T
  PROVE  Good(Serve(st, e, T)) /\ SameEntries(st, Serve(st, e, T))
<1>. DEFINE n == Cardinality(Opened(st, e, T))
            u == OpenStreams(st, e, n)
            served == [l \in Listeners |-> IF l \in T THEN StatusOffered(st, e, l) ELSE st.status[l]]
            gave == [l \in Listeners |-> IF l \in T THEN e ELSE st.given[l]]
            t == Serve(st, e, T)
<1>1. e \in Entries
  BY DEF HasSession
<1>2. n \in Nat /\ (n = 0 \/ Accepting(st, e))
  <2>1. ~Accepting(st, e) => Opened(st, e, T) = {}
    BY DEF Opened
  <2>. QED
    BY <2>1, OpenedFinite, FS_EmptySet
<1>3. Good(u) /\ SameEntries(st, u) /\ SameCallers(st, u)
  BY <1>1, <1>2, OpenStreamsGood
<1>4. t = [[u EXCEPT !.status = served] EXCEPT !.given = gave]
  BY DEF Serve
<1>5. served \in [Listeners -> Statuses] /\ gave \in [Listeners -> Entries \cup {None}]
  <2>1. \A l \in Listeners : StatusOffered(st, e, l) \in Statuses
    BY DEF StatusOffered, Statuses
  <2>2. st.status \in [Listeners -> Statuses] /\ st.given \in [Listeners -> Entries \cup {None}]
    BY DEF Good, StateType
  <2>. QED
    BY <1>1, <2>1, <2>2
<1>6. /\ t \in StateType /\ SameEntries(u, t)
      /\ t.gracefullyClosing = u.gracefullyClosing
      /\ t.currentStreamCount = u.currentStreamCount /\ t.life = u.life
      /\ t.status = served /\ t.given = gave
  <2>. HIDE DEF served, gave, u, t
  <2>. QED
    BY <1>3, <1>4, <1>5 DEF Good, StateType, SameEntries
<1>. HIDE DEF u, t
<1>7. Closing(t)
  BY <1>3, <1>6 DEF Good, Closing
<1>8. SameEntries(st, t)
  BY <1>3, <1>6 DEF SameEntries
<1>9. \A x : HasSession(st, x) => HasSession(t, x)
  BY <1>8 DEF SameEntries, HasSession
<1>10. Holding(t)
  <2>1. SUFFICES ASSUME NEW l \in Listeners
                 PROVE  /\ gave[l] # None => HasSession(t, gave[l])
                        /\ served[l] \in {"holding", "streaming", "orphan"} => gave[l] # None
    BY <1>6 DEF Holding
  <2>2. CASE l \in T
    BY <1>1, <1>9, <2>2, NoneAssumption
  <2>3. CASE l \notin T
    BY <1>9, <2>3 DEF Good, Holding
  <2>. QED
    BY <2>2, <2>3
<1>. QED
  BY <1>3, <1>6, <1>7, <1>8, <1>10, SameEntriesGood DEF t
------------------------------------------------------------------------------
(* The queue.                                                               *)

LEMMA UnqueueGood ==
  ASSUME NEW st, Good(st), NEW p \in Options, NEW D, D \subseteq Entries
  PROVE  /\ Good(Unqueue(st, p, D))
         /\ SameEntries(st, Unqueue(st, p, D)) /\ SameCallers(st, Unqueue(st, p, D))
<1>. DEFINE t == Unqueue(st, p, D)
            left == st.kLength[p] - Cardinality(D)
            map == [o \in Origins |->
                     IF left = 0 \/ st.queue[p][o] \in D THEN None ELSE st.queue[p][o]]
            lengths == [st.kLength EXCEPT ![p] = left]
            maps == [st.queue EXCEPT ![p] = map]
<1>1. t = [[st EXCEPT !.kLength = lengths] EXCEPT !.queue = maps]
  BY DEF Unqueue, Good, StateType
<1>2. lengths \in [Options -> Int]
  <2>1. Cardinality(D) \in Nat
    BY EntriesAssumption, FS_Subset, FS_CardinalityType
  <2>. QED
    BY <2>1 DEF Good, StateType
<1>3. maps \in [Options -> [Origins -> Entries \cup {None}]]
  <2>1. st.queue \in [Options -> [Origins -> Entries \cup {None}]]
    BY DEF Good, StateType
  <2>2. map \in [Origins -> Entries \cup {None}]
    BY <2>1
  <2>. QED
    BY <2>1, <2>2
<1>4. /\ t \in StateType /\ SameEntries(st, t) /\ SameCallers(st, t)
      /\ t.gracefullyClosing = st.gracefullyClosing
      /\ t.currentStreamCount = st.currentStreamCount /\ t.life = st.life
  <2>. HIDE DEF lengths, maps, t
  <2>. QED
    BY <1>1, <1>2, <1>3 DEF Good, StateType, SameEntries, SameCallers
<1>5. Closing(t)
  BY <1>4 DEF Good, Closing
<1>. QED
  BY <1>4, <1>5, SameEntriesGood

LEMMA InQueueEntries ==
  ASSUME NEW st \in StateType, NEW p \in Options
  PROVE  InQueue(st, p) \subseteq Entries
  BY DEF InQueue, StateType

LEMMA RemoveFromQueueGood ==
  ASSUME NEW st, Good(st), NEW e, st.options[e] \in Options
  PROVE  /\ Good(RemoveFromQueue(st, e))
         /\ SameEntries(st, RemoveFromQueue(st, e)) /\ SameCallers(st, RemoveFromQueue(st, e))
<1>1. {e} \cap InQueue(st, st.options[e]) \subseteq Entries
  BY InQueueEntries DEF Good
<1>. QED
  BY <1>1, UnqueueGood DEF RemoveFromQueue

\* Entries that had a session are forgotten only once it is destroyed.
LEMMA ForgetGood ==
  ASSUME NEW st, Good(st), NEW D, D \subseteq Entries, NEW ph \in {"none", "closed"},
         st.relay \notin D,
         \A e \in D : HasSession(st, e) => ph = "closed" /\ st.life[e] = "destroyed"
  PROVE  Good(Forget(st, D, ph))
<1>. DEFINE t == Forget(st, D, ph)
<1>1. /\ t.phase = [e \in Entries |-> IF e \in D THEN ph ELSE st.phase[e]]
      /\ t.origin = [e \in Entries |-> IF e \in D THEN None ELSE st.origin[e]]
      /\ t.options = [e \in Entries |-> IF e \in D THEN None ELSE st.options[e]]
      /\ t.sessions = st.sessions /\ t.relay = st.relay /\ t.life = st.life
      /\ t.status = st.status /\ t.given = st.given
      /\ t.gracefullyClosing = st.gracefullyClosing \ D
      /\ t.currentStreamCount = st.currentStreamCount
  BY DEF Forget, Good, StateType
<1>2. t \in StateType
  BY DEF Forget, Good, StateType, Phases
<1>. HIDE DEF t
<1>3. \A e : HasSession(st, e) => HasSession(t, e)
  BY <1>1 DEF HasSession
<1>4. Keyed(t)
  BY <1>1 DEF Good, Keyed
<1>5. Pooled(t)
  BY <1>1, <1>3 DEF Good, Pooled
<1>6. Holding(t)
  BY <1>1, <1>3 DEF Good, Holding
<1>7. Relaying(t)
  BY <1>1 DEF Good, StateType, Relaying
<1>8. Closing(t)
  BY <1>1 DEF Good, Closing
<1>. QED
  BY <1>2, <1>4, <1>5, <1>6, <1>7, <1>8 DEF Good, t
\* What is left to prove of a step that touches neither entries nor callers.
SameSessions(st, t) ==
  /\ t.gracefullyClosing \subseteq st.gracefullyClosing
  /\ t.currentStreamCount = st.currentStreamCount /\ t.life = st.life

LEMMA SameSessionsGood ==
  ASSUME NEW st, Good(st), NEW t \in StateType,
         SameEntries(st, t), SameCallers(st, t), SameSessions(st, t)
  PROVE  Good(t)
<1>1. Closing(t)
  BY DEF Good, SameSessions, Closing
<1>. QED
  BY <1>1, SameEntriesGood

LEMMA ListenersGood ==
  ASSUME NEW st, Good(st), NEW L \in [Entries -> SUBSET Listeners]
  PROVE  /\ Good([st EXCEPT !.listeners = L])
         /\ SameEntries(st, [st EXCEPT !.listeners = L])
         /\ SameCallers(st, [st EXCEPT !.listeners = L])
<1>. DEFINE t == [st EXCEPT !.listeners = L]
<1>1. t \in StateType /\ SameEntries(st, t) /\ SameCallers(st, t) /\ SameSessions(st, t)
  BY DEF Good, StateType, SameEntries, SameCallers, SameSessions
<1>. QED
  BY <1>1, SameSessionsGood

LEMMA ReadyKeyed ==
  ASSUME NEW st, Good(st), NEW e \in Entries, st.phase[e] \notin {"none", "closed"}
  PROVE  st.options[e] \in Options /\ st.origin[e] \in Origins
  BY DEF Good, StateType, Keyed

LEMMA ListedEntries ==
  ASSUME NEW st \in StateType, NEW p \in Options
  PROVE  Listed(st, p) \subseteq Entries
<1>1. st.sessions[p] \in Seq(Entries)
  BY DEF StateType
<1>. QED
  BY <1>1, ElementOfSeq DEF Listed, ToSet

\* The entries dropped from the queue had not run, so none had a session.
LEMMA ProcessListenersGood ==
  ASSUME NEW st, Good(st), NEW e \in Entries, st.phase[e] = "ready", NEW T
  PROVE  /\ Good(ProcessListeners(st, e, T))
         /\ ProcessListeners(st, e, T).phase[e] = "ready"
<1>. DEFINE p == st.options[e]
            C == Candidates(st, e)
            D == Emptied(st, e, T)
            u == Serve(st, e, T)
            L == [x \in Entries |-> IF x \in C THEN st.listeners[x] \ T ELSE st.listeners[x]]
            v == [u EXCEPT !.listeners = L]
            w == Unqueue(v, p, D)
            t == Forget(w, D, "none")
<1>1. p \in Options
  BY ReadyKeyed
<1>2. C \subseteq Entries
  BY <1>1 DEF Good, StateType, Candidates
<1>3. D \subseteq Entries /\ \A x \in D : st.phase[x] = "queued"
  BY <1>2 DEF Emptied
<1>4. Good(u) /\ SameEntries(st, u)
  BY ServeGood DEF HasSession
<1>5. L \in [Entries -> SUBSET Listeners]
  BY DEF Good, StateType
<1>6. Good(v) /\ SameEntries(u, v)
  <2>. HIDE DEF u, L
  <2>. QED
    BY <1>4, <1>5, ListenersGood
<1>7. Good(w) /\ SameEntries(v, w)
  <2>. HIDE DEF v, D, p
  <2>. QED
    BY <1>1, <1>3, <1>6, UnqueueGood
<1>8. w.phase = st.phase /\ w.relay = st.relay
  <2>. HIDE DEF u, v, w
  <2>. QED
    BY <1>4, <1>6, <1>7 DEF SameEntries
<1>9. ProcessListeners(st, e, T) = t
  BY DEF ProcessListeners
<1>. HIDE DEF u, v, w, D
<1>10. w.relay \notin D
  BY <1>3, <1>8, NoneAssumption DEF Good, StateType, Relaying
<1>11. \A x \in D : ~HasSession(w, x)
  BY <1>3, <1>8 DEF HasSession
<1>12. Good(t)
  BY <1>3, <1>7, <1>10, <1>11, ForgetGood
<1>13. t.phase[e] = "ready"
  <2>1. t.phase = [x \in Entries |-> IF x \in D THEN "none" ELSE w.phase[x]]
    BY <1>7 DEF Forget, Good, StateType
  <2>. HIDE DEF t
  <2>. QED
    BY <1>3, <1>8, <2>1
<1>. QED
  BY <1>9, <1>12, <1>13

LEMMA CloseCoveredSessionsGood ==
  ASSUME NEW st, Good(st), NEW e \in Entries, st.phase[e] = "ready"
  PROVE  /\ Good(CloseCoveredSessions(st, e))
         /\ SameEntries(st, CloseCoveredSessions(st, e))
<1>1. Listed(st, st.options[e]) \subseteq Entries
  BY ReadyKeyed, ListedEntries DEF Good
<1>2. {c \in Listed(st, st.options[e]) : Covers(st, e, c)} \subseteq Entries
  BY <1>1
<1>. QED
  BY <1>2, GracefullyCloseGood DEF CloseCoveredSessions

LEMMA CloseSessionIfCoveredGood ==
  ASSUME NEW st, Good(st), NEW e \in Entries
  PROVE  /\ Good(CloseSessionIfCovered(st, e))
         /\ SameEntries(st, CloseSessionIfCovered(st, e))
<1>1. CASE IsCovered(st, e)
  BY <1>1, GracefullyCloseGood DEF CloseSessionIfCovered
<1>2. CASE ~IsCovered(st, e)
  BY <1>2 DEF CloseSessionIfCovered, SameEntries
<1>. QED
  BY <1>1, <1>2
LEMMA SessionCountGood ==
  ASSUME NEW st, Good(st), NEW n \in Int
  PROVE  /\ Good([st EXCEPT !.sessionCount = n])
         /\ SameEntries(st, [st EXCEPT !.sessionCount = n])
         /\ SameCallers(st, [st EXCEPT !.sessionCount = n])
<1>. DEFINE t == [st EXCEPT !.sessionCount = n]
<1>1. t \in StateType /\ SameEntries(st, t) /\ SameCallers(st, t) /\ SameSessions(st, t)
  BY DEF Good, StateType, SameEntries, SameCallers, SameSessions
<1>. QED
  BY <1>1, SameSessionsGood

LEMMA CloseEmptySessionsGood ==
  ASSUME NEW st, Good(st), NEW n
  PROVE  \A t \in CloseEmptySessions(st, n) : Good(t)
  BY CloseGood DEF CloseEmptySessions

LEMMA StartEntriesGood == ASSUME NEW st, Good(st) PROVE Good(StartEntries(st))
<1>. DEFINE starting == {e \in UNION {InQueue(st, p) : p \in Options} : st.phase[e] = "queued"}
            started == [e \in Entries |-> IF e \in starting THEN "connecting" ELSE st.phase[e]]
            n == st.sessionCount + Cardinality(starting)
            u == [st EXCEPT !.sessionCount = n]
            t == StartEntries(st)
<1>1. n \in Int
  <2>1. starting \subseteq Entries
    BY InQueueEntries DEF Good
  <2>2. Cardinality(starting) \in Nat
    BY <2>1, EntriesAssumption, FS_Subset, FS_CardinalityType
  <2>. QED
    BY <2>2 DEF Good, StateType
<1>2. Good(u) /\ SameEntries(st, u)
  <2>. HIDE DEF n
  <2>. QED
    BY <1>1, SessionCountGood
<1>3. t = [u EXCEPT !.phase = started]
  BY DEF StartEntries, Good, StateType
<1>4. started \in [Entries -> Phases]
  BY DEF Good, StateType, Phases
<1>5. /\ t \in StateType
      /\ t.phase = started /\ t.origin = u.origin /\ t.options = u.options
      /\ t.sessions = u.sessions /\ t.relay = u.relay /\ t.life = u.life
      /\ t.status = u.status /\ t.given = u.given
      /\ t.gracefullyClosing = u.gracefullyClosing
      /\ t.currentStreamCount = u.currentStreamCount
  <2>. HIDE DEF started, u, t
  <2>. QED
    BY <1>2, <1>3, <1>4 DEF Good, StateType
<1>6. \A e \in Entries : \/ started[e] = u.phase[e]
                         \/ started[e] = "connecting" /\ u.phase[e] = "queued"
  <2>1. u.phase = st.phase
    BY <1>2 DEF SameEntries
  <2>. HIDE DEF u
  <2>. QED
    BY <2>1
<1>. HIDE DEF started, u, t
<1>7. \A e : HasSession(u, e) => HasSession(t, e)
  BY <1>5, <1>6 DEF HasSession
<1>8. Keyed(t)
  BY <1>2, <1>5, <1>6 DEF Good, Keyed
<1>9. Pooled(t) /\ Holding(t)
  BY <1>2, <1>5, <1>7 DEF Good, Pooled, Holding
<1>10. Relaying(t)
  <2>1. u.relay # None => u.relay \in Entries /\ u.phase[u.relay] = "ready"
    BY <1>2 DEF Good, StateType, Relaying
  <2>. QED
    BY <1>5, <1>6, <2>1 DEF Relaying
<1>11. Closing(t)
  BY <1>2, <1>5 DEF Good, Closing
<1>. QED
  BY <1>5, <1>8, <1>9, <1>10, <1>11 DEF Good, t

LEMMA ProcessQueueGood ==
  ASSUME NEW st, Good(st)
  PROVE  \A t \in ProcessQueue(st) : Good(t)
  BY CloseEmptySessionsGood, StartEntriesGood DEF ProcessQueue

LEMMA AfterAcceptGood ==
  ASSUME NEW st, Good(st), NEW e
  PROVE  \A t \in AfterAccept(st, e) : Good(t)
  BY CloseEmptySessionsGood DEF AfterAccept

LEMMA EnqueueGood ==
  ASSUME NEW st, Good(st), NEW o \in Origins, NEW p \in Options, NEW T \in SUBSET Listeners
  PROVE  \A t \in Enqueue(st, o, p, T) : Good(t)
<1>. DEFINE joined == st.queue[p][o]
            S == [l \in Listeners |->
                   IF l \in T /\ st.status[l] = "idle" THEN "waiting" ELSE st.status[l]]
            waiting == [st EXCEPT !.status = S]
<1>1. S \in [Listeners -> Statuses]
  BY DEF Good, StateType, Statuses
<1>2. /\ waiting \in StateType /\ SameEntries(st, waiting) /\ SameSessions(st, waiting)
      /\ waiting.status = S /\ waiting.given = st.given /\ waiting.queue = st.queue
  <2>. HIDE DEF S
  <2>. QED
    BY <1>1 DEF Good, StateType, SameEntries, SameSessions
<1>3. Closing(waiting)
  <2>. HIDE DEF waiting
  <2>. QED
    BY <1>2 DEF Good, SameSessions, Closing
<1>4. Good(waiting)
  <2>. HIDE DEF waiting
  <2>1. \A x : HasSession(st, x) => HasSession(waiting, x)
    BY <1>2 DEF SameEntries, HasSession
  <2>2. Holding(waiting)
    BY <1>2, <2>1 DEF Good, Holding
  <2>. QED
    BY <1>2, <1>3, <2>2, SameEntriesGood
<1>. HIDE DEF waiting
<1>5. CASE joined # None
  <2>1. joined \in Entries
    BY <1>5 DEF Good, StateType
  <2>2. Enqueue(st, o, p, T) = {Join(waiting, joined, T)}
    BY <1>5 DEF Enqueue, waiting
  <2>. DEFINE L == [waiting.listeners EXCEPT ![joined] = @ \cup T]
  <2>3. Join(waiting, joined, T) = [waiting EXCEPT !.listeners = L]
    BY <1>2 DEF Join, StateType
  <2>4. L \in [Entries -> SUBSET Listeners]
    BY <1>2, <2>1 DEF StateType
  <2>5. Good(Join(waiting, joined, T))
    <3>. HIDE DEF L
    <3>. QED
      BY <1>4, <2>3, <2>4, ListenersGood
  <2>. QED
    BY <2>2, <2>5
<1>6. CASE joined = None
  <2>. DEFINE new(e) == [waiting EXCEPT
                   !.queue[p][o] = e, !.kLength[p] = @ + 1, !.origin[e] = o, !.options[e] = p,
                   !.listeners[e] = T, !.phase[e] = "queued"]
  <2>1. Enqueue(st, o, p, T) = UNION {ProcessQueue(new(e))
                   : e \in {f \in Fresh(st) : \A g \in Fresh(st) : f <= g}}
    BY <1>6 DEF Enqueue, waiting
  <2>2. ASSUME NEW e \in Fresh(st) PROVE Good(new(e))
    <3>. DEFINE t == new(e)
                or == [waiting.origin EXCEPT ![e] = o]
                op == [waiting.options EXCEPT ![e] = p]
                ph == [waiting.phase EXCEPT ![e] = "queued"]
    <3>1. e \in Entries /\ waiting.phase[e] = "none"
      BY <1>2 DEF Fresh, SameEntries
    <3>2. /\ waiting.phase \in [Entries -> Phases]
          /\ waiting.origin \in [Entries -> Origins \cup {None}]
          /\ waiting.options \in [Entries -> Options \cup {None}]
          /\ waiting.relay \in Entries \cup {None}
      BY <1>2 DEF StateType
    <3>3. /\ t \in StateType
          /\ t.phase = ph /\ t.origin = or /\ t.options = op
          /\ t.sessions = waiting.sessions /\ t.relay = waiting.relay
          /\ t.life = waiting.life
          /\ t.status = waiting.status /\ t.given = waiting.given
          /\ t.gracefullyClosing = waiting.gracefullyClosing
          /\ t.currentStreamCount = waiting.currentStreamCount
      <4>. DEFINE Q == [waiting.queue EXCEPT ![p][o] = e]
                  K == [waiting.kLength EXCEPT ![p] = @ + 1]
                  L == [waiting.listeners EXCEPT ![e] = T]
      <4>1. t = [[[[[[waiting EXCEPT !.queue = Q] EXCEPT !.kLength = K] EXCEPT !.origin = or]
                 EXCEPT !.options = op] EXCEPT !.listeners = L] EXCEPT !.phase = ph]
        BY <1>2 DEF StateType
      <4>2. Q \in [Options -> [Origins -> Entries \cup {None}]]
        BY <1>2, <3>1 DEF StateType
      <4>3. /\ K \in [Options -> Int] /\ L \in [Entries -> SUBSET Listeners]
            /\ or \in [Entries -> Origins \cup {None}] /\ op \in [Entries -> Options \cup {None}]
        BY <1>2, <3>1 DEF StateType
      <4>4. ph \in [Entries -> Phases]
        BY <3>1, <3>2 DEF Phases
      <4>. HIDE DEF Q, K, L, or, op, ph, t
      <4>. QED
        BY <1>2, <4>1, <4>2, <4>3, <4>4 DEF StateType
    <3>. HIDE DEF t
    <3>4. \A x : HasSession(waiting, x) => HasSession(t, x)
      BY <3>1, <3>2, <3>3 DEF HasSession
    <3>5. Keyed(t)
      BY <1>4, <3>1, <3>2, <3>3, NoneAssumption DEF Good, Keyed
    <3>6. Pooled(t) /\ Holding(t)
      BY <1>4, <3>3, <3>4 DEF Good, Pooled, Holding
    <3>7. Relaying(t)
      BY <1>4, <3>1, <3>2, <3>3 DEF Good, Relaying
    <3>8. Closing(t)
      BY <1>4, <3>3 DEF Good, Closing
    <3>. QED
      BY <3>3, <3>5, <3>6, <3>7, <3>8 DEF Good, t
  <2>. HIDE DEF new
  <2>. QED
    BY <2>1, <2>2, ProcessQueueGood
<1>. QED
  BY <1>5, <1>6
------------------------------------------------------------------------------
(* The actions.                                                             *)

LEMMA NowFields ==
  /\ Now.sessions = sessions /\ Now.origin = origin /\ Now.options = options
  /\ Now.listeners = listeners /\ Now.phase = phase /\ Now.life = life
  /\ Now.relay = relay /\ Now.status = status /\ Now.given = given
  /\ Now.currentStreamCount = currentStreamCount /\ Now.gracefullyClosing = gracefullyClosing
  BY DEF Now

LEMMA StatusGood ==
  ASSUME NEW st, Good(st), NEW l \in Listeners, NEW s \in Statuses,
         s \in {"holding", "streaming", "orphan"} => st.given[l] # None
  PROVE  Good([st EXCEPT !.status[l] = s])
<1>. DEFINE S == [st.status EXCEPT ![l] = s]
            t == [st EXCEPT !.status = S]
<1>1. S \in [Listeners -> Statuses]
  BY DEF Good, StateType
<1>2. /\ t \in StateType /\ SameEntries(st, t) /\ SameSessions(st, t)
      /\ t.status = S /\ t.given = st.given
  <2>. HIDE DEF S
  <2>. QED
    BY <1>1 DEF Good, StateType, SameEntries, SameSessions
<1>3. [st EXCEPT !.status[l] = s] = t
  BY DEF Good, StateType
<1>. HIDE DEF t
<1>4. \A x : HasSession(st, x) => HasSession(t, x)
  BY <1>2 DEF SameEntries, HasSession
<1>5. Holding(t)
  BY <1>2, <1>4 DEF Good, StateType, Holding
<1>6. Closing(t)
  BY <1>2 DEF Good, SameSessions, Closing
<1>. QED
  BY <1>2, <1>3, <1>5, <1>6, SameEntriesGood

LEMMA ListedHasSession ==
  ASSUME IInv, NEW p \in Options, NEW i \in 1..Len(sessions[p])
  PROVE  HasSession(Now, sessions[p][i])
  BY NowFields DEF IInv, Good, Pooled

LEMMA GetSessionIInv ==
  ASSUME IInv, NEW l \in Listeners, NEW o \in Origins, NEW p \in Options, GetSession(l, o, p)
  PROVE  IInv'
<1>1. CASE AvailableAt(Now, o, p) # {}
  <2>1. PICK i \in AvailableAt(Now, o, p) : Become(Serve(Now, sessions[p][i], {l}))
    BY <1>1 DEF GetSession
  <2>2. HasSession(Now, sessions[p][i])
    BY ListedHasSession, NowFields DEF AvailableAt
  <2>. QED
    BY <2>1, <2>2, ServeGood, BecomeGood DEF IInv
<1>2. CASE AvailableAt(Now, o, p) = {}
  <2>1. BecomeOneOf(Enqueue(Now, o, p, {l}))
    BY <1>2 DEF GetSession
  <2>. QED
    BY <2>1, EnqueueGood, BecomeOneOfGood DEF IInv
<1>. QED
  BY <1>1, <1>2

LEMMA RejectServernameIInv ==
  ASSUME IInv, NEW l \in Listeners, RejectServername(l)
  PROVE  IInv'
<1>1. Good([Now EXCEPT !.status[l] = "rejected"])
  BY StatusGood DEF IInv, Statuses
<1>. QED
  BY <1>1, BecomeGood DEF RejectServername

LEMMA UserRequestIInv ==
  ASSUME IInv, NEW l \in Listeners, UserRequest(l)
  PROVE  IInv'
<1>. DEFINE e == given[l]
<1>1. e # None /\ e \in Entries
  BY NowFields DEF UserRequest, IInv, Good, Holding, HasSession
<1>2. CASE Accepting(Now, e)
  <2>. DEFINE u == OpenStreams(Now, e, 1)
  <2>1. Good(u) /\ SameCallers(Now, u)
    BY <1>1, <1>2, OpenStreamsGood DEF IInv
  <2>2. u.given[l] # None
    BY <1>1, <2>1, NowFields DEF SameCallers
  <2>3. Good([u EXCEPT !.status[l] = "streaming"])
    <3>. HIDE DEF u
    <3>. QED
      BY <2>1, <2>2, StatusGood DEF Statuses
  <2>. QED
    BY <1>2, <2>3, BecomeGood DEF UserRequest
<1>3. CASE ~Accepting(Now, e)
  <2>1. Good([Now EXCEPT !.status[l] = "refused"])
    BY StatusGood DEF IInv, Statuses
  <2>. QED
    BY <1>3, <2>1, BecomeGood DEF UserRequest
<1>. QED
  BY <1>2, <1>3

LEMMA CloseEmptyIInv == ASSUME IInv, CloseEmpty PROVE IInv'
  BY CloseEmptySessionsGood, BecomeOneOfGood DEF IInv, CloseEmpty

LEMMA AgentDestroyIInv == ASSUME IInv, AgentDestroy PROVE IInv'
<1>. DEFINE u == Destroy(Now, UNION {Listed(Now, p) : p \in Options})
            D == u.destroyed \cup UNION {InQueue(Now, p) : p \in Options}
            Q == [p \in Options |-> [o \in Origins |-> None]]
            K == [p \in Options |-> 0]
            t == [u EXCEPT !.destroyed = D, !.queue = Q, !.kLength = K]
<1>1. Good(u)
  BY DestroyGood DEF IInv
<1>2. D \subseteq Entries
  <2>1. u.destroyed \subseteq Entries
    <3>. HIDE DEF u
    <3>. QED
      BY <1>1 DEF Good, StateType
  <2>. QED
    BY <2>1, InQueueEntries DEF IInv, Good
<1>3. Q \in [Options -> [Origins -> Entries \cup {None}]] /\ K \in [Options -> Int]
  OBVIOUS
<1>4. /\ t \in StateType /\ SameEntries(u, t) /\ SameCallers(u, t) /\ SameSessions(u, t)
  <2>. HIDE DEF u, D, Q, K
  <2>. QED
    BY <1>1, <1>2, <1>3 DEF Good, StateType, SameEntries, SameCallers, SameSessions
<1>5. Good(t)
  <2>. HIDE DEF u, t
  <2>. QED
    BY <1>1, <1>4, SameSessionsGood
<1>. QED
  BY <1>5, BecomeGood DEF AgentDestroy

LEMMA ConnectedIInv == ASSUME IInv, NEW e \in Entries, Connected(e) PROVE IInv'
<1>. DEFINE ph == [phase EXCEPT ![e] = "connected"]
            t == [Now EXCEPT !.phase = ph]
<1>1. phase \in [Entries -> Phases] /\ phase[e] = "connecting" /\ relay = None
  BY NowFields DEF IInv, Good, StateType, Connected
<1>2. ph \in [Entries -> Phases]
  BY <1>1 DEF Phases
<1>3. /\ t \in StateType /\ t.phase = ph /\ t.origin = Now.origin /\ t.options = Now.options
      /\ t.sessions = Now.sessions /\ t.relay = Now.relay /\ t.life = Now.life
      /\ t.status = Now.status /\ t.given = Now.given
      /\ t.gracefullyClosing = Now.gracefullyClosing
      /\ t.currentStreamCount = Now.currentStreamCount
  <2>. HIDE DEF ph
  <2>. QED
    BY <1>2 DEF IInv, Good, StateType
<1>4. [Now EXCEPT !.phase[e] = "connected"] = t
  BY DEF Now
<1>. HIDE DEF t
<1>5. \A x : HasSession(Now, x) => HasSession(t, x)
  BY <1>1, <1>3, NowFields DEF HasSession
<1>6. Keyed(t)
  BY <1>1, <1>3, NowFields DEF IInv, Good, Keyed
<1>7. Pooled(t) /\ Holding(t)
  BY <1>3, <1>5 DEF IInv, Good, Pooled, Holding
<1>8. Relaying(t) /\ Closing(t)
  BY <1>1, <1>3, NowFields DEF IInv, Good, Relaying, Closing
<1>9. Good(t)
  BY <1>3, <1>6, <1>7, <1>8 DEF Good
<1>. QED
  BY <1>4, <1>9, BecomeGood DEF Connected

LEMMA ConnectFailedIInv == ASSUME IInv, NEW e \in Entries, ConnectFailed(e) PROVE IInv'
<1>. DEFINE u == RemoveFromQueue(Now, e)
            v == Reject(u, listeners[e])
            w == [v EXCEPT !.sessionCount = v.sessionCount - 1]
            t == Forget(w, {e}, "closed")
<1>1. phase[e] = "connecting" /\ relay = None
  BY DEF ConnectFailed
<1>2. options[e] \in Options
  BY <1>1, ReadyKeyed, NowFields DEF IInv
<1>3. Good(u) /\ SameEntries(Now, u)
  BY <1>2, RemoveFromQueueGood, NowFields DEF IInv
<1>4. Good(v) /\ SameEntries(u, v)
  <2>. HIDE DEF u
  <2>. QED
    BY <1>3, RejectGood
<1>5. Good(w) /\ SameEntries(v, w)
  <2>. HIDE DEF v
  <2>1. v.sessionCount - 1 \in Int
    BY <1>4 DEF Good, StateType
  <2>. QED
    BY <1>4, <2>1, SessionCountGood
<1>6. w.phase[e] = "connecting" /\ w.relay = None
  <2>. HIDE DEF u, v, w
  <2>. QED
    BY <1>1, <1>3, <1>4, <1>5, NowFields DEF SameEntries
<1>7. Good(t)
  <2>. HIDE DEF w
  <2>. QED
    BY <1>5, <1>6, ForgetGood, NoneAssumption DEF HasSession
<1>. QED
  BY <1>7, BecomeGood DEF ConnectFailed

LEMMA FirstSettingsRefusedIInv ==
  ASSUME IInv, NEW e \in Entries, FirstSettingsRefused(e)
  PROVE  IInv'
<1>1. Good(Reject(Now, listeners[e]))
  BY RejectGood DEF IInv
<1>2. Good(Destroy(Reject(Now, listeners[e]), {e}))
  BY <1>1, DestroyGood
<1>. QED
  BY <1>2, BecomeGood DEF FirstSettingsRefused

\* What stands where in a list that got one session more.
LEMMA InsertEntry ==
  ASSUME NEW s \in Seq(Entries), NEW i \in 0..Len(s), NEW e \in Entries
  PROVE  /\ InsertAt(s, i + 1, e) \in Seq(Entries)
         /\ Len(InsertAt(s, i + 1, e)) = Len(s) + 1
         /\ \A k \in 1..i : InsertAt(s, i + 1, e)[k] = s[k]
         /\ InsertAt(s, i + 1, e)[i + 1] = e
         /\ \A k \in (i + 2)..(Len(s) + 1) : InsertAt(s, i + 1, e)[k] = s[k - 1]
<1>1. PICK j \in 1..(Len(s) + 1) : j = i + 1
  BY LenProperties
<1>2. ASSUME NEW k \in 1..i PROVE InsertAt(s, j, e)[k] = s[k]
  <2>1. k \in Int /\ 1 <= k /\ k < j
    BY <1>1
  <2>. QED
    BY <2>1, InsertAtBelow
<1>3. ASSUME NEW k \in (i + 2)..(Len(s) + 1) PROVE InsertAt(s, j, e)[k] = s[k - 1]
  <2>1. k \in Int /\ j < k /\ k <= Len(s) + 1
    BY <1>1, LenProperties
  <2>. QED
    BY <2>1, InsertAtAbove
<1>4. InsertAt(s, j, e) \in Seq(Entries) /\ Len(InsertAt(s, j, e)) = Len(s) + 1
  BY InsertAtSeq
<1>5. InsertAt(s, j, e)[j] = e
  BY InsertAtPlace
<1>. QED
  BY <1>1, <1>2, <1>3, <1>4, <1>5

\* The session of e enters the list of its options.
LEMMA EnterPoolGood ==
  ASSUME IInv, NEW e \in Entries, phase[e] = "connected", NEW n \in Nat, NEW i \in 0..Len(sessions[options[e]]),
         NEW O \in SUBSET Origins,
         NEW u, Good(u), SameEntries(Now, u)
  PROVE  Good(EnterPool(u, e, i, n, O)) /\ EnterPool(u, e, i, n, O).phase[e] = "ready"
<1>. DEFINE p == options[e]
            t == EnterPool(u, e, i, n, O)
            list == InsertAt(u.sessions[p], i + 1, e)
            lists == [u.sessions EXCEPT ![p] = list]
            limits == [u.maxConcurrentStreams EXCEPT ![e] = n]
            sets == [u.originSet EXCEPT ![e] = O]
            ph == [u.phase EXCEPT ![e] = "ready"]
            empty == u.emptySessionCount + 1
<1>1. p \in Options
  BY ReadyKeyed, NowFields DEF IInv
<1>2. u.sessions = sessions /\ u.phase[e] = "connected" /\ u.relay = relay /\ u.options[e] = p
  BY NowFields DEF SameEntries
<1>3. u.sessions \in [Options -> Seq(Entries)] /\ u.phase \in [Entries -> Phases]
  BY DEF Good, StateType
<1>4. i \in 0..Len(u.sessions[p]) /\ u.sessions[p] \in Seq(Entries)
  BY <1>1, <1>2, <1>3
<1>5. /\ list \in Seq(Entries) /\ Len(list) = Len(u.sessions[p]) + 1
      /\ \A k \in 1..i : list[k] = u.sessions[p][k]
      /\ list[i + 1] = e
      /\ \A k \in (i + 2)..(Len(u.sessions[p]) + 1) : list[k] = u.sessions[p][k - 1]
  <2>1. PICK s \in Seq(Entries) : s = u.sessions[p]
    BY <1>4
  <2>2. i \in 0..Len(s)
    BY <1>4, <2>1
  <2>3. /\ InsertAt(s, i + 1, e) \in Seq(Entries)
        /\ Len(InsertAt(s, i + 1, e)) = Len(s) + 1
        /\ \A k \in 1..i : InsertAt(s, i + 1, e)[k] = s[k]
        /\ InsertAt(s, i + 1, e)[i + 1] = e
        /\ \A k \in (i + 2)..(Len(s) + 1) : InsertAt(s, i + 1, e)[k] = s[k - 1]
    BY <2>2, InsertEntry
  <2>. QED
    BY <2>1, <2>3, Zenon
<1>6. t = [[[[[u EXCEPT !.sessions = lists] EXCEPT !.maxConcurrentStreams = limits]
              EXCEPT !.originSet = sets] EXCEPT !.phase = ph] EXCEPT !.emptySessionCount = empty]
  BY <1>2 DEF Good, StateType, EnterPool
<1>7. /\ lists \in [Options -> Seq(Entries)] /\ limits \in [Entries -> Nat]
      /\ sets \in [Entries -> SUBSET Origins] /\ empty \in Int
  <2>. HIDE DEF list
  <2>1. lists \in [Options -> Seq(Entries)]
    BY <1>3, <1>5
  <2>. QED
    BY <2>1 DEF Good, StateType
<1>8. ph \in [Entries -> Phases]
  BY <1>3 DEF Phases
<1>9. /\ t \in StateType
      /\ t.phase = ph /\ t.origin = u.origin /\ t.options = u.options
      /\ t.sessions = lists /\ t.relay = u.relay /\ t.life = u.life
      /\ t.status = u.status /\ t.given = u.given
      /\ t.gracefullyClosing = u.gracefullyClosing
      /\ t.currentStreamCount = u.currentStreamCount
  <2>. HIDE DEF lists, limits, sets, ph, empty, t
  <2>. QED
    BY <1>6, <1>7, <1>8 DEF Good, StateType
<1>. HIDE DEF t, list
<1>10. HasSession(t, e) /\ \A x : HasSession(u, x) => HasSession(t, x)
  BY <1>3, <1>9 DEF HasSession
<1>11. Keyed(t)
  BY <1>2, <1>3, <1>9 DEF Good, Keyed
<1>12. Pooled(t)
  <2>1. SUFFICES ASSUME NEW q \in Options, NEW k \in 1..Len(lists[q])
                 PROVE  HasSession(t, lists[q][k])
    BY <1>9 DEF Pooled
  <2>2. CASE q # p
    BY <1>3, <1>10, <2>2 DEF Good, Pooled
  <2>3. CASE q = p
    <3>1. lists[q] = list /\ k \in 1..(Len(u.sessions[p]) + 1)
      BY <1>1, <1>3, <1>5, <2>3
    <3>2. \A j \in 1..Len(u.sessions[p]) : HasSession(t, u.sessions[p][j])
      BY <1>1, <1>10 DEF Good, Pooled
    <3>3. Len(u.sessions[p]) \in Nat
      BY <1>4, LenProperties
    <3>4. CASE k <= i
      <4>1. k \in 1..i /\ k \in 1..Len(u.sessions[p])
        BY <1>4, <3>1, <3>3, <3>4
      <4>. QED
        BY <1>5, <3>1, <3>2, <4>1
    <3>5. CASE k = i + 1
      BY <1>5, <1>10, <3>1, <3>5
    <3>6. CASE k > i + 1
      <4>1. k \in (i + 2)..(Len(u.sessions[p]) + 1) /\ k - 1 \in 1..Len(u.sessions[p])
        BY <1>4, <3>1, <3>3, <3>6
      <4>. QED
        BY <1>5, <3>1, <3>2, <4>1
    <3>. QED
      BY <3>1, <3>3, <3>4, <3>5, <3>6
  <2>. QED
    BY <2>2, <2>3
<1>13. Holding(t)
  BY <1>9, <1>10 DEF Good, Holding
<1>14. Relaying(t) /\ Closing(t)
  BY <1>3, <1>9 DEF Good, Relaying, Closing
<1>15. Good(t) /\ t.phase[e] = "ready"
  BY <1>2, <1>3, <1>9, <1>11, <1>12, <1>13, <1>14 DEF Good
<1>. QED
  BY <1>15 DEF t

LEMMA AcceptGood ==
  ASSUME NEW st, Good(st), NEW s, HasSession(st, s), NEW e \in Entries, NEW T
  PROVE  Good(Accept(st, s, e, T)) /\ SameEntries(st, Accept(st, s, e, T))
<1>. DEFINE u == Serve(st, s, T)
            L == [u.listeners EXCEPT ![e] = @ \ T]
            t == [u EXCEPT !.listeners = L]
<1>1. Good(u) /\ SameEntries(st, u)
  BY ServeGood
<1>. HIDE DEF u
<1>2. L \in [Entries -> SUBSET Listeners]
  BY <1>1 DEF Good, StateType
<1>3. [u EXCEPT !.listeners[e] = @ \ T] = t
  BY <1>1 DEF Good, StateType
<1>4. Good(t) /\ SameEntries(u, t)
  <2>. HIDE DEF L
  <2>. QED
    BY <1>1, <1>2, ListenersGood
<1>. HIDE DEF t
<1>5. SameEntries(st, t)
  BY <1>1, <1>4 DEF SameEntries
<1>. QED
  BY <1>3, <1>4, <1>5 DEF u, Accept

LEMMA RelayGood ==
  ASSUME NEW st, Good(st), NEW e \in Entries \cup {None}, e # None => st.phase[e] = "ready"
  PROVE  Good([st EXCEPT !.relay = e])
<1>. DEFINE t == [st EXCEPT !.relay = e]
<1>1. /\ t \in StateType
      /\ t.phase = st.phase /\ t.origin = st.origin /\ t.options = st.options
      /\ t.sessions = st.sessions /\ t.relay = e /\ t.life = st.life
      /\ t.status = st.status /\ t.given = st.given
      /\ t.gracefullyClosing = st.gracefullyClosing
      /\ t.currentStreamCount = st.currentStreamCount
  BY DEF Good, StateType
<1>. HIDE DEF t
<1>2. Keyed(t) /\ Relaying(t) /\ Closing(t)
  BY <1>1 DEF Good, Keyed, Relaying, Closing
<1>3. \A x : HasSession(st, x) => HasSession(t, x)
  BY <1>1 DEF HasSession
<1>4. Pooled(t) /\ Holding(t)
  BY <1>1, <1>3 DEF Good, Pooled, Holding
<1>. QED
  BY <1>1, <1>2, <1>4 DEF Good, t

LEMMA FirstSettingsIInv ==
  ASSUME IInv, NEW e \in Entries, NEW n \in Limits, NEW plain \in BOOLEAN, FirstSettings(e, n, plain)
  PROVE  IInv'
<1>. DEFINE p == options[e]
            u == RemoveFromQueue(Now, e)
            enter(i) == EnterPool(u, e, i, n, FirstOriginSet(e, plain))
            accepted(i, T) == Accept(enter(i), e, e, T)
<1>1. phase[e] = "connected" /\ relay = None
  BY DEF FirstSettings
<1>2. p \in Options /\ origin[e] \in Origins
  BY <1>1, ReadyKeyed, NowFields DEF IInv
<1>3. Good(u) /\ SameEntries(Now, u)
  BY <1>2, RemoveFromQueueGood, NowFields DEF IInv
<1>4. FirstOriginSet(e, plain) \in SUBSET Origins /\ n \in Nat
  BY <1>2, EnvironmentAssumption DEF FirstOriginSet
<1>5. PICK i \in SortedIndexes(Now, p, n), T \in SUBSET listeners[e] :
        IF T = listeners[e]
        THEN BecomeOneOf(AfterAccept(accepted(i, T), e))
        ELSE Fresh(Now) # {} /\ Become([accepted(i, T) EXCEPT !.relay = e])
  BY DEF FirstSettings
<1>6. i \in 0..Len(sessions[p])
  BY NowFields DEF SortedIndexes
<1>7. Good(enter(i)) /\ enter(i).phase[e] = "ready"
  <2>. HIDE DEF u
  <2>. QED
    BY <1>1, <1>3, <1>4, <1>6, EnterPoolGood
<1>8. Good(accepted(i, T)) /\ accepted(i, T).phase[e] = "ready"
  <2>. HIDE DEF enter
  <2>. QED
    BY <1>7, AcceptGood DEF HasSession, SameEntries
<1>. HIDE DEF accepted
<1>9. CASE T = listeners[e]
  <2>1. \A t \in AfterAccept(accepted(i, T), e) : Good(t)
    BY <1>8, AfterAcceptGood
  <2>. QED
    BY <1>5, <1>9, <2>1, BecomeOneOfGood
<1>10. CASE T # listeners[e]
  <2>1. Good([accepted(i, T) EXCEPT !.relay = e])
    BY <1>8, RelayGood
  <2>. QED
    BY <1>5, <1>10, <2>1, BecomeGood
<1>. QED
  BY <1>9, <1>10

LEMMA RelayIInv == ASSUME IInv, NEW e \in Entries, Relay(e) PROVE IInv'
<1>. DEFINE o == origin[e]
            p == options[e]
            accepted(i, T) == Accept(Now, sessions[p][i], e, T)
<1>1. phase[e] = "ready"
  BY NoneAssumption, NowFields DEF Relay, IInv, Good, Relaying
<1>2. o \in Origins /\ p \in Options
  BY <1>1, ReadyKeyed, NowFields DEF IInv
<1>3. CASE AvailableAt(Now, o, p) # {}
  <2>1. PICK i \in AvailableAt(Now, o, p), T \in SUBSET listeners[e] :
          IF T = listeners[e]
          THEN BecomeOneOf(AfterAccept([accepted(i, T) EXCEPT !.relay = None], e))
          ELSE Become(accepted(i, T))
    BY <1>3 DEF Relay
  <2>2. HasSession(Now, sessions[p][i])
    BY <1>2, ListedHasSession, NowFields DEF AvailableAt
  <2>3. Good(accepted(i, T))
    BY <2>2, AcceptGood DEF IInv
  <2>. HIDE DEF accepted
  <2>4. CASE T = listeners[e]
    <3>1. Good([accepted(i, T) EXCEPT !.relay = None])
      BY <2>3, RelayGood
    <3>2. \A t \in AfterAccept([accepted(i, T) EXCEPT !.relay = None], e) : Good(t)
      BY <3>1, AfterAcceptGood
    <3>. QED
      BY <2>1, <2>4, <3>2, BecomeOneOfGood
  <2>5. CASE T # listeners[e]
    BY <2>1, <2>3, <2>5, BecomeGood
  <2>. QED
    BY <2>4, <2>5
<1>4. CASE AvailableAt(Now, o, p) = {}
  <2>. DEFINE L == [listeners EXCEPT ![e] = {}]
              u == [Now EXCEPT !.listeners = L]
              v == [u EXCEPT !.relay = None]
  <2>1. listeners \in [Entries -> SUBSET Listeners]
    BY NowFields DEF IInv, Good, StateType
  <2>2. L \in [Entries -> SUBSET Listeners]
    BY <2>1
  <2>3. Good(u)
    <3>. HIDE DEF L
    <3>. QED
      BY <2>2, ListenersGood DEF IInv
  <2>4. Good(v)
    <3>. HIDE DEF u
    <3>. QED
      BY <2>3, RelayGood
  <2>5. v = [Now EXCEPT !.listeners[e] = {}, !.relay = None]
    BY DEF Now
  <2>6. PICK st \in Enqueue(v, o, p, listeners[e]) : BecomeOneOf(AfterAccept(st, e))
    BY <1>4, <2>5 DEF Relay
  <2>7. Good(st)
    <3>. HIDE DEF v
    <3>. QED
      BY <1>2, <2>1, <2>4, <2>6, EnqueueGood
  <2>8. \A t \in AfterAccept(st, e) : Good(t)
    BY <2>7, AfterAcceptGood
  <2>. QED
    BY <2>6, <2>8, BecomeOneOfGood
<1>. QED
  BY <1>3, <1>4
\* The end of the settings and origin handlers.
LEMMA ServeOthersGood ==
  ASSUME NEW st, Good(st), NEW e \in Entries, st.phase[e] = "ready", NEW T
  PROVE  LET served == ProcessListeners(st, e, T)
         IN  Good(IF IsFree(served, e) THEN CloseCoveredSessions(served, e) ELSE served)
<1>. DEFINE served == ProcessListeners(st, e, T)
<1>1. Good(served) /\ served.phase[e] = "ready"
  BY ProcessListenersGood
<1>2. Good(CloseCoveredSessions(served, e))
  <2>. HIDE DEF served
  <2>. QED
    BY <1>1, CloseCoveredSessionsGood
<1>. QED
  BY <1>1, <1>2

LEMMA SettingsUpdateIInv ==
  ASSUME IInv, NEW e \in Entries, NEW n \in Limits, SettingsUpdate(e, n)
  PROVE  IInv'
<1>. DEFINE limits == [maxConcurrentStreams EXCEPT ![e] = n]
            st == [Now EXCEPT !.maxConcurrentStreams = limits]
<1>1. [Now EXCEPT !.maxConcurrentStreams[e] = n] = st
  BY DEF Now
<1>2. limits \in [Entries -> Nat]
  BY EnvironmentAssumption DEF IInv, Good, StateType, Now
<1>3. /\ st \in StateType /\ SameEntries(Now, st) /\ SameCallers(Now, st) /\ SameSessions(Now, st)
      /\ st.phase = Now.phase
  <2>. HIDE DEF limits
  <2>. QED
    BY <1>2 DEF IInv, Good, StateType, SameEntries, SameCallers, SameSessions
<1>. HIDE DEF st
<1>4. Good(st)
  BY <1>3, SameSessionsGood DEF IInv
<1>5. st.phase[e] = "ready"
  BY <1>3, NowFields DEF SettingsUpdate
<1>6. CASE ~IsFree(st, e)
  <2>1. Become(st)
    BY <1>1, <1>6 DEF SettingsUpdate
  <2>. QED
    BY <1>4, <2>1, BecomeGood
<1>7. CASE IsFree(st, e)
  <2>1. PICK T \in SUBSET WaitingFor(st, e) :
          LET served == ProcessListeners(st, e, T)
          IN  Become(IF IsFree(served, e) THEN CloseCoveredSessions(served, e) ELSE served)
    BY <1>1, <1>7 DEF SettingsUpdate
  <2>. QED
    BY <1>4, <1>5, <2>1, ServeOthersGood, BecomeGood
<1>. QED
  BY <1>6, <1>7

LEMMA OriginFrameIInv ==
  ASSUME IInv, NEW e \in Entries, NEW frame \in OriginFrames, OriginFrame(e, frame)
  PROVE  IInv'
<1>. DEFINE sets == [originSet EXCEPT ![e] = @ \cup frame]
            G == gracefullyClosing \ {e}
            u == [Now EXCEPT !.originSet = sets, !.gracefullyClosing = G]
            st == CloseSessionIfCovered(u, e)
<1>1. [Now EXCEPT !.originSet[e] = @ \cup frame, !.gracefullyClosing = @ \ {e}] = u
  BY DEF Now
<1>2. sets \in [Entries -> SUBSET Origins] /\ G \in SUBSET Entries
  BY EnvironmentAssumption DEF IInv, Good, StateType, Now
<1>3. G \subseteq Now.gracefullyClosing
  BY NowFields
<1>4. u \in StateType /\ SameEntries(Now, u) /\ SameCallers(Now, u) /\ SameSessions(Now, u)
  <2>. HIDE DEF sets, G
  <2>. QED
    BY <1>2, <1>3 DEF IInv, Good, StateType, SameEntries, SameCallers, SameSessions
<1>. HIDE DEF u
<1>5. Good(u)
  BY <1>4, SameSessionsGood DEF IInv
<1>6. Good(st) /\ SameEntries(u, st)
  BY <1>5, CloseSessionIfCoveredGood
<1>. HIDE DEF st
<1>7. st.phase[e] = "ready"
  BY <1>4, <1>6, NowFields DEF OriginFrame, SameEntries
<1>8. CASE e \in st.gracefullyClosing \/ ~IsFree(st, e)
  <2>1. Become(st)
    BY <1>1, <1>8 DEF OriginFrame, st
  <2>. QED
    BY <1>6, <2>1, BecomeGood
<1>9. CASE ~(e \in st.gracefullyClosing \/ ~IsFree(st, e))
  <2>1. PICK T \in SUBSET WaitingFor(st, e) :
          LET served == ProcessListeners(st, e, T)
          IN  Become(IF IsFree(served, e) THEN CloseCoveredSessions(served, e) ELSE served)
    BY <1>1, <1>9 DEF OriginFrame, st
  <2>. QED
    BY <1>6, <1>7, <2>1, ServeOthersGood, BecomeGood
<1>. QED
  BY <1>8, <1>9

\* A covered session closes with its last stream: the state between the two
\* steps of the handler is not Good.
LEMMA StreamCloseIInv == ASSUME IInv, NEW l \in Listeners, StreamClose(l) PROVE IInv'
<1>. DEFINE e == given[l]
            last == currentStreamCount[e] = 1
            S == [status EXCEPT ![l] = "done"]
            gave == [given EXCEPT ![l] = None]
            streams == [currentStreamCount EXCEPT ![e] = @ - 1]
            empty == IF last THEN emptySessionCount + 1 ELSE emptySessionCount
            st == [Now EXCEPT !.status = S, !.given = gave,
                              !.currentStreamCount = streams, !.emptySessionCount = empty]
            closing == last /\ (TooManyEmpty(st) \/ e \in gracefullyClosing)
            usable == ~closing /\ life[e] = "open" /\ IsFree(st, e)
<1>1. [Now EXCEPT !.status[l] = "done", !.given[l] = None, !.currentStreamCount[e] = @ - 1,
                  !.emptySessionCount = IF last THEN @ + 1 ELSE @] = st
  BY DEF Now
<1>2. HasSession(Now, e)
  BY NowFields DEF StreamClose, IInv, Good, Holding
<1>3. e \in Entries /\ (life[e] = "open" => phase[e] = "ready")
  BY <1>2, NowFields DEF HasSession
<1>4. /\ status \in [Listeners -> Statuses] /\ given \in [Listeners -> Entries \cup {None}]
      /\ currentStreamCount \in [Entries -> Int] /\ emptySessionCount \in Int
      /\ gracefullyClosing \subseteq Entries
  BY DEF IInv, Good, StateType, Now
<1>5. /\ S \in [Listeners -> Statuses] /\ gave \in [Listeners -> Entries \cup {None}]
      /\ streams \in [Entries -> Int] /\ empty \in Int
  <2>1. S \in [Listeners -> Statuses] /\ gave \in [Listeners -> Entries \cup {None}]
    BY <1>4 DEF Statuses
  <2>2. streams \in [Entries -> Int]
    BY <1>3, <1>4
  <2>3. empty \in Int
    BY <1>4
  <2>. QED
    BY <2>1, <2>2, <2>3
<1>6. /\ st \in StateType /\ SameEntries(Now, st)
      /\ st.phase = phase /\ st.life = life /\ st.gracefullyClosing = gracefullyClosing
      /\ st.status = S /\ st.given = gave /\ st.currentStreamCount = streams
  <2>. HIDE DEF S, gave, streams, empty
  <2>1. st \in StateType /\ SameEntries(Now, st)
    BY <1>5 DEF IInv, Good, StateType, SameEntries
  <2>. QED
    BY <2>1 DEF Now
<1>. HIDE DEF st
<1>7. \A x \in gracefullyClosing : x # e => (streams[x] = 0 => life[x] # "open")
  BY <1>4, NowFields DEF IInv, Good, Closing
<1>8. Holding(st)
  <2>1. \A x : HasSession(Now, x) => HasSession(st, x)
    BY <1>6 DEF SameEntries, HasSession
  <2>2. Holding(Now)
    BY DEF IInv, Good
  <2>3. SUFFICES ASSUME NEW m \in Listeners
                 PROVE  /\ gave[m] # None => HasSession(st, gave[m])
                        /\ S[m] \in {"holding", "streaming", "orphan"} => gave[m] # None
    BY <1>6 DEF Holding
  <2>4. CASE m = l
    BY <1>4, <2>4
  <2>5. CASE m # l
    BY <1>4, <2>1, <2>2, <2>5, NowFields DEF Holding
  <2>. QED
    BY <2>4, <2>5
<1>9. CASE closing
  <2>. DEFINE t == Close(st, {e})
              closed == [x \in Entries |->
                IF x \notin {e} \/ st.life[x] # "open" THEN st.life[x]
                ELSE IF st.currentStreamCount[x] = 0 THEN "destroyed" ELSE "closed"]
  <2>1. t = [st EXCEPT !.life = closed]
    BY DEF Close
  <2>2. closed \in [Entries -> {"open", "closed", "destroyed"}]
    BY <1>6 DEF StateType
  <2>3. /\ t \in StateType /\ t.phase = st.phase /\ t.origin = st.origin /\ t.options = st.options
        /\ t.sessions = st.sessions /\ t.relay = st.relay /\ t.life = closed
        /\ t.status = st.status /\ t.given = st.given
        /\ t.gracefullyClosing = gracefullyClosing /\ t.currentStreamCount = streams
    <3>. HIDE DEF closed, t
    <3>. QED
      BY <1>6, <2>1, <2>2 DEF StateType
  <2>. HIDE DEF t
  <2>4. SameEntries(Now, t)
    BY <1>6, <2>3 DEF SameEntries
  <2>5. \A x : HasSession(st, x) => HasSession(t, x)
    BY <2>3 DEF HasSession
  <2>6. Holding(t)
    BY <1>8, <2>3, <2>5 DEF Holding
  <2>7. Closing(t)
    <3>1. SUFFICES ASSUME NEW x \in gracefullyClosing, streams[x] = 0
                   PROVE  closed[x] # "open"
      BY <2>3 DEF Closing
    <3>2. CASE x = e
      BY <1>3, <3>2
    <3>3. CASE x # e
      BY <1>4, <1>6, <1>7, <3>1, <3>3
    <3>. QED
      BY <3>2, <3>3
  <2>8. Good(t)
    BY <2>3, <2>4, <2>6, <2>7, SameEntriesGood DEF IInv
  <2>9. Become(t)
    BY <1>1, <1>9 DEF StreamClose, t
  <2>. QED
    BY <2>8, <2>9, BecomeGood
<1>10. CASE ~closing
  <2>1. Closing(st)
    <3>1. SUFFICES ASSUME NEW x \in gracefullyClosing, streams[x] = 0
                   PROVE  life[x] # "open"
      BY <1>6 DEF Closing
    <3>2. x # e
      BY <1>3, <1>4, <1>10, <3>1
    <3>. QED
      BY <1>7, <3>1, <3>2
  <2>2. Good(st)
    BY <1>6, <1>8, <2>1, SameEntriesGood DEF IInv
  <2>3. CASE ~usable
    <3>1. Become(st)
      BY <1>1, <1>10, <2>3 DEF StreamClose
    <3>. QED
      BY <2>2, <3>1, BecomeGood
  <2>4. CASE usable /\ IsCovered(st, e)
    <3>1. Become(CloseSessionIfCovered(st, e))
      BY <1>1, <2>4 DEF StreamClose
    <3>. QED
      BY <1>3, <2>2, <3>1, CloseSessionIfCoveredGood, BecomeGood
  <2>5. CASE usable /\ ~IsCovered(st, e)
    <3>. DEFINE covering == CloseCoveredSessions(st, e)
                served(T) == ProcessListeners(covering, e, T)
    <3>1. PICK T \in SUBSET WaitingFor(st, e) :
            BecomeOneOf(IF served(T).currentStreamCount[e] = 0
                        THEN ProcessQueue(served(T)) ELSE {served(T)})
      BY <1>1, <2>5 DEF StreamClose
    <3>2. st.phase[e] = "ready"
      BY <1>3, <1>6, <2>5
    <3>3. Good(covering) /\ covering.phase[e] = "ready"
      BY <1>3, <2>2, <3>2, CloseCoveredSessionsGood DEF SameEntries
    <3>4. Good(served(T))
      <4>. HIDE DEF covering
      <4>. QED
        BY <1>3, <3>3, ProcessListenersGood
    <3>. HIDE DEF served
    <3>. QED
      BY <3>1, <3>4, ProcessQueueGood, BecomeOneOfGood
  <2>. QED
    BY <2>3, <2>4, <2>5
<1>. QED
  BY <1>9, <1>10

LEMMA SessionCloseIInv == ASSUME IInv, NEW e \in Entries, SessionClose(e) PROVE IInv'
  BY CloseGood, BecomeGood DEF IInv, SessionClose

LEMMA SessionLostIInv == ASSUME IInv, NEW e \in Entries, SessionLost(e) PROVE IInv'
  BY DestroyGood, BecomeGood DEF IInv, SessionLost

LEMMA SessionDrainedIInv == ASSUME IInv, NEW e \in Entries, SessionDrained(e) PROVE IInv'
  BY DestroyGood, BecomeGood DEF IInv, SessionDrained
LEMMA LeavePoolGood ==
  ASSUME NEW st, Good(st), NEW p \in Options, NEW i \in 1..Len(st.sessions[p])
  PROVE  LET t == [st EXCEPT !.emptySessionCount = @ - 1, !.sessions[p] = RemoveAt(@, i)]
         IN  Good(t) /\ t.relay = st.relay /\ t.life = st.life
<1>. DEFINE list == RemoveAt(st.sessions[p], i)
            lists == [st.sessions EXCEPT ![p] = list]
            empty == st.emptySessionCount - 1
            t == [[st EXCEPT !.emptySessionCount = empty] EXCEPT !.sessions = lists]
<1>1. [st EXCEPT !.emptySessionCount = @ - 1, !.sessions[p] = RemoveAt(@, i)] = t
  BY DEF Good, StateType
<1>2. st.sessions \in [Options -> Seq(Entries)] /\ empty \in Int
  BY DEF Good, StateType
<1>3. /\ list \in Seq(Entries) /\ Len(list) = Len(st.sessions[p]) - 1
      /\ \A k \in 1..(i - 1) : list[k] = st.sessions[p][k]
      /\ \A k \in i..(Len(st.sessions[p]) - 1) : list[k] = st.sessions[p][k + 1]
  <2>. DEFINE s == st.sessions[p]
  <2>1. s \in Seq(Entries) /\ i \in 1..Len(s)
    BY <1>2
  <2>. HIDE DEF s
  <2>2. /\ RemoveAt(s, i) \in Seq(Entries) /\ Len(RemoveAt(s, i)) = Len(s) - 1
        /\ \A k \in 1..(i - 1) : RemoveAt(s, i)[k] = s[k]
        /\ \A k \in i..(Len(s) - 1) : RemoveAt(s, i)[k] = s[k + 1]
    BY <2>1, RemoveAtElements
  <2>. QED
    BY <2>2 DEF s
<1>. HIDE DEF list
<1>4. lists \in [Options -> Seq(Entries)]
  BY <1>2, <1>3
<1>5. /\ t \in StateType
      /\ t.phase = st.phase /\ t.origin = st.origin /\ t.options = st.options
      /\ t.sessions = lists /\ t.relay = st.relay /\ t.life = st.life
      /\ t.status = st.status /\ t.given = st.given
      /\ t.gracefullyClosing = st.gracefullyClosing
      /\ t.currentStreamCount = st.currentStreamCount
  <2>. HIDE DEF lists, empty
  <2>. QED
    BY <1>2, <1>4 DEF Good, StateType
<1>. HIDE DEF t
<1>6. \A x : HasSession(st, x) => HasSession(t, x)
  BY <1>5 DEF HasSession
<1>7. Keyed(t) /\ Relaying(t) /\ Closing(t)
  BY <1>5 DEF Good, Keyed, Relaying, Closing
<1>8. Holding(t)
  BY <1>5, <1>6 DEF Good, Holding
<1>9. Pooled(t)
  <2>1. SUFFICES ASSUME NEW q \in Options, NEW k \in 1..Len(lists[q])
                 PROVE  HasSession(t, lists[q][k])
    BY <1>5 DEF Pooled
  <2>2. CASE q # p
    BY <1>2, <1>6, <2>2 DEF Good, Pooled
  <2>3. CASE q = p
    <3>1. /\ lists[q] = list /\ Len(st.sessions[p]) \in Nat
          /\ k \in 1..(Len(st.sessions[p]) - 1)
      BY <1>2, <1>3, <2>3, LenProperties
    <3>2. \A j \in 1..Len(st.sessions[p]) : HasSession(t, st.sessions[p][j])
      BY <1>6 DEF Good, Pooled
    <3>3. CASE k < i
      <4>1. k \in 1..(i - 1) /\ k \in 1..Len(st.sessions[p])
        BY <3>1, <3>3
      <4>. QED
        BY <1>3, <3>1, <3>2, <4>1
    <3>4. CASE k >= i
      <4>1. k \in i..(Len(st.sessions[p]) - 1) /\ k + 1 \in 1..Len(st.sessions[p])
        BY <3>1, <3>4
      <4>. QED
        BY <1>3, <3>1, <3>2, <4>1
    <3>. QED
      BY <3>1, <3>3, <3>4
  <2>. QED
    BY <2>2, <2>3
<1>. QED
  BY <1>1, <1>5, <1>7, <1>8, <1>9 DEF Good

LEMMA SessionClosedIInv == ASSUME IInv, NEW e \in Entries, SessionClosed(e) PROVE IInv'
<1>. DEFINE p == options[e]
            n == sessionCount - 1
            st == [Now EXCEPT !.sessionCount = n]
<1>1. /\ phase[e] \in {"connected", "ready"} /\ life[e] = "destroyed"
      /\ relay = None /\ e # None
  BY NoneAssumption DEF SessionClosed
<1>2. p \in Options
  BY <1>1, ReadyKeyed, NowFields DEF IInv
<1>3. [Now EXCEPT !.sessionCount = @ - 1] = st
  BY DEF Now
<1>4. n \in Int
  BY DEF IInv, Good, StateType, Now
<1>5. Good(st) /\ SameEntries(Now, st)
  <2>. HIDE DEF n
  <2>. QED
    BY <1>4, SessionCountGood DEF IInv
<1>6. st.life = life /\ st.sessions = sessions
  BY DEF Now
<1>. HIDE DEF st
<1>7. CASE phase[e] = "ready"
  <2>. DEFINE left(i) == [st EXCEPT !.emptySessionCount = @ - 1, !.sessions[p] = RemoveAt(@, i)]
  <2>1. PICK i \in 1..Len(sessions[p]) : BecomeOneOf(ProcessQueue(Forget(left(i), {e}, "closed")))
    BY <1>3, <1>7 DEF SessionClosed
  <2>2. Good(left(i)) /\ left(i).relay = None /\ left(i).life = life
    <3>1. st.relay = None /\ i \in 1..Len(st.sessions[p])
      BY <1>1, <1>5, <1>6, NowFields DEF SameEntries
    <3>2. Good(left(i)) /\ left(i).relay = st.relay /\ left(i).life = st.life
      <4>. HIDE DEF p
      <4>. QED
        BY <1>2, <1>5, <3>1, LeavePoolGood
    <3>. QED
      BY <1>6, <3>1, <3>2
  <2>. HIDE DEF left
  <2>3. Good(Forget(left(i), {e}, "closed"))
    BY <1>1, <2>2, ForgetGood
  <2>. QED
    BY <2>1, <2>3, ProcessQueueGood, BecomeOneOfGood
<1>8. CASE phase[e] = "connected"
  <2>. DEFINE u == RemoveFromQueue(st, e)
              left == Reject(u, listeners[e])
  <2>1. BecomeOneOf(ProcessQueue(Forget(left, {e}, "closed")))
    BY <1>3, <1>8 DEF SessionClosed
  <2>2. Good(u) /\ SameEntries(st, u)
    BY <1>2, <1>5, RemoveFromQueueGood, NowFields DEF SameEntries
  <2>. HIDE DEF u
  <2>3. Good(left) /\ SameEntries(u, left)
    BY <2>2, RejectGood
  <2>. HIDE DEF left
  <2>4. left.relay = None /\ left.life[e] = "destroyed"
    BY <1>1, <1>5, <1>6, <2>2, <2>3, NowFields DEF SameEntries
  <2>5. Good(Forget(left, {e}, "closed"))
    BY <1>1, <2>3, <2>4, ForgetGood
  <2>. QED
    BY <2>1, <2>5, ProcessQueueGood, BecomeOneOfGood
<1>. QED
  BY <1>1, <1>7, <1>8

------------------------------------------------------------------------------
LEMMA InitIInv == Init => IInv
<1>. SUFFICES ASSUME Init PROVE IInv
  OBVIOUS
<1>1. /\ queue \in [Options -> [Origins -> Entries \cup {None}]]
      /\ kLength \in [Options -> Int]
      /\ sessions \in [Options -> Seq(Entries)] /\ \A p \in Options : sessions[p] = <<>>
      /\ sessionCount \in Int /\ emptySessionCount \in Int /\ relay \in Entries \cup {None}
  BY DEF Init
<1>2. /\ origin \in [Entries -> Origins \cup {None}] /\ options \in [Entries -> Options \cup {None}]
      /\ listeners \in [Entries -> SUBSET Listeners] /\ phase \in [Entries -> Phases]
      /\ destroyed \subseteq Entries
      /\ life \in [Entries -> {"open", "closed", "destroyed"}]
      /\ gracefullyClosing \subseteq Entries
  BY DEF Init, Phases
<1>3. /\ maxConcurrentStreams \in [Entries -> Nat] /\ originSet \in [Entries -> SUBSET Origins]
      /\ currentStreamCount \in [Entries -> Int] /\ status \in [Listeners -> Statuses]
      /\ given \in [Listeners -> Entries \cup {None}]
  BY DEF Init, Statuses
<1>4. Now \in StateType
  BY <1>1, <1>2, <1>3 DEF Now, StateType
<1>5. Keyed(Now) /\ Relaying(Now) /\ Closing(Now)
  BY NowFields DEF Init, Keyed, Relaying, Closing
<1>6. Pooled(Now)
  BY <1>1, NowFields DEF Pooled
<1>7. Holding(Now)
  BY NowFields DEF Init, Holding
<1>. QED
  BY <1>4, <1>5, <1>6, <1>7 DEF IInv, Good

LEMMA StutterIInv == ASSUME IInv, UNCHANGED vars PROVE IInv'
<1>1. Now' = Now
  BY DEF Now, vars
<1>. QED
  BY <1>1 DEF IInv

LEMMA NextIInv == ASSUME IInv, [Next]_vars PROVE IInv'
<1>1. CASE \E l \in Listeners, o \in Origins, p \in Options : GetSession(l, o, p)
  BY <1>1, GetSessionIInv
<1>2. CASE \E l \in Listeners : RejectServername(l) \/ UserRequest(l) \/ StreamClose(l)
  BY <1>2, RejectServernameIInv, UserRequestIInv, StreamCloseIInv
<1>3. CASE CloseEmpty \/ AgentDestroy
  BY <1>3, CloseEmptyIInv, AgentDestroyIInv
<1>4. CASE \E e \in Entries : Connected(e) \/ ConnectFailed(e) \/ FirstSettingsRefused(e)
  BY <1>4, ConnectedIInv, ConnectFailedIInv, FirstSettingsRefusedIInv
<1>5. CASE \E e \in Entries, n \in Limits : FirstSettings(e, n, FALSE) \/ FirstSettings(e, n, TRUE)
  BY <1>5, FirstSettingsIInv
<1>6. CASE \E e \in Entries : Relay(e)
  BY <1>6, RelayIInv
<1>7. CASE \E e \in Entries, n \in Limits : SettingsUpdate(e, n)
  BY <1>7, SettingsUpdateIInv
<1>8. CASE \E e \in Entries, frame \in OriginFrames : OriginFrame(e, frame)
  BY <1>8, OriginFrameIInv
<1>9. CASE \E e \in Entries : SessionClose(e) \/ SessionLost(e) \/ SessionDrained(e) \/ SessionClosed(e)
  BY <1>9, SessionCloseIInv, SessionLostIInv, SessionDrainedIInv, SessionClosedIInv
<1>10. CASE UNCHANGED vars
  BY <1>10, StutterIInv
<1>. QED
  BY <1>1, <1>2, <1>3, <1>4, <1>5, <1>6, <1>7, <1>8, <1>9, <1>10 DEF Next, OtherStep

LEMMA Invariant == Spec => []IInv
<1>. QED
  BY InitIInv, NextIInv, PTL DEF Spec

\* What a caller asked for is kept until it is answered.
Keeps == asked' = [l \in Listeners |->
                     IF status'[l] \in {"idle", "waiting"} THEN asked[l] ELSE None]

LEMMA BecomeKeeps == ASSUME NEW st, Become(st) PROVE Keeps
  BY DEF Become, Keeps

LEMMA BecomeOneOfKeeps == ASSUME NEW S, BecomeOneOf(S) PROVE Keeps
  BY BecomeKeeps DEF BecomeOneOf

LEMMA CallsKeep ==
  ASSUME NEW l \in Listeners,
         \/ \E o \in Origins, p \in Options : GetSession(l, o, p)
         \/ RejectServername(l) \/ UserRequest(l) \/ StreamClose(l)
  PROVE  Keeps
<1>1. ASSUME NEW o \in Origins, NEW p \in Options, GetSession(l, o, p) PROVE Keeps
  BY <1>1, BecomeKeeps, BecomeOneOfKeeps, Zenon DEF GetSession
<1>2. RejectServername(l) => Keeps
  BY BecomeKeeps, Zenon DEF RejectServername
<1>3. UserRequest(l) => Keeps
  BY BecomeKeeps, Zenon DEF UserRequest
<1>4. StreamClose(l) => Keeps
  BY BecomeKeeps, BecomeOneOfKeeps, Zenon DEF StreamClose
<1>. QED
  BY <1>1, <1>2, <1>3, <1>4

LEMMA EntriesKeep ==
  ASSUME NEW e \in Entries,
         \/ Connected(e) \/ ConnectFailed(e) \/ FirstSettingsRefused(e) \/ Relay(e)
         \/ \E n \in Limits : \/ FirstSettings(e, n, FALSE) \/ FirstSettings(e, n, TRUE)
                            \/ SettingsUpdate(e, n)
         \/ \E frame \in OriginFrames : OriginFrame(e, frame)
         \/ SessionClose(e) \/ SessionLost(e) \/ SessionDrained(e) \/ SessionClosed(e)
  PROVE  Keeps
<1>1. Connected(e) => Keeps
  BY BecomeKeeps, Zenon DEF Connected
<1>2. ConnectFailed(e) => Keeps
  BY BecomeKeeps, Zenon DEF ConnectFailed
<1>3. FirstSettingsRefused(e) => Keeps
  BY BecomeKeeps, Zenon DEF FirstSettingsRefused
<1>4. Relay(e) => Keeps
  BY BecomeKeeps, BecomeOneOfKeeps, Zenon DEF Relay
<1>5. \A n, plain : FirstSettings(e, n, plain) => Keeps
  BY BecomeKeeps, BecomeOneOfKeeps, Zenon DEF FirstSettings
<1>6. \A n : SettingsUpdate(e, n) => Keeps
  BY BecomeKeeps, Zenon DEF SettingsUpdate
<1>7. \A frame : OriginFrame(e, frame) => Keeps
  BY BecomeKeeps, Zenon DEF OriginFrame
<1>8. SessionClose(e) \/ SessionLost(e) \/ SessionDrained(e) => Keeps
  BY BecomeKeeps, Zenon DEF SessionClose, SessionLost, SessionDrained
<1>9. SessionClosed(e) => Keeps
  BY BecomeOneOfKeeps, Zenon DEF SessionClosed
<1>. QED
  BY <1>1, <1>2, <1>3, <1>4, <1>5, <1>6, <1>7, <1>8, <1>9

LEMMA NextKeeps == ASSUME Next PROVE Keeps
<1>1. CloseEmpty => Keeps
  BY BecomeOneOfKeeps, Zenon DEF CloseEmpty
<1>2. AgentDestroy => Keeps
  BY BecomeKeeps, Zenon DEF AgentDestroy
<1>. QED
  BY <1>1, <1>2, CallsKeep, EntriesKeep DEF Next, OtherStep

AskedType == asked \in [Listeners -> (Options \X Origins) \cup {None}]

LEMMA AskedTyped == Spec => []AskedType
<1>1. Init => AskedType
  BY CallsAssumption DEF Init, AskedType
<1>2. AskedType /\ [Next]_vars => AskedType'
  BY NextKeeps DEF AskedType, Keeps, vars
<1>. QED
  BY <1>1, <1>2, PTL DEF Spec

\* Every variable of the pool keeps its type, and every entry in use its key,
\* whatever handlers run in whatever order, for any numbers of entries, callers,
\* origins and options and any limits.
THEOREM TypeCorrect == Spec => []TypeOK
<1>1. IInv /\ AskedType => TypeOK
  BY NowFields DEF IInv, Good, Keyed, TypeOK, AskedType
<1>. QED
  BY <1>1, Invariant, AskedTyped, PTL

\* A covered session is closed by whichever comes last, the handler that finds
\* it covered or the one of its last stream: it never stays open for good.
THEOREM CoveredSessionsClose == Spec => []GracefulSessionsClose
<1>1. IInv => GracefulSessionsClose
  BY NowFields DEF IInv, Good, Closing, GracefulSessionsClose
<1>. QED
  BY <1>1, Invariant, PTL
=============================================================================
