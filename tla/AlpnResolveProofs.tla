-------------------------- MODULE AlpnResolveProofs --------------------------
(***************************************************************************)
(* Proofs about AlpnResolve, for any calls, hosts and failures.            *)
(***************************************************************************)
EXTENDS AlpnResolve, TLAPS

(* The parts of the inductive invariant. *)

\* A call that has not begun left no trace; one that awaits has no socket yet.
Fresh ==
  \A c \in Calls :
    /\ phase[c] = "idle" => resolution[c] = None /\ name[c] = None
    /\ phase[c] \in {"idle", "owner", "joined"} => socket[c] = "none"

\* A resolution is of its owner's host, awaited until it is settled, and settles
\* truthfully or fails.  Only an owner learns of a timeout.
Resolutions ==
  \A c \in Calls :
    /\ phase[c] = "owner" => resolution[c] # None
    /\ phase[c] \in {"owner", "timedOut"} => waitsFor[c] = c
    /\ resolution[c] = "pending" => phase[c] = "owner"
    /\ resolution[c] # None =>
         /\ name[c] \in Names
         /\ resolution[c] \in {"pending", "timeout", "error", Negotiates[name[c]]}

\* Who joined awaits a resolution of the same host.
Joined ==
  \A c \in Calls : phase[c] = "joined" =>
    /\ waitsFor[c] \in Calls
    /\ resolution[waitsFor[c]] # None
    /\ name[waitsFor[c]] = name[c]

\* A protocol is what the host negotiates, or unknown because of a timeout.
Honest(n, protocol) ==
  \/ protocol = Negotiates[n]
  \/ protocol = "null" /\ TimedOut(n)

HonestAnswers ==
  /\ \A n \in Names : cache[n] # None => Honest(n, cache[n])
  /\ \A c \in Calls : phase[c] = "answered" => name[c] \in Names /\ Honest(name[c], answer[c])

IInv ==
  /\ TypeOK
  /\ QueueTracksPending
  /\ Fresh
  /\ Resolutions
  /\ Joined
  /\ HonestAnswers
  /\ ProperUnlessTimedOut
  /\ SocketsSettled
------------------------------------------------------------------------------
\* The invariant holds before any call.
LEMMA InitIInv == Init => IInv
<1> SUFFICES ASSUME Init PROVE IInv
  OBVIOUS
<1>1. TypeOK
  BY DEF Init, TypeOK, Phases
<1>2. QueueTracksPending
  BY NoneAssumption DEF Init, QueueTracksPending
<1>3. Fresh /\ Resolutions /\ Joined /\ HonestAnswers
  BY NoneAssumption DEF Init, Fresh, Resolutions, Joined, HonestAnswers
<1>4. ProperUnlessTimedOut /\ SocketsSettled
  BY DEF Init, ProperUnlessTimedOut, SocketsSettled, Unmade, Ended
<1> QED
  BY <1>1, <1>2, <1>3, <1>4 DEF IInv

\* What timed out stays so: no step changes a settled resolution or its host.
LEMMA TimeoutsStay ==
  ASSUME IInv, Next, NEW n \in Names, TimedOut(n)
  PROVE  TimedOut(n)'
<1>1. PICK c \in Calls : name[c] = n /\ resolution[c] = "timeout"
  BY DEF TimedOut
<1>2. phase[c] # "idle" /\ resolution[c] # "pending"
  BY <1>1, NoneAssumption DEF IInv, Fresh
<1>3. name'[c] = n /\ resolution'[c] = "timeout"
  <2> USE <1>1, <1>2 DEF IInv, TypeOK
  <2>1. ASSUME NEW k \in Calls, CallInvalid(k) \/ CallPlain(k) \/ Settle(k)
        PROVE  name'[c] = n /\ resolution'[c] = "timeout"
    BY <2>1 DEF CallInvalid, CallPlain, Settle, Begin
  <2>2. ASSUME NEW k \in Calls, Resume(k) \/ Finish(k)
        PROVE  name'[c] = n /\ resolution'[c] = "timeout"
    BY <2>2 DEF Resume, OwnerSucceeds, OwnerFails, JoinerResumes, Finish, ThrowTimeout,
       MakeRequest
  <2>3. ASSUME NEW k \in Calls, NEW m \in Names,
               CallCached(k, m) \/ CallJoins(k, m) \/ CallResolves(k, m)
        PROVE  name'[c] = n /\ resolution'[c] = "timeout"
    BY <2>3 DEF CallCached, CallJoins, CallResolves, Begin
  <2>4. ASSUME NEW m \in Names, Evict(m)
        PROVE  name'[c] = n /\ resolution'[c] = "timeout"
    BY <2>4 DEF Evict
  <2> QED
    BY <2>1, <2>2, <2>3, <2>4 DEF Next
<1> QED
  BY <1>3 DEF TimedOut
\* Each action keeps the invariant.
LEMMA CallInvalidKeeps == ASSUME IInv, NEW c \in Calls, CallInvalid(c) PROVE IInv'
<1> USE NoneAssumption, NegotiatesAssumption, FailuresAssumption DEF IInv, TypeOK, CallInvalid, Begin
<1>0. \A m \in Names : TimedOut(m) => TimedOut(m)'
  BY TimeoutsStay DEF Next, Resume, Finish
<1>1. TypeOK'
  BY DEF Phases, Protocols, Answers
<1>2. QueueTracksPending'
  BY DEF QueueTracksPending
<1>3. Fresh' /\ Resolutions' /\ Joined'
  BY DEF Fresh, Resolutions, Joined
<1>4. HonestAnswers'
  BY <1>0 DEF HonestAnswers, Honest, Resolutions, Joined
<1>5. ProperUnlessTimedOut'
  BY <1>0 DEF ProperUnlessTimedOut, HonestAnswers, Honest
<1>6. SocketsSettled'
  BY DEF SocketsSettled, Unmade, IsHttp2, Fresh, Resolutions, Ended
<1> QED
  BY <1>1, <1>2, <1>3, <1>4, <1>5, <1>6

LEMMA CallPlainKeeps == ASSUME IInv, NEW c \in Calls, CallPlain(c) PROVE IInv'
<1> USE NoneAssumption, NegotiatesAssumption, FailuresAssumption DEF IInv, TypeOK, CallPlain, Begin
<1>0. \A m \in Names : TimedOut(m) => TimedOut(m)'
  BY TimeoutsStay DEF Next, Resume, Finish
<1>1. TypeOK'
  BY DEF Phases, Protocols, Answers
<1>2. QueueTracksPending'
  BY DEF QueueTracksPending
<1>3. Fresh' /\ Resolutions' /\ Joined'
  BY DEF Fresh, Resolutions, Joined
<1>4. HonestAnswers'
  BY <1>0 DEF HonestAnswers, Honest, Resolutions, Joined
<1>5. ProperUnlessTimedOut'
  BY <1>0 DEF ProperUnlessTimedOut, Fresh
<1>6. SocketsSettled'
  BY DEF SocketsSettled, Unmade, IsHttp2, Fresh, Resolutions, Ended
<1> QED
  BY <1>1, <1>2, <1>3, <1>4, <1>5, <1>6

LEMMA CallCachedKeeps == ASSUME IInv, NEW c \in Calls, NEW n \in Names, CallCached(c, n) PROVE IInv'
<1> USE NoneAssumption, NegotiatesAssumption, FailuresAssumption DEF IInv, TypeOK, CallCached, Begin
<1>0. \A m \in Names : TimedOut(m) => TimedOut(m)'
  BY TimeoutsStay DEF Next, Resume, Finish
<1>1. TypeOK'
  BY DEF Phases, Protocols, Answers
<1>2. QueueTracksPending'
  BY DEF QueueTracksPending
<1>3. Fresh' /\ Resolutions' /\ Joined'
  BY DEF Fresh, Resolutions, Joined
<1>4. HonestAnswers'
  BY <1>0 DEF HonestAnswers, Honest, Resolutions, Joined
<1>5. ProperUnlessTimedOut'
  BY <1>0 DEF ProperUnlessTimedOut, HonestAnswers, Honest
<1>6. SocketsSettled'
  BY DEF SocketsSettled, Unmade, IsHttp2, Fresh, Resolutions, Ended
<1> QED
  BY <1>1, <1>2, <1>3, <1>4, <1>5, <1>6

LEMMA CallJoinsKeeps == ASSUME IInv, NEW c \in Calls, NEW n \in Names, CallJoins(c, n) PROVE IInv'
<1> USE NoneAssumption, NegotiatesAssumption, FailuresAssumption DEF IInv, TypeOK, CallJoins, Begin
<1>0. \A m \in Names : TimedOut(m) => TimedOut(m)'
  BY TimeoutsStay DEF Next, Resume, Finish
<1>1. TypeOK'
  BY DEF Phases, Protocols, Answers
<1>2. QueueTracksPending'
  BY DEF QueueTracksPending
<1>3. Fresh' /\ Resolutions' /\ Joined'
  BY DEF Fresh, Resolutions, Joined, QueueTracksPending
<1>4. HonestAnswers'
  BY <1>0 DEF HonestAnswers, Honest, Resolutions, Joined
<1>5. ProperUnlessTimedOut'
  BY <1>0 DEF ProperUnlessTimedOut, HonestAnswers, Honest
<1>6. SocketsSettled'
  BY DEF SocketsSettled, Unmade, IsHttp2, Fresh, Resolutions, Ended
<1> QED
  BY <1>1, <1>2, <1>3, <1>4, <1>5, <1>6

LEMMA CallResolvesKeeps == ASSUME IInv, NEW c \in Calls, NEW n \in Names, CallResolves(c, n) PROVE IInv'
<1> USE NoneAssumption, NegotiatesAssumption, FailuresAssumption DEF IInv, TypeOK, CallResolves, Begin
<1>0. \A m \in Names : TimedOut(m) => TimedOut(m)'
  BY TimeoutsStay DEF Next, Resume, Finish
<1>1. TypeOK'
  BY DEF Phases, Protocols, Answers
<1>2. QueueTracksPending'
  BY DEF QueueTracksPending
<1>3. Fresh' /\ Resolutions' /\ Joined'
  BY DEF Fresh, Resolutions, Joined
<1>4. HonestAnswers'
  BY <1>0 DEF HonestAnswers, Honest, Resolutions, Joined
<1>5. ProperUnlessTimedOut'
  BY <1>0 DEF ProperUnlessTimedOut, HonestAnswers, Honest
<1>6. SocketsSettled'
  BY DEF SocketsSettled, Unmade, IsHttp2, Fresh, Resolutions, Ended
<1> QED
  BY <1>1, <1>2, <1>3, <1>4, <1>5, <1>6

LEMMA SettleKeeps == ASSUME IInv, NEW c \in Calls, Settle(c) PROVE IInv'
<1> USE NoneAssumption, NegotiatesAssumption, FailuresAssumption DEF IInv, TypeOK, Settle
<1>0. \A m \in Names : TimedOut(m) => TimedOut(m)'
  BY TimeoutsStay DEF Next, Resume, Finish
<1>1. TypeOK'
  BY DEF Resolutions, Protocols
<1>2. QueueTracksPending'
  BY DEF QueueTracksPending
<1>3. Fresh' /\ Resolutions' /\ Joined'
  BY DEF Fresh, Resolutions, Joined, Protocols
<1>4. HonestAnswers'
  BY <1>0 DEF HonestAnswers, Honest, Resolutions, Joined
<1>5. ProperUnlessTimedOut'
  BY <1>0 DEF ProperUnlessTimedOut, HonestAnswers, Honest
<1>6. SocketsSettled'
  BY DEF SocketsSettled, Unmade, IsHttp2, Fresh, Resolutions, Ended
<1> QED
  BY <1>1, <1>2, <1>3, <1>4, <1>5, <1>6

LEMMA OwnerSucceedsKeeps == ASSUME IInv, NEW c \in Calls, OwnerSucceeds(c) PROVE IInv'
<1> USE NoneAssumption, NegotiatesAssumption, FailuresAssumption DEF IInv, TypeOK, OwnerSucceeds, Succeeded, AlpnProtocol
<1>0. \A m \in Names : TimedOut(m) => TimedOut(m)'
  BY TimeoutsStay DEF Next, Resume, Finish
<1>1. TypeOK'
  BY DEF Phases, Protocols, Answers
<1>2. QueueTracksPending'
  BY DEF QueueTracksPending
<1>3. Fresh' /\ Resolutions' /\ Joined'
  BY DEF Fresh, Resolutions, Joined, Protocols
<1>4. HonestAnswers'
  <2>1. name[c] \in Names /\ Honest(name[c], AlpnProtocol(resolution[c]))
    BY DEF Honest, TimedOut, Resolutions, Protocols
  <2> QED
    BY <1>0, <2>1 DEF HonestAnswers, Honest
<1>5. ProperUnlessTimedOut'
  BY <1>0 DEF ProperUnlessTimedOut, HonestAnswers, Honest
<1>6. SocketsSettled'
  BY DEF SocketsSettled, Unmade, IsHttp2, Fresh, Resolutions, Ended
<1> QED
  BY <1>1, <1>2, <1>3, <1>4, <1>5, <1>6

LEMMA OwnerFailsKeeps == ASSUME IInv, NEW c \in Calls, OwnerFails(c) PROVE IInv'
<1> USE NoneAssumption, NegotiatesAssumption, FailuresAssumption DEF IInv, TypeOK, OwnerFails
<1>0. \A m \in Names : TimedOut(m) => TimedOut(m)'
  BY TimeoutsStay DEF Next, Resume, Finish
<1>1. TypeOK'
  BY DEF Phases, Protocols, Answers
<1>2. QueueTracksPending'
  BY DEF QueueTracksPending
<1>3. Fresh' /\ Resolutions' /\ Joined'
  BY DEF Fresh, Resolutions, Joined
<1>4. HonestAnswers'
  BY <1>0 DEF HonestAnswers, Honest, Resolutions, Joined
<1>5. ProperUnlessTimedOut'
  BY <1>0 DEF ProperUnlessTimedOut, HonestAnswers, Honest
<1>6. SocketsSettled'
  BY DEF SocketsSettled, Unmade, IsHttp2, Fresh, Resolutions, Ended
<1> QED
  BY <1>1, <1>2, <1>3, <1>4, <1>5, <1>6

LEMMA JoinerResumesKeeps == ASSUME IInv, NEW c \in Calls, JoinerResumes(c) PROVE IInv'
<1> USE NoneAssumption, NegotiatesAssumption, FailuresAssumption DEF IInv, TypeOK, JoinerResumes, Succeeded, AlpnProtocol
<1>0. \A m \in Names : TimedOut(m) => TimedOut(m)'
  BY TimeoutsStay DEF Next, Resume, Finish
<1>1. TypeOK'
  BY DEF Phases, Protocols, Answers
<1>2. QueueTracksPending'
  BY DEF QueueTracksPending
<1>3. Fresh' /\ Resolutions' /\ Joined'
  BY DEF Fresh, Resolutions, Joined
<1>4. HonestAnswers'
  <2>1. ASSUME Succeeded(waitsFor[c])
        PROVE  name[c] \in Names /\ Honest(name[c], AlpnProtocol(resolution[waitsFor[c]]))
    BY <2>1 DEF Honest, TimedOut, Resolutions, Joined, Protocols
  <2> QED
    BY <1>0, <2>1 DEF HonestAnswers, Honest
<1>5. ProperUnlessTimedOut'
  BY <1>0 DEF ProperUnlessTimedOut, HonestAnswers, Honest
<1>6. SocketsSettled'
  BY DEF SocketsSettled, Unmade, IsHttp2, Fresh, Resolutions, Ended
<1> QED
  BY <1>1, <1>2, <1>3, <1>4, <1>5, <1>6

LEMMA ThrowTimeoutKeeps == ASSUME IInv, NEW c \in Calls, ThrowTimeout(c) PROVE IInv'
<1> USE NoneAssumption, NegotiatesAssumption, FailuresAssumption DEF IInv, TypeOK, ThrowTimeout
<1>0. \A m \in Names : TimedOut(m) => TimedOut(m)'
  BY TimeoutsStay DEF Next, Resume, Finish
<1>1. TypeOK'
  BY DEF Phases, Protocols, Answers
<1>2. QueueTracksPending'
  BY DEF QueueTracksPending
<1>3. Fresh' /\ Resolutions' /\ Joined'
  BY DEF Fresh, Resolutions, Joined
<1>4. HonestAnswers'
  BY <1>0 DEF HonestAnswers, Honest, Resolutions, Joined
<1>5. ProperUnlessTimedOut'
  BY <1>0 DEF ProperUnlessTimedOut, HonestAnswers, Honest
<1>6. SocketsSettled'
  BY DEF SocketsSettled, Unmade, IsHttp2, Fresh, Resolutions, Ended
<1> QED
  BY <1>1, <1>2, <1>3, <1>4, <1>5, <1>6

LEMMA MakeRequestKeeps == ASSUME IInv, NEW c \in Calls, MakeRequest(c) PROVE IInv'
<1> USE NoneAssumption, NegotiatesAssumption, FailuresAssumption DEF IInv, TypeOK, MakeRequest, IsHttp2, Disposed
<1>0. \A m \in Names : TimedOut(m) => TimedOut(m)'
  BY TimeoutsStay DEF Next, Resume, Finish
<1>1. TypeOK'
  BY DEF Phases, Protocols, Answers
<1>2. QueueTracksPending'
  BY DEF QueueTracksPending
<1>3. Fresh' /\ Resolutions' /\ Joined'
  BY DEF Fresh, Resolutions, Joined
<1>4. HonestAnswers'
  BY <1>0 DEF HonestAnswers, Honest, Resolutions, Joined
<1>5. ProperUnlessTimedOut'
  BY <1>0 DEF ProperUnlessTimedOut, HonestAnswers, Honest
<1>6. SocketsSettled'
  BY DEF SocketsSettled, Unmade, IsHttp2, Fresh, Resolutions, Ended
<1> QED
  BY <1>1, <1>2, <1>3, <1>4, <1>5, <1>6

LEMMA EvictKeeps == ASSUME IInv, NEW n \in Names, Evict(n) PROVE IInv'
<1> USE NoneAssumption, NegotiatesAssumption, FailuresAssumption DEF IInv, TypeOK, Evict
<1>0. \A m \in Names : TimedOut(m) => TimedOut(m)'
  BY TimeoutsStay DEF Next, Resume, Finish
<1>1. TypeOK'
  BY DEF Phases, Protocols, Answers
<1>2. QueueTracksPending'
  BY DEF QueueTracksPending
<1>3. Fresh' /\ Resolutions' /\ Joined'
  BY DEF Fresh, Resolutions, Joined
<1>4. HonestAnswers'
  BY <1>0 DEF HonestAnswers, Honest, Resolutions, Joined
<1>5. ProperUnlessTimedOut'
  BY <1>0 DEF ProperUnlessTimedOut, HonestAnswers, Honest
<1>6. SocketsSettled'
  BY DEF SocketsSettled, Unmade, IsHttp2, Fresh, Resolutions, Ended
<1> QED
  BY <1>1, <1>2, <1>3, <1>4, <1>5, <1>6

------------------------------------------------------------------------------
LEMMA NextIInv == IInv /\ [Next]_vars => IInv'
<1> SUFFICES ASSUME IInv, [Next]_vars PROVE IInv'
  OBVIOUS
<1>1. ASSUME NEW c \in Calls, CallInvalid(c) \/ CallPlain(c) \/ Settle(c) PROVE IInv'
  BY <1>1, CallInvalidKeeps, CallPlainKeeps, SettleKeeps
<1>2. ASSUME NEW c \in Calls, Resume(c) \/ Finish(c) PROVE IInv'
  BY <1>2, OwnerSucceedsKeeps, OwnerFailsKeeps, JoinerResumesKeeps, ThrowTimeoutKeeps,
     MakeRequestKeeps DEF Resume, Finish
<1>3. ASSUME NEW c \in Calls, NEW n \in Names,
             CallCached(c, n) \/ CallJoins(c, n) \/ CallResolves(c, n)
      PROVE  IInv'
  BY <1>3, CallCachedKeeps, CallJoinsKeeps, CallResolvesKeeps
<1>4. ASSUME NEW n \in Names, Evict(n) PROVE IInv'
  BY <1>4, EvictKeeps
<1>5. CASE UNCHANGED vars
  BY <1>5 DEF vars, IInv, TypeOK, QueueTracksPending, Fresh, Resolutions, Joined,
     HonestAnswers, Honest, TimedOut, ProperUnlessTimedOut, SocketsSettled, Unmade
<1> QED
  BY <1>1, <1>2, <1>3, <1>4, <1>5 DEF Next

LEMMA AlwaysIInv == Spec => []IInv
  BY InitIInv, NextIInv, PTL DEF Spec

\* One resolution at a time per host: the queue of createResolveProtocol() holds
\* exactly the resolutions whose owner has not resumed.
THEOREM OneResolution == Spec => []QueueTracksPending
<1>1. IInv => QueueTracksPending
  BY DEF IInv
<1> QED
  BY <1>1, AlwaysIInv, PTL

\* auto() makes the request its host negotiates, unless a resolution of that host
\* timed out.
THEOREM ProtocolHonest == Spec => []ProperUnlessTimedOut
<1>1. IInv => ProperUnlessTimedOut
  BY DEF IInv
<1> QED
  BY <1>1, AlwaysIInv, PTL

\* By the time a call has ended, its resolved socket is destroyed or owned by what
\* speaks its protocol, unless the HTTP/2 request that was to reuse it was never made.
THEOREM SocketsAccounted == Spec => []SocketsSettled
<1>1. IInv => SocketsSettled
  BY DEF IInv
<1> QED
  BY <1>1, AlwaysIInv, PTL

\* The cache, the queue and every call keep their types.
THEOREM TypeCorrect == Spec => []TypeOK
<1>1. IInv => TypeOK
  BY DEF IInv
<1> QED
  BY <1>1, AlwaysIInv, PTL
=============================================================================
