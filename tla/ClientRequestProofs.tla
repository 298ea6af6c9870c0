------------------------- MODULE ClientRequestProofs -------------------------
(***************************************************************************)
(* Theorems about ClientRequest.  Helpers map a state to a state, so what  *)
(* they keep is a lemma about each of them, and an action composes these   *)
(* lemmas as the code composes the calls.                                  *)
(***************************************************************************)
EXTENDS ClientRequest, SequenceTheorems, TLAPS

\* Until a stream is there the agent may still answer, there is no response, and
\* every call is a job.
Awaited(st) ==
  /\ ~st.request.flushed => st.stream.phase = "none" /\ st.request.promise = "none"
  /\ st.request.promise # "none" /\ ~st.request.resumed => st.stream.phase = "none"
  /\ st.stream.phase = "none" => st.response = None /\ st.request.jobs = st.request.issued

\* A stream with handlers got every call.
Forwarded(st) ==
  st.stream.attached => st.stream.phase # "none" /\ st.stream.calls = st.request.issued

\* A stream is paused only while its response has something to read or is destroyed.
Flows(st) ==
  IF st.response = None THEN ~st.stream.paused
  ELSE st.stream.paused => st.response.destroyed \/ st.response.buffered > 0

\* The `end' event of a response is due only if there is one ...
Ends(st) == \E i \in 1..Len(st.ticks) : st.ticks[i] = "end"

\* ... and the `close' event of a stream only after it was there.
Closing(st) == \E i \in 1..Len(st.ticks) : st.ticks[i] = "streamClose"

\* What each helper keeps ...
Sound(st) ==
  /\ st \in StateType /\ Awaited(st) /\ Forwarded(st) /\ Flows(st)
  /\ Ends(st) => st.response # None
  /\ Closing(st) => st.stream.phase # "none"

\* ... and what holds again when a handler is through.
NoOrphan(st) ==
  st.request.destroyed \/ (st.response # None /\ st.response.destroyed) => st.stream.phase # "open"

Good(st) == Sound(st) /\ NoOrphan(st)

IInv == Good(Now)
------------------------------------------------------------------------------
LEMMA BecomeGood == ASSUME NEW st, Good(st), Become(st) PROVE IInv'
<1>1. Now' = st
  BY DEF Become, Now, Good, Sound, StateType
<1> QED
  BY <1>1 DEF IInv

LEMMA InitGood == Init => IInv
<1> SUFFICES ASSUME Init PROVE IInv
  OBVIOUS
<1>1. PICK method \in Methods, session \in Sessions, listening \in BOOLEAN :
        request = NewRequest(method, session, listening)
  BY DEF Init
<1>2. request \in RequestType /\ NewStream("none") \in StreamType
  BY <1>1 DEF NewRequest, NewStream, RequestType, StreamType, CallList
<1>3. Now \in StateType
  BY <1>2 DEF Init, Now, StateType
<1> QED
  BY <1>1, <1>3 DEF Init, IInv, Good, Sound, NoOrphan, Awaited, Forwarded, Flows, Ends, Closing,
     Now, NewRequest, NewStream

Events == {"abort", "close", "end", "streamError", "streamClose"}

LEMMA AppendTick ==
  ASSUME NEW s \in Seq(Events), NEW e \in Events
  PROVE  /\ Append(s, e) \in Seq(Events)
         /\ \A i \in 1..Len(Append(s, e)) :
              Append(s, e)[i] # e => i \in 1..Len(s) /\ s[i] = Append(s, e)[i]
BY AppendProperties

\* Marking an object destroyed or aborted leaves the stream, the calls and the
\* promise alone.
Marked(st, t) ==
  /\ t.stream = st.stream /\ (t.response = None <=> st.response = None)
  /\ st.response # None => /\ t.response.buffered = st.response.buffered
                           /\ st.response.destroyed => t.response.destroyed
  /\ t.request.flushed = st.request.flushed /\ t.request.promise = st.request.promise
  /\ t.request.resumed = st.request.resumed
  /\ t.request.jobs = st.request.jobs /\ t.request.issued = st.request.issued
  /\ (Ends(t) => Ends(st)) /\ (Closing(t) => Closing(st))

LEMMA MarkedSound ==
  ASSUME NEW st, Sound(st), NEW t \in StateType, Marked(st, t) PROVE Sound(t)
BY DEF Sound, Marked, Awaited, Forwarded, Flows

LEMMA DumpSound ==
  ASSUME NEW st, Sound(st)
  PROVE  Sound(Dump(st)) /\ Marked(st, Dump(st)) /\ Dump(st).request = st.request
         /\ Dump(st).ticks = st.ticks
<1> DEFINE r == [st.response EXCEPT !.dumped = TRUE]
           t == [st EXCEPT !.response = r]
<1>1. CASE st.response = None
  BY <1>1 DEF Sound, Dump, Marked
<1>2. CASE st.response # None
  <2>1. /\ r \in ResponseType /\ r.buffered = st.response.buffered /\ r # None
        /\ (st.response.destroyed => r.destroyed)
    <3>1. st.response \in ResponseType
      BY <1>2 DEF Sound, StateType
    <3>2. /\ r \in ResponseType /\ r.buffered = st.response.buffered
          /\ (st.response.destroyed => r.destroyed)
      BY <3>1 DEF ResponseType
    <3> QED
      BY <3>2, NoneAssumption
  <2> HIDE DEF r
  <2>2. t \in StateType /\ Marked(st, t) /\ t.request = st.request /\ t.ticks = st.ticks
    BY <1>2, <2>1 DEF Sound, StateType, Marked, Ends, Closing
  <2>3. Dump(st) = t
    BY <1>2 DEF Dump, r
  <2> HIDE DEF t
  <2> QED
    BY <2>2, <2>3, MarkedSound
<1> QED
  BY <1>1, <1>2

LEMMA MarkResponseSound ==
  ASSUME NEW st, Sound(st), st.response # None
  PROVE  Sound(MarkResponse(st)) /\ Marked(st, MarkResponse(st))
         /\ MarkResponse(st).request = st.request
<1> DEFINE r == [st.response EXCEPT !.destroyed = TRUE, !.aborted = @ \/ ~st.response.complete]
           t == [st EXCEPT !.response = r]
<1>1. CASE st.response.destroyed
  BY <1>1 DEF Sound, MarkResponse, Marked
<1>2. CASE ~st.response.destroyed
  <2>1. /\ r \in ResponseType /\ r.buffered = st.response.buffered /\ r # None
        /\ (st.response.destroyed => r.destroyed)
    <3>1. st.response \in ResponseType
      BY DEF Sound, StateType
    <3>2. /\ r \in ResponseType /\ r.buffered = st.response.buffered
          /\ (st.response.destroyed => r.destroyed)
      BY <3>1 DEF ResponseType
    <3> QED
      BY <3>2, NoneAssumption
  <2>2. MarkResponse(st) = t
    BY <1>2 DEF MarkResponse, Sound, StateType
  <2> HIDE DEF r
  <2>3. t \in StateType /\ Marked(st, t) /\ t.request = st.request
    BY <2>1 DEF Sound, StateType, Marked, Ends, Closing
  <2> HIDE DEF t
  <2> QED
    BY <2>2, <2>3, MarkedSound
<1> QED
  BY <1>1, <1>2

LEMMA MarkRequestSound ==
  ASSUME NEW st, Sound(st), NEW error \in BOOLEAN
  PROVE  Sound(MarkRequest(st, error)) /\ Marked(st, MarkRequest(st, error))
<1>1. MarkRequest(st, error) \in StateType /\ Marked(st, MarkRequest(st, error))
  <2>1. CASE st.request.destroyed
    BY <2>1 DEF MarkRequest, Sound, Marked
  <2>2. CASE ~st.request.destroyed
    <3> DEFINE d == Dump(st)
               w == IF st.request.promise # "none" /\ ~st.request.resumed THEN "promise" ELSE "tick"
               m == [d EXCEPT !.request.destroyed = TRUE, !.request.error = error,
                              !.request.awaiting = w]
               n == [m EXCEPT !.ticks = Append(@, "close")]
    <3>1. d \in StateType /\ Marked(st, d)
      BY DumpSound DEF Sound
    <3>2. w \in {"no", "tick", "promise"}
      OBVIOUS
    <3>3. MarkRequest(st, error) = m \/ MarkRequest(st, error) = n
      BY <2>2 DEF MarkRequest
    <3> HIDE DEF d, w
    <3>4. m \in StateType /\ Marked(st, m)
      <4>1. /\ m \in StateType /\ m.stream = d.stream /\ m.response = d.response
            /\ m.ticks = d.ticks
            /\ m.request.flushed = d.request.flushed /\ m.request.promise = d.request.promise
            /\ m.request.resumed = d.request.resumed
            /\ m.request.jobs = d.request.jobs /\ m.request.issued = d.request.issued
        BY <3>1, <3>2 DEF StateType, RequestType
      <4> HIDE DEF m
      <4> QED
        BY <3>1, <4>1 DEF Marked, Ends, Closing
    <3> HIDE DEF m
    <3>5. n \in StateType /\ Marked(st, n)
      <4>1. st.ticks \in Seq(Events) /\ m.ticks \in Seq(Events)
        BY <3>4 DEF StateType, Events, Sound
      <4>2. /\ Append(m.ticks, "close") \in Seq(Events)
            /\ \A i \in 1..Len(Append(m.ticks, "close")) :
                 Append(m.ticks, "close")[i] # "close" =>
                   i \in 1..Len(m.ticks) /\ m.ticks[i] = Append(m.ticks, "close")[i]
        BY <4>1, AppendTick DEF Events
      <4>3. n \in StateType /\ n.ticks = Append(m.ticks, "close") /\ n.request = m.request
            /\ n.stream = m.stream /\ n.response = m.response
        BY <3>4, <4>2 DEF StateType, Events
      <4> QED
        BY <3>4, <4>2, <4>3 DEF Marked, Ends, Closing
    <3> HIDE DEF n
    <3> QED
      BY <3>3, <3>4, <3>5
  <2> QED
    BY <2>1, <2>2
<1> QED
  BY <1>1, MarkedSound

LEMMA AbortResponseSound ==
  ASSUME NEW st, Sound(st), st.response # None
  PROVE  Sound(AbortResponse(st)) /\ Marked(st, AbortResponse(st))
<1> DEFINE r == [st.response EXCEPT !.aborted = TRUE, !.abortedEvents = @ + 1]
           t == [st EXCEPT !.response = r]
<1>1. /\ r \in ResponseType /\ r.buffered = st.response.buffered /\ r # None
      /\ (st.response.destroyed => r.destroyed)
  <2>1. st.response \in ResponseType
    BY DEF Sound, StateType
  <2>2. st.response.abortedEvents + 1 \in Nat
    BY <2>1 DEF ResponseType
  <2>3. /\ r \in ResponseType /\ r.buffered = st.response.buffered
        /\ (st.response.destroyed => r.destroyed)
    BY <2>1, <2>2 DEF ResponseType
  <2> QED
    BY <2>3, NoneAssumption
<1>2. AbortResponse(st) = MarkResponse(t)
  BY DEF AbortResponse, Sound, StateType
<1> HIDE DEF r
<1>3. t \in StateType /\ Marked(st, t) /\ t.response # None
  BY <1>1 DEF Sound, StateType, Marked, Ends, Closing
<1> HIDE DEF t
<1>4. Sound(t)
  BY <1>3, MarkedSound
<1>5. Sound(MarkResponse(t)) /\ Marked(t, MarkResponse(t))
  BY <1>3, <1>4, MarkResponseSound
<1> QED
  BY <1>2, <1>3, <1>5 DEF Marked

LEMMA OnAbortedSound ==
  ASSUME NEW st, Sound(st)
  PROVE  Sound(OnAborted(st)) /\ Marked(st, OnAborted(st))
BY AbortResponseSound, MarkRequestSound DEF OnAborted

\* The stream a helper leaves is the old one, or that one destroyed.
Released(st, t) ==
  /\ t.stream.phase # "open"
  /\ st.response # None => t.response # None

LEMMA StreamDestroySound ==
  ASSUME NEW st, Sound(st), NEW failed \in BOOLEAN
  PROVE  Sound(StreamDestroy(st, failed)) /\ Released(st, StreamDestroy(st, failed))
<1>1. CASE st.stream.phase # "open"
  BY <1>1 DEF StreamDestroy, Released
<1>2. CASE st.stream.phase = "open"
  <2> DEFINE more == IF failed THEN <<"streamError", "streamClose">> ELSE <<"streamClose">>
             queue == st.ticks \o more
             gone == [st EXCEPT !.stream.phase = "destroyed", !.stream.failed = failed,
                                !.ticks = queue]
  <2>1. StreamDestroy(st, failed) = gone \/ StreamDestroy(st, failed) = OnAborted(gone)
    BY <1>2 DEF StreamDestroy
  <2>2. /\ queue \in Seq(Events)
        /\ \A i \in 1..Len(queue) :
             queue[i] = "end" => i \in 1..Len(st.ticks) /\ st.ticks[i] = "end"
    <3>1. st.ticks \in Seq(Events) /\ more \in Seq(Events)
      <4>1. st.ticks \in Seq(Events)
        BY DEF Sound, StateType, Events
      <4>2. <<"streamError", "streamClose">> \in Seq(Events) /\ <<"streamClose">> \in Seq(Events)
        BY DEF Events
      <4> QED
        BY <4>1, <4>2
    <3>2. \A i \in 1..Len(more) : more[i] # "end"
      OBVIOUS
    <3> HIDE DEF more
    <3>3. /\ queue \in Seq(Events) /\ Len(queue) = Len(st.ticks) + Len(more)
          /\ \A i \in 1..(Len(st.ticks) + Len(more)) :
               queue[i] = IF i <= Len(st.ticks) THEN st.ticks[i] ELSE more[i - Len(st.ticks)]
      BY <3>1, ConcatProperties
    <3>4. Len(st.ticks) \in Nat /\ Len(more) \in Nat
      BY <3>1, LenProperties
    <3> HIDE DEF queue
    <3>5. ASSUME NEW i \in 1..Len(queue), queue[i] = "end"
          PROVE  i \in 1..Len(st.ticks) /\ st.ticks[i] = "end"
      <4>1. CASE i <= Len(st.ticks)
        BY <3>3, <3>4, <3>5, <4>1
      <4>2. CASE i > Len(st.ticks)
        <5>1. i - Len(st.ticks) \in 1..Len(more) /\ queue[i] = more[i - Len(st.ticks)]
          BY <3>3, <3>4, <4>2
        <5> QED
          BY <3>2, <3>5, <5>1
      <4> QED
        BY <3>3, <3>4, <4>1, <4>2
    <3> QED
      BY <3>3, <3>5
  <2> HIDE DEF queue, more
  <2>3. gone \in StateType
    BY <2>2 DEF Sound, StateType, StreamType, Events
  <2>4. /\ gone.request = st.request /\ gone.response = st.response /\ gone.ticks = queue
        /\ gone.stream.phase = "destroyed" /\ gone.stream.attached = st.stream.attached
        /\ gone.stream.calls = st.stream.calls /\ gone.stream.paused = st.stream.paused
    BY DEF Sound, StateType, StreamType
  <2> HIDE DEF gone
  <2>5. Ends(gone) => Ends(st)
    BY <2>2, <2>4 DEF Ends, Closing
  <2>6. Awaited(gone) /\ Forwarded(gone) /\ Flows(gone)
    BY <1>2, <2>4 DEF Sound, Awaited, Forwarded, Flows
  <2>7. Sound(gone)
    BY <2>3, <2>4, <2>5, <2>6 DEF Sound
  <2>8. Sound(OnAborted(gone)) /\ Marked(gone, OnAborted(gone))
    BY <2>7, OnAbortedSound
  <2> QED
    BY <2>1, <2>4, <2>7, <2>8 DEF Released, Marked
<1> QED
  BY <1>1, <1>2
------------------------------------------------------------------------------
(* Helpers that end a handler.                                              *)

LEMMA ReleasedGood ==
  ASSUME NEW st, Sound(st), st.stream.phase # "open" PROVE Good(st)
BY DEF Good, NoOrphan

LEMMA RequestDestroyGood ==
  ASSUME NEW st, Good(st), NEW error \in BOOLEAN
  PROVE  /\ Good(RequestDestroy(st, error))
         /\ st.response # None => RequestDestroy(st, error).response # None
<1>1. CASE st.request.destroyed
  BY <1>1 DEF RequestDestroy
<1>2. CASE ~st.request.destroyed
  <2> DEFINE marked == MarkRequest(st, error)
             t == StreamDestroy(marked, FALSE)
  <2>1. Sound(marked) /\ Marked(st, marked)
    BY MarkRequestSound DEF Good
  <2> HIDE DEF marked
  <2>2. Sound(t) /\ Released(marked, t)
    BY <2>1, StreamDestroySound
  <2>3. RequestDestroy(st, error) = t
    BY <1>2 DEF RequestDestroy, marked
  <2> HIDE DEF t
  <2> QED
    BY <2>1, <2>2, <2>3, ReleasedGood DEF Released, Marked
<1> QED
  BY <1>1, <1>2

LEMMA ResponseDestroyGood ==
  ASSUME NEW st, Good(st), st.response # None, NEW error \in BOOLEAN
  PROVE  Good(ResponseDestroy(st, error))
<1>1. CASE st.response.destroyed
  BY <1>1 DEF ResponseDestroy
<1>2. CASE ~st.response.destroyed
  <2> DEFINE marked == MarkResponse(st)
             t == StreamDestroy(marked, error)
  <2>1. Sound(marked)
    BY MarkResponseSound DEF Good
  <2> HIDE DEF marked
  <2>2. Sound(t) /\ Released(marked, t)
    BY <2>1, StreamDestroySound
  <2>3. ResponseDestroy(st, error) = t
    BY <1>2 DEF ResponseDestroy, marked
  <2> HIDE DEF t
  <2> QED
    BY <2>2, <2>3, ReleasedGood DEF Released
<1> QED
  BY <1>1, <1>2

LEMMA EmitCloseFields ==
  ASSUME NEW st \in StateType
  PROVE  LET t == EmitClose(st)
         IN /\ t \in StateType /\ t.stream = st.stream /\ t.response = st.response
            /\ t.ticks = st.ticks /\ t.request.closes = st.request.closes + 1
            /\ t.request.method = st.request.method
            /\ t.request.destroyed = st.request.destroyed
            /\ Marked(st, t)
<1> DEFINE q == [st.request EXCEPT !.closes = @ + 1]
           t == [st EXCEPT !.request = q]
<1>1. st.request \in RequestType /\ st.request.closes + 1 \in Nat
  BY DEF StateType, RequestType
<1>2. /\ q \in RequestType /\ q.closes = st.request.closes + 1
      /\ q.method = st.request.method /\ q.destroyed = st.request.destroyed
      /\ q.flushed = st.request.flushed /\ q.promise = st.request.promise
      /\ q.resumed = st.request.resumed
      /\ q.jobs = st.request.jobs /\ q.issued = st.request.issued
  BY <1>1 DEF RequestType
<1>3. EmitClose(st) = t
  BY DEF EmitClose, StateType
<1> HIDE DEF q
<1>4. /\ t \in StateType /\ t.request = q /\ t.stream = st.stream /\ t.response = st.response
      /\ t.ticks = st.ticks
  BY <1>2 DEF StateType
<1> HIDE DEF t
<1>5. Marked(st, t)
  BY <1>2, <1>4 DEF Marked, Ends, Closing
<1> QED
  BY <1>2, <1>3, <1>4, <1>5

LEMMA EmitCloseGood ==
  ASSUME NEW st, Good(st)
  PROVE  Good(EmitClose(st)) /\ EmitClose(st).response = st.response
<1> DEFINE t == EmitClose(st)
<1>1. t \in StateType /\ Marked(st, t) /\ t.response = st.response
      /\ t.request.destroyed = st.request.destroyed
  BY EmitCloseFields DEF Good, Sound
<1> HIDE DEF t
<1>2. Sound(t)
  BY <1>1, MarkedSound DEF Good
<1>3. NoOrphan(t)
  BY <1>1 DEF Good, NoOrphan, Marked
<1> QED
  BY <1>1, <1>2, <1>3 DEF Good, t

------------------------------------------------------------------------------
(* The stream arrives.                                                      *)

LEMMA OnStreamGood ==
  ASSUME NEW st, Sound(st), st.stream.phase = "none", st.request.flushed,
         st.request.promise = "none" \/ st.request.resumed
  PROVE  Good(OnStream(st))
<1>1. CASE st.request.destroyed
  <2> DEFINE t == [st EXCEPT !.stream = NewStream("open")]
  <2>1. NewStream("open") \in StreamType
    BY DEF NewStream, StreamType, CallList
  <2>2. /\ t \in StateType /\ t.request = st.request /\ t.response = st.response
        /\ t.ticks = st.ticks /\ t.stream = NewStream("open")
    BY <2>1 DEF Sound, StateType
  <2>3. OnStream(st) = StreamDestroy(t, FALSE)
    BY <1>1 DEF OnStream
  <2> HIDE DEF t
  <2>4. Sound(t)
    BY <2>2 DEF Sound, Awaited, Forwarded, Flows, Ends, Closing, NewStream
  <2>5. Sound(StreamDestroy(t, FALSE)) /\ Released(t, StreamDestroy(t, FALSE))
    BY <2>4, StreamDestroySound
  <2> QED
    BY <2>3, <2>5, ReleasedGood DEF Released
<1>2. CASE ~st.request.destroyed
  <2> DEFINE new == [NewStream("open") EXCEPT !.attached = TRUE, !.calls = st.request.jobs]
             q == [st.request EXCEPT !.jobs = <<>>]
             t == [st EXCEPT !.stream = new, !.request = q]
  <2>1. /\ new \in StreamType /\ new.phase = "open" /\ ~new.paused
        /\ new.calls = st.request.jobs
    <3>1. st.request.jobs \in CallList
      BY DEF Sound, StateType, RequestType
    <3> QED
      BY <3>1 DEF NewStream, StreamType
  <2>2. OnStream(st) = t
    BY <1>2 DEF OnStream, Sound, StateType
  <2> HIDE DEF new
  <2>3. /\ q \in RequestType /\ q.flushed = st.request.flushed
        /\ q.destroyed = st.request.destroyed /\ q.promise = st.request.promise
        /\ q.resumed = st.request.resumed /\ q.issued = st.request.issued
    <3>1. st.request \in RequestType /\ <<>> \in CallList
      BY DEF Sound, StateType, CallList
    <3> QED
      BY <3>1 DEF RequestType
  <2> HIDE DEF q
  <2>4. /\ t \in StateType /\ t.response = st.response /\ t.ticks = st.ticks /\ t.stream = new
        /\ t.request.flushed /\ ~t.request.destroyed
        /\ t.request.promise = st.request.promise /\ t.request.resumed = st.request.resumed
        /\ t.request.issued = st.request.issued
    BY <1>2, <2>1, <2>3 DEF Sound, StateType
  <2> HIDE DEF t
  <2>5. Sound(t)
    BY <2>1, <2>4 DEF Sound, Awaited, Forwarded, Flows, Ends, Closing
  <2>6. NoOrphan(t)
    BY <2>4 DEF NoOrphan, Sound, Awaited
  <2> QED
    BY <2>2, <2>5, <2>6 DEF Good
<1> QED
  BY <1>1, <1>2

LEMMA FlushGood == ASSUME NEW st, Good(st) PROVE Good(Flush(st))
<1>1. CASE st.request.flushed \/ st.request.destroyed
  BY <1>1 DEF Flush
<1>2. CASE ~st.request.flushed /\ ~st.request.destroyed
  <2> DEFINE flushed == [st EXCEPT !.request.flushed = TRUE]
  <2>1. /\ flushed \in StateType /\ flushed.stream = st.stream /\ flushed.response = st.response
        /\ flushed.ticks = st.ticks
        /\ flushed.request.flushed /\ flushed.request.destroyed = st.request.destroyed
        /\ flushed.request.promise = st.request.promise
        /\ flushed.request.resumed = st.request.resumed
        /\ flushed.request.jobs = st.request.jobs /\ flushed.request.issued = st.request.issued
    BY DEF Good, Sound, StateType, RequestType
  <2>2. flushed.stream.phase = "none" /\ flushed.request.promise = "none"
    BY <1>2, <2>1 DEF Good, Sound, Awaited
  <2>3. CASE st.request.session = "agent"
    <3> DEFINE t == [flushed EXCEPT !.request.promise = "pending"]
    <3>1. Flush(st) = t
      BY <1>2, <2>3 DEF Flush
    <3> HIDE DEF flushed
    <3>2. /\ t \in StateType /\ t.stream = st.stream /\ t.response = st.response
          /\ t.ticks = st.ticks /\ t.request.flushed
          /\ t.request.jobs = st.request.jobs /\ t.request.issued = st.request.issued
      BY <2>1 DEF StateType, RequestType
    <3> HIDE DEF t
    <3>3. Sound(t)
      BY <2>1, <2>2, <3>2 DEF Good, Sound, Awaited, Forwarded, Flows, Ends, Closing
    <3> QED
      BY <2>1, <2>2, <3>1, <3>2, <3>3, ReleasedGood
  <2>4. CASE st.request.session # "agent"
    <3>1. st.request.session \in {"open", "refusing"}
      BY <2>4, SessionsAssumption DEF Good, Sound, StateType, RequestType
    <3>2. \/ Flush(st) = OnStream(flushed)
          \/ Flush(st) = RequestDestroy(flushed, TRUE)
      BY <1>2, <3>1 DEF Flush
    <3> HIDE DEF flushed
    <3>3. Sound(flushed)
      BY <2>1 DEF Good, Sound, Awaited, Forwarded, Flows, Ends, Closing
    <3>4. Good(flushed)
      BY <2>2, <3>3, ReleasedGood
    <3> QED
      BY <2>1, <2>2, <3>2, <3>3, <3>4, OnStreamGood, RequestDestroyGood
  <2> QED
    BY <2>3, <2>4
<1> QED
  BY <1>1, <1>2

LEMMA IssueGood ==
  ASSUME NEW st, Good(st), NEW kind \in {"write", "end", "setTimeout"}
  PROVE  Good(Issue(st, kind))
<1> DEFINE call == <<kind, Len(st.request.issued) + 1>>
           issued == Append(st.request.issued, call)
           job == [st EXCEPT !.request.issued = issued, !.request.jobs = Append(@, call)]
           made == [st EXCEPT !.request.issued = issued, !.stream.calls = Append(@, call)]
<1>1. /\ issued \in CallList
      /\ Append(st.request.jobs, call) \in CallList /\ Append(st.stream.calls, call) \in CallList
  <2>1. st.request.issued \in CallList /\ st.request.jobs \in CallList /\ st.stream.calls \in CallList
    BY DEF Good, Sound, StateType, RequestType, StreamType
  <2>2. Len(st.request.issued) + 1 \in Nat
    BY <2>1, LenProperties DEF CallList
  <2> QED
    BY <2>1, <2>2, AppendProperties DEF CallList
<1>2. Issue(st, kind) = IF st.stream.phase = "none" THEN job ELSE made
  BY DEF Issue, Good, Sound, StateType, RequestType
<1> HIDE DEF issued, call
<1>3. CASE st.stream.phase = "none"
  <2>1. /\ job \in StateType /\ job.stream = st.stream /\ job.response = st.response
        /\ job.ticks = st.ticks /\ job.request.flushed = st.request.flushed
        /\ job.request.promise = st.request.promise /\ job.request.resumed = st.request.resumed
        /\ job.request.issued = issued /\ job.request.jobs = Append(st.request.jobs, call)
    BY <1>1 DEF Good, Sound, StateType, RequestType
  <2> HIDE DEF job
  <2>2. Sound(job)
    BY <1>3, <2>1 DEF Good, Sound, Awaited, Forwarded, Flows, Ends, Closing, issued
  <2> QED
    BY <1>2, <1>3, <2>1, <2>2, ReleasedGood
<1>4. CASE st.stream.phase # "none"
  <2>1. /\ made \in StateType /\ made.response = st.response /\ made.ticks = st.ticks
        /\ made.stream.phase = st.stream.phase /\ made.stream.attached = st.stream.attached
        /\ made.stream.paused = st.stream.paused /\ made.stream.calls = Append(st.stream.calls, call)
        /\ made.request.flushed = st.request.flushed /\ made.request.destroyed = st.request.destroyed
        /\ made.request.promise = st.request.promise /\ made.request.resumed = st.request.resumed
        /\ made.request.issued = issued
    BY <1>1 DEF Good, Sound, StateType, RequestType, StreamType
  <2> HIDE DEF made
  <2>2. Sound(made)
    BY <1>4, <2>1 DEF Good, Sound, Awaited, Forwarded, Flows, Ends, Closing, issued
  <2>3. NoOrphan(made)
    BY <2>1 DEF Good, NoOrphan
  <2> QED
    BY <1>2, <1>4, <2>2, <2>3 DEF Good
<1> QED
  BY <1>3, <1>4

LEMMA WriteNextGood ==
  ASSUME NEW st, Good(st)
  PROVE  Good(CallWrite(st)) /\ Good(CallFinal(st)) /\ Good(WriteNext(st))
BY FlushGood, IssueGood DEF CallWrite, CallFinal, WriteNext

LEMMA FinishGood ==
  ASSUME NEW st, Good(st), st.response # None
  PROVE  Good(Finish(st)) /\ Finish(st).response # None
<1> DEFINE r == [st.response EXCEPT !.closes = @ + 1]
           t == [st EXCEPT !.response = r]
<1>1. /\ r \in ResponseType /\ r.buffered = st.response.buffered /\ r.destroyed = st.response.destroyed
      /\ (st.response.destroyed => r.destroyed)
  <2>1. st.response \in ResponseType
    BY DEF Good, Sound, StateType
  <2>2. st.response.closes + 1 \in Nat
    BY <2>1 DEF ResponseType
  <2> QED
    BY <2>1, <2>2 DEF ResponseType
<1>2. Finish(st) = EmitClose(RequestDestroy(t, FALSE))
  BY DEF Finish
<1> HIDE DEF r
<1>3. t \in StateType /\ Marked(st, t) /\ t.response = r /\ t.request = st.request
  BY <1>1, NoneAssumption DEF Good, Sound, StateType, Marked, Ends, Closing
<1> HIDE DEF t
<1>4. Sound(t)
  BY <1>3, MarkedSound DEF Good
<1>5. NoOrphan(t)
  BY <1>1, <1>3 DEF Good, NoOrphan, Marked
<1>6. Good(t) /\ t.response # None
  BY <1>3, <1>4, <1>5 DEF Good, Marked
<1> DEFINE d == RequestDestroy(t, FALSE)
<1>7. Good(d) /\ d.response # None
  BY <1>6, RequestDestroyGood
<1> HIDE DEF d
<1>8. Good(EmitClose(d)) /\ EmitClose(d).response # None
  BY <1>7, EmitCloseGood
<1> QED
  BY <1>2, <1>8 DEF d

LEMMA OnStreamCloseGood ==
  ASSUME NEW st, Sound(st), st.stream.phase # "open" PROVE Good(OnStreamClose(st))
<1>1. Good(st)
  BY ReleasedGood
<1>2. CASE st.response = None
  BY <1>1, <1>2, RequestDestroyGood, EmitCloseGood DEF OnStreamClose
<1>3. CASE st.response # None
  <2> DEFINE told == IF st.request.aborted THEN AbortResponse(st) ELSE st
             r == [told.response EXCEPT !.waited = TRUE]
             t == [told EXCEPT !.response = r]
  <2>1. Sound(told) /\ Marked(st, told)
    BY <1>3, AbortResponseSound DEF Marked
  <2>2. OnStreamClose(st) = t \/ OnStreamClose(st) = Finish(told)
    BY <1>3 DEF OnStreamClose
  <2> HIDE DEF told
  <2>3. Good(told) /\ told.response # None
    BY <1>3, <2>1, ReleasedGood DEF Marked
  <2>4. /\ r \in ResponseType /\ r.buffered = told.response.buffered
        /\ (told.response.destroyed => r.destroyed)
    <3>1. told.response \in ResponseType
      BY <2>1, <2>3 DEF Sound, StateType
    <3> QED
      BY <3>1 DEF ResponseType
  <2> HIDE DEF r
  <2>5. t \in StateType /\ Marked(told, t)
    BY <2>1, <2>3, <2>4, NoneAssumption DEF Sound, StateType, Marked, Ends, Closing
  <2> HIDE DEF t
  <2>6. Good(t)
    BY <2>1, <2>5, MarkedSound, ReleasedGood DEF Marked
  <2> QED
    BY <2>2, <2>3, <2>6, FinishGood
<1> QED
  BY <1>2, <1>3

LEMMA OnEndGood == ASSUME NEW st, Good(st), st.response # None PROVE Good(OnEnd(st))
<1> DEFINE r == [st.response EXCEPT !.complete = TRUE]
           t == [st EXCEPT !.response = r]
           u == IF st.response.waited THEN Finish(t) ELSE t
<1>1. /\ r \in ResponseType /\ r.buffered = st.response.buffered
      /\ (st.response.destroyed => r.destroyed)
      /\ r.destroyed = st.response.destroyed /\ r.waited = st.response.waited
  <2>1. st.response \in ResponseType
    BY DEF Good, Sound, StateType
  <2> QED
    BY <2>1 DEF ResponseType
<1>2. t \in StateType /\ Marked(st, t) /\ t.response = r /\ t.request = st.request
  <2> HIDE DEF r
  <2> QED
    BY <1>1, NoneAssumption DEF Good, Sound, StateType, Marked, Ends, Closing
<1>3. OnEnd(st) = ResponseDestroy(u, FALSE)
  BY DEF OnEnd
<1> HIDE DEF r, t
<1>4. Good(t) /\ t.response # None
  <2>1. Sound(t)
    BY <1>2, MarkedSound DEF Good
  <2>2. NoOrphan(t)
    BY <1>1, <1>2 DEF Good, NoOrphan, Marked
  <2> QED
    BY <1>2, <2>1, <2>2 DEF Good, Marked
<1>5. Good(Finish(t)) /\ Finish(t).response # None
  BY <1>4, FinishGood
<1> QED
  BY <1>3, <1>4, <1>5, ResponseDestroyGood
------------------------------------------------------------------------------
(* The actions.                                                             *)

\* A call or event that changes a part of the request none of the above looks at.
Aside(st, t) ==
  /\ t.stream = st.stream /\ t.response = st.response
  /\ t.request.flushed = st.request.flushed /\ t.request.promise = st.request.promise
  /\ t.request.resumed = st.request.resumed /\ t.request.destroyed = st.request.destroyed
  /\ t.request.jobs = st.request.jobs /\ t.request.issued = st.request.issued
  /\ (Ends(t) => Ends(st)) /\ (Closing(t) => Closing(st))

LEMMA AsideGood ==
  ASSUME NEW st, Good(st), NEW t \in StateType, Aside(st, t) PROVE Good(t)
<1>1. Sound(t)
  BY DEF Good, Sound, Aside, Awaited, Forwarded, Flows
<1> QED
  BY <1>1 DEF Good, NoOrphan, Aside

LEMMA CallsGood ==
  ASSUME IInv,
         WriteRefused \/ Write \/ End \/ SetTimeout \/ FlushHeaders \/ ChunkAccepted
  PROVE  IInv'
<1> DEFINE more == [Now EXCEPT !.request.pending = @ + 1]
           less == [Now EXCEPT !.request.pending = @ - 1]
           ending == [Now EXCEPT !.request.ending = TRUE]
           errored == [Now EXCEPT !.request.errored = TRUE]
<1>1. Now \in StateType /\ Now.request = request /\ request.pending \in Nat
  BY DEF IInv, Good, Sound, StateType, RequestType, Now
<1>2. Good(more)
  <2>1. request.pending + 1 \in Nat
    BY <1>1
  <2>2. more \in StateType /\ Aside(Now, more)
    BY <1>1, <2>1 DEF StateType, RequestType, Aside, Ends, Closing
  <2> QED
    BY <2>2, AsideGood DEF IInv
<1>3. Good(ending) /\ Good(errored)
  <2>1. /\ ending \in StateType /\ Aside(Now, ending)
        /\ errored \in StateType /\ Aside(Now, errored)
    BY <1>1 DEF StateType, RequestType, Aside, Ends, Closing
  <2> QED
    BY <2>1, AsideGood DEF IInv
<1>4. ASSUME request.pending > 0 PROVE Good(less)
  <2>1. request.pending - 1 \in Nat
    BY <1>1, <1>4
  <2>2. less \in StateType /\ Aside(Now, less)
    BY <1>1, <2>1 DEF StateType, RequestType, Aside, Ends, Closing
  <2> QED
    BY <2>2, AsideGood DEF IInv
<1>5. CASE WriteRefused
  BY <1>3, <1>5, BecomeGood DEF WriteRefused
<1>6. CASE Write
  BY <1>2, <1>6, WriteNextGood, BecomeGood DEF Write
<1>7. CASE End
  BY <1>3, <1>7, WriteNextGood, BecomeGood DEF End
<1>8. CASE SetTimeout
  BY <1>8, IssueGood, BecomeGood DEF SetTimeout, IInv
<1>9. CASE FlushHeaders
  BY <1>9, FlushGood, BecomeGood DEF FlushHeaders, IInv
<1>10. CASE ChunkAccepted
  BY <1>4, <1>10, WriteNextGood, BecomeGood DEF ChunkAccepted
<1> QED
  BY <1>5, <1>6, <1>7, <1>8, <1>9, <1>10

\* What the user said of the error is noted before the response is destroyed.
LEMMA Noted ==
  ASSUME Now \in StateType, response # None, NEW error \in BOOLEAN
  PROVE  LET t == [Now EXCEPT !.response.errored = error]
         IN  /\ t \in StateType /\ t.request = request /\ t.stream = stream /\ t.ticks = ticks
             /\ t.response = [response EXCEPT !.errored = error]
             /\ t.response # None /\ t.response \in ResponseType
<1> DEFINE r == [response EXCEPT !.errored = error]
           t == [Now EXCEPT !.response.errored = error]
<1>1. response \in ResponseType
  BY DEF Now, StateType
<1>2. r \in ResponseType /\ r # None
  <2>1. r \in ResponseType
    BY <1>1 DEF ResponseType
  <2> QED
    BY <2>1, NoneAssumption
<1>3. t.request = request /\ t.stream = stream /\ t.ticks = ticks /\ t.response = r
  BY DEF Now
<1>4. t = [Now EXCEPT !.response = r]
  BY DEF Now
<1>5. t \in StateType
  BY <1>2, <1>4 DEF StateType
<1> QED
  BY <1>2, <1>3, <1>5

LEMMA DestroysGood ==
  ASSUME IInv, NEW error \in BOOLEAN,
         Abort \/ DestroyRequest(error) \/ DestroyResponse(error) \/ StreamReset(error)
  PROVE  IInv'
<1>1. CASE Abort
  <2> DEFINE queue == Append(ticks, "abort")
             t == [Now EXCEPT !.request.aborted = TRUE, !.ticks = queue]
  <2>1. Now \in StateType /\ Now.ticks = ticks /\ ticks \in Seq(Events)
    BY DEF IInv, Good, Sound, StateType, Now, Events
  <2>2. /\ queue \in Seq(Events)
        /\ \A i \in 1..Len(queue) :
             queue[i] # "abort" => i \in 1..Len(ticks) /\ ticks[i] = queue[i]
    BY <2>1, AppendTick DEF Events
  <2>3. Become(RequestDestroy(t, FALSE))
    BY <1>1, <2>1 DEF Abort
  <2> HIDE DEF queue
  <2>4. t \in StateType /\ Aside(Now, t)
    BY <2>1, <2>2 DEF StateType, RequestType, Aside, Ends, Closing, Events
  <2> HIDE DEF t
  <2>5. Good(t)
    BY <2>4, AsideGood DEF IInv
  <2> QED
    BY <2>3, <2>5, RequestDestroyGood, BecomeGood
<1>2. CASE DestroyRequest(error)
  BY <1>2, RequestDestroyGood, BecomeGood DEF DestroyRequest, IInv
<1>3. CASE DestroyResponse(error)
  <2> DEFINE r == [response EXCEPT !.errored = error]
             t == [Now EXCEPT !.response.errored = error]
  <2>1. response # None /\ ~response.destroyed /\ Become(ResponseDestroy(t, error))
    BY <1>3 DEF DestroyResponse
  <2>2. /\ Now \in StateType /\ Now.request = request /\ Now.stream = stream
        /\ Now.response = response /\ Now.ticks = ticks /\ response \in ResponseType
    BY <2>1 DEF IInv, Good, Sound, Now, StateType
  <2>3. r.destroyed = response.destroyed /\ r.buffered = response.buffered
    BY <2>2 DEF ResponseType
  <2>4. /\ t \in StateType /\ t.request = request /\ t.stream = stream /\ t.ticks = ticks
        /\ t.response = r /\ r # None
    BY <2>1, <2>2, Noted
  <2> HIDE DEF r, t
  <2>5. Sound(t)
    BY <2>1, <2>2, <2>3, <2>4 DEF IInv, Good, Sound, Awaited, Forwarded, Flows, Ends, Closing
  <2>6. NoOrphan(t)
    BY <2>1, <2>2, <2>3, <2>4 DEF IInv, Good, NoOrphan
  <2> QED
    BY <2>1, <2>4, <2>5, <2>6, ResponseDestroyGood, BecomeGood DEF Good
<1>4. CASE StreamReset(error)
  BY <1>4, StreamDestroySound, ReleasedGood, BecomeGood DEF StreamReset, IInv, Good, Released
<1> QED
  BY <1>1, <1>2, <1>3, <1>4

LEMMA PromisesGood ==
  ASSUME IInv, NEW outcome \in {"resolved", "rejected"},
         AgentAnswers(outcome) \/ Resume \/ DestroyCallback
  PROVE  IInv'
<1>1. /\ Now \in StateType /\ Now.request = request /\ Now.stream = stream
      /\ Now.response = response /\ Now.ticks = ticks
  BY DEF IInv, Good, Sound, Now
<1>2. CASE AgentAnswers(outcome)
  <2> DEFINE t == [Now EXCEPT !.request.promise = outcome]
  <2>1. /\ t \in StateType /\ t.stream = stream /\ t.response = response /\ t.ticks = ticks
        /\ t.request.flushed = request.flushed /\ t.request.resumed = request.resumed
        /\ t.request.destroyed = request.destroyed /\ t.request.promise = outcome
        /\ t.request.jobs = request.jobs /\ t.request.issued = request.issued
    BY <1>1 DEF StateType, RequestType
  <2>2. request.promise = "pending" /\ Become(t)
    BY <1>2 DEF AgentAnswers
  <2> HIDE DEF t
  <2>3. Sound(t)
    BY <1>1, <2>1, <2>2 DEF IInv, Good, Sound, Awaited, Forwarded, Flows, Ends, Closing
  <2>4. NoOrphan(t)
    BY <1>1, <2>1 DEF IInv, Good, NoOrphan
  <2> QED
    BY <2>2, <2>3, <2>4, BecomeGood DEF Good
<1>3. CASE Resume
  <2> DEFINE t == [Now EXCEPT !.request.resumed = TRUE]
  <2>1. /\ t \in StateType /\ t.stream = stream /\ t.response = response /\ t.ticks = ticks
        /\ t.request.flushed = request.flushed /\ t.request.promise = request.promise
        /\ t.request.resumed /\ t.request.destroyed = request.destroyed
        /\ t.request.jobs = request.jobs /\ t.request.issued = request.issued
    BY <1>1 DEF StateType, RequestType
  <2>2. request.promise \in {"resolved", "rejected"} /\ ~request.resumed
    BY <1>3 DEF Resume
  <2>3. stream.phase = "none" /\ request.flushed
    BY <1>1, <2>2 DEF IInv, Good, Sound, Awaited
  <2>4. Become(OnStream(t)) \/ Become(RequestDestroy(t, TRUE))
    BY <1>3 DEF Resume
  <2> HIDE DEF t
  <2>5. Sound(t)
    BY <1>1, <2>1 DEF IInv, Good, Sound, Awaited, Forwarded, Flows, Ends, Closing
  <2>6. Good(t)
    BY <2>1, <2>3, <2>5, ReleasedGood
  <2>7. Good(OnStream(t)) /\ Good(RequestDestroy(t, TRUE))
    BY <2>1, <2>3, <2>5, <2>6, OnStreamGood, RequestDestroyGood
  <2> QED
    BY <2>4, <2>7, BecomeGood
<1>4. CASE DestroyCallback
  <2> DEFINE rejected == request.awaiting = "promise" /\ request.promise = "rejected"
             errored == request.errored \/ request.error \/ (rejected /\ request.aborted)
             t == [Now EXCEPT !.request.awaiting = "no", !.request.errored = errored]
  <2>1. errored \in BOOLEAN
    BY <1>1 DEF StateType, RequestType
  <2>2. Become(t)
    BY <1>1, <1>4 DEF DestroyCallback
  <2> HIDE DEF errored
  <2>3. t \in StateType /\ Aside(Now, t)
    BY <1>1, <2>1 DEF StateType, RequestType, Aside, Ends, Closing
  <2> QED
    BY <2>2, <2>3, AsideGood, BecomeGood DEF IInv
<1> QED
  BY <1>2, <1>3, <1>4

\* A response that is read or filled stays what it is otherwise.
LEMMA ResponseGood ==
  ASSUME IInv, response # None, NEW r \in ResponseType, r.destroyed = response.destroyed,
         NEW t \in StateType, t.request = request, t.response = r, t.ticks = ticks,
         t.stream.phase = stream.phase, t.stream.attached = stream.attached,
         t.stream.calls = stream.calls, t.stream.paused => r.destroyed \/ r.buffered > 0
  PROVE  Good(t)
<1>1. /\ Now.request = request /\ Now.stream = stream /\ Now.response = response /\ r # None
  BY NoneAssumption DEF Now
<1>2. Sound(t)
  BY <1>1 DEF IInv, Good, Sound, Awaited, Forwarded, Flows, Ends, Closing, Now
<1> QED
  BY <1>1, <1>2 DEF IInv, Good, NoOrphan

LEMMA ReadsGood == ASSUME IInv, ReadChunk \/ ReadEnd PROVE IInv'
<1>1. /\ Now \in StateType /\ Now.request = request /\ Now.stream = stream
      /\ Now.response = response /\ Now.ticks = ticks /\ ticks \in Seq(Events)
      /\ request \in RequestType /\ stream \in StreamType
  BY DEF IInv, Good, Sound, Now, StateType, Events
<1>2. response # None
  BY DEF ReadChunk, ReadEnd
<1>3. response \in ResponseType
  BY <1>1, <1>2 DEF StateType
<1>4. CASE ReadChunk
  <2> DEFINE r == [response EXCEPT !.buffered = @ - 1]
             f == [stream EXCEPT !.paused = FALSE]
             t == [Now EXCEPT !.response = r, !.stream = f]
  <2>1. response.buffered - 1 \in Nat
    BY <1>3, <1>4 DEF ReadChunk, ResponseType
  <2>2. r \in ResponseType /\ r.destroyed = response.destroyed
    BY <1>3, <2>1 DEF ResponseType
  <2>3. /\ f \in StreamType /\ f.phase = stream.phase /\ f.attached = stream.attached
        /\ f.calls = stream.calls /\ ~f.paused
    BY <1>1 DEF StreamType
  <2>4. Become(t)
    BY <1>1, <1>4 DEF ReadChunk
  <2> HIDE DEF r, f
  <2>5. /\ t \in StateType /\ t.request = request /\ t.response = r /\ t.stream = f
        /\ t.ticks = ticks
    BY <1>1, <2>2, <2>3 DEF StateType
  <2> HIDE DEF t
  <2>6. Good(t)
    BY <1>1, <1>2, <2>2, <2>3, <2>5, ResponseGood DEF Ends, Closing
  <2> QED
    BY <2>4, <2>6, BecomeGood
<1>5. CASE ReadEnd
  <2> DEFINE r == [response EXCEPT !.ending = TRUE]
             queue == Append(ticks, "end")
             t == [Now EXCEPT !.response = r, !.ticks = queue]
  <2>1. /\ r \in ResponseType /\ r.destroyed = response.destroyed
        /\ r.buffered = response.buffered /\ r # None
    <3>1. /\ r \in ResponseType /\ r.destroyed = response.destroyed
          /\ r.buffered = response.buffered
      BY <1>3 DEF ResponseType
    <3> QED
      BY <3>1, NoneAssumption
  <2>2. /\ queue \in Seq(Events)
        /\ \A i \in 1..Len(queue) :
             queue[i] # "end" => i \in 1..Len(ticks) /\ ticks[i] = queue[i]
    BY <1>1, AppendTick DEF Events
  <2>3. Become(t)
    BY <1>1, <1>5 DEF ReadEnd
  <2> HIDE DEF r, queue
  <2>4. t \in StateType /\ t.request = request /\ t.response = r /\ t.stream = stream
        /\ (Closing(t) => Closing(Now))
    BY <1>1, <2>1, <2>2 DEF StateType, Events, Closing
  <2> HIDE DEF t
  <2>5. Sound(t)
    BY <1>1, <1>2, <2>1, <2>4 DEF IInv, Good, Sound, Awaited, Forwarded, Flows
  <2>6. NoOrphan(t)
    BY <1>1, <1>2, <2>1, <2>4 DEF IInv, Good, NoOrphan
  <2> QED
    BY <2>3, <2>5, <2>6, BecomeGood DEF Good
<1> QED
  BY <1>4, <1>5

\* A chunk of a stream is counted, and buffered unless the response is dumped.
LEMMA StreamDataBecomes ==
  ASSUME StreamData
  PROVE  LET buffered == response.buffered + (IF response.destroyed THEN 0 ELSE 1)
             full == response.destroyed \/ buffered >= HighWaterMark
             f == [stream EXCEPT !.chunks = @ + 1]
             g == [stream EXCEPT !.chunks = @ + 1, !.paused = full]
             r == [response EXCEPT !.buffered = buffered]
         IN  \/ Become([Now EXCEPT !.stream = f])
             \/ Become([Now EXCEPT !.stream = g, !.response = r])
<1> DEFINE buffered == response.buffered + (IF response.destroyed THEN 0 ELSE 1)
           full == response.destroyed \/ buffered >= HighWaterMark
           f == [stream EXCEPT !.chunks = @ + 1]
           g == [stream EXCEPT !.chunks = @ + 1, !.paused = full]
           r == [response EXCEPT !.buffered = buffered]
           got == [Now EXCEPT !.stream.chunks = @ + 1]
<1>1. got = [Now EXCEPT !.stream = f]
  BY DEF Now
<1>2. [got EXCEPT !.response.buffered = buffered, !.stream.paused = full]
        = [Now EXCEPT !.stream = g, !.response = r]
  <2> HIDE DEF buffered, full
  <2> QED
    BY DEF Now
<1>3. Become(IF response.dumped THEN got
             ELSE [got EXCEPT !.response.buffered = buffered, !.stream.paused = full])
  BY DEF StreamData
<1> QED
  BY <1>1, <1>2, <1>3

LEMMA StreamDataGood == ASSUME IInv, StreamData PROVE IInv'
<1>1. /\ Now \in StateType /\ Now.request = request /\ Now.stream = stream
      /\ Now.response = response /\ Now.ticks = ticks
      /\ request \in RequestType /\ stream \in StreamType
  BY DEF IInv, Good, Sound, Now, StateType
<1>2. response # None /\ response \in ResponseType
  BY <1>1 DEF StreamData, Flowing, StateType
<1> DEFINE f == [stream EXCEPT !.chunks = @ + 1]
           buffered == response.buffered + (IF response.destroyed THEN 0 ELSE 1)
           full == response.destroyed \/ buffered >= HighWaterMark
           g == [stream EXCEPT !.chunks = @ + 1, !.paused = full]
           r == [response EXCEPT !.buffered = buffered]
           t == [Now EXCEPT !.stream = f]
           u == [Now EXCEPT !.stream = g, !.response = r]
<1>3. stream.chunks + 1 \in Nat /\ buffered \in Nat /\ (response.destroyed \/ buffered > 0)
  BY <1>1, <1>2 DEF StreamType, ResponseType
<1>4. /\ f \in StreamType /\ f.phase = stream.phase /\ f.attached = stream.attached
      /\ f.calls = stream.calls /\ f.paused = stream.paused
  BY <1>1, <1>3 DEF StreamType
<1>5. /\ g \in StreamType /\ g.phase = stream.phase /\ g.attached = stream.attached
      /\ g.calls = stream.calls
  <2>1. full \in BOOLEAN
    OBVIOUS
  <2> HIDE DEF full
  <2> QED
    BY <1>1, <1>3, <2>1 DEF StreamType
<1>6. r \in ResponseType /\ r.destroyed = response.destroyed /\ (r.destroyed \/ r.buffered > 0)
  <2> HIDE DEF buffered
  <2> QED
    BY <1>2, <1>3 DEF ResponseType
<1>7. Become(t) \/ Become(u)
  BY StreamDataBecomes
<1> HIDE DEF f, g, r, full, buffered
<1>8. t \in StateType /\ t.request = request /\ t.response = response /\ t.stream = f /\ t.ticks = ticks
  BY <1>1, <1>4 DEF StateType
<1>9. u \in StateType /\ u.request = request /\ u.response = r /\ u.stream = g /\ u.ticks = ticks
  BY <1>1, <1>5, <1>6 DEF StateType
<1> HIDE DEF t, u
<1>10. Good(t)
  <2>1. stream.paused => response.destroyed \/ response.buffered > 0
    BY <1>1, <1>2 DEF IInv, Good, Sound, Flows
  <2> QED
    BY <1>1, <1>2, <1>4, <1>8, <2>1, ResponseGood DEF Ends, Closing
<1>11. Good(u)
  BY <1>1, <1>2, <1>5, <1>6, <1>9, ResponseGood DEF Ends, Closing
<1> QED
  BY <1>7, <1>10, <1>11, BecomeGood

LEMMA StreamEndGood == ASSUME IInv, StreamEnd PROVE IInv'
<1>1. /\ Now \in StateType /\ Now.request = request /\ Now.stream = stream
      /\ Now.response = response /\ Now.ticks = ticks
      /\ request \in RequestType /\ stream \in StreamType
  BY DEF IInv, Good, Sound, Now, StateType
<1>2. response # None /\ response \in ResponseType
  BY <1>1 DEF StreamEnd, Flowing, StateType
<1> DEFINE f == [stream EXCEPT !.ended = TRUE]
           r == [response EXCEPT !.eof = @ \/ ~request.aborted]
           t == [Now EXCEPT !.stream = f, !.response = r]
<1>3. /\ f \in StreamType /\ f.phase = stream.phase /\ f.attached = stream.attached
      /\ f.calls = stream.calls /\ f.paused = stream.paused
  BY <1>1 DEF StreamType
<1>4. r \in ResponseType /\ r.destroyed = response.destroyed /\ r.buffered = response.buffered
  BY <1>2 DEF ResponseType
<1>5. Become(t)
  BY <1>1 DEF StreamEnd
<1> HIDE DEF f, r
<1>6. t \in StateType /\ t.request = request /\ t.response = r /\ t.stream = f /\ t.ticks = ticks
  BY <1>1, <1>3, <1>4 DEF StateType
<1> HIDE DEF t
<1>7. stream.paused => response.destroyed \/ response.buffered > 0
  BY <1>1, <1>2 DEF IInv, Good, Sound, Flows
<1> QED
  BY <1>1, <1>2, <1>3, <1>4, <1>5, <1>6, <1>7, ResponseGood, BecomeGood DEF Ends, Closing

LEMMA StreamResponseGood == ASSUME IInv, StreamResponse PROVE IInv'
<1> DEFINE t == [Now EXCEPT !.response = NewResponse]
<1>1. /\ Now \in StateType /\ Now.request = request /\ Now.stream = stream
      /\ Now.response = response /\ Now.ticks = ticks
  BY DEF IInv, Good, Sound, Now
<1>2. NewResponse \in ResponseType /\ ~NewResponse.destroyed
  BY DEF NewResponse, ResponseType
<1>3. NewResponse # None
  BY <1>2, NoneAssumption
<1>4. /\ t \in StateType /\ t.request = request /\ t.stream = stream /\ t.ticks = ticks
      /\ t.response = NewResponse
  BY <1>1, <1>2 DEF StateType
<1>5. \/ Become(t) \/ Become(EmitClose(t)) \/ Become(StreamDestroy(t, FALSE)) \/ Become(Dump(t))
  BY DEF StreamResponse
<1>6. stream.phase = "open" /\ response = None
  BY DEF StreamResponse, Idle
<1> HIDE DEF t
<1>7. Sound(t)
  BY <1>1, <1>3, <1>4, <1>6 DEF IInv, Good, Sound, Awaited, Forwarded, Flows, Ends, Closing
<1>8. NoOrphan(t)
  BY <1>1, <1>2, <1>4, <1>6 DEF IInv, Good, NoOrphan
<1>9. Good(StreamDestroy(t, FALSE))
  BY <1>7, StreamDestroySound, ReleasedGood DEF Released
<1>10. Good(Dump(t))
  <2>1. Sound(Dump(t)) /\ Marked(t, Dump(t)) /\ Dump(t).request = t.request
    BY <1>7, DumpSound
  <2>2. ~request.destroyed
    BY <1>1, <1>6 DEF IInv, Good, NoOrphan
  <2>3. Dump(t) = [t EXCEPT !.response.dumped = TRUE]
    BY <1>3, <1>4 DEF Dump
  <2>4. ~Dump(t).response.destroyed
    BY <1>2, <1>4, <2>3 DEF StateType, ResponseType
  <2> QED
    BY <1>4, <2>1, <2>2, <2>4 DEF Good, NoOrphan
<1>11. Good(EmitClose(t))
  BY <1>7, <1>8, EmitCloseGood DEF Good
<1> QED
  BY <1>5, <1>7, <1>8, <1>9, <1>10, <1>11, BecomeGood DEF Good

LEMMA StreamFinishedGood == ASSUME IInv, StreamFinished PROVE IInv'
<1>1. /\ Now \in StateType /\ Now.request = request /\ Now.stream = stream
      /\ Now.response = response /\ Now.ticks = ticks
      /\ stream \in StreamType /\ ticks \in Seq(Events)
  BY DEF IInv, Good, Sound, Now, StateType, Events
<1> DEFINE queue == Append(ticks, "streamClose")
           f == [stream EXCEPT !.phase = "destroyed"]
           t == [Now EXCEPT !.stream = f, !.ticks = queue]
<1>2. /\ queue \in Seq(Events)
      /\ \A i \in 1..Len(queue) :
           queue[i] # "streamClose" => i \in 1..Len(ticks) /\ ticks[i] = queue[i]
  BY <1>1, AppendTick DEF Events
<1>3. /\ f \in StreamType /\ f.phase = "destroyed" /\ f.attached = stream.attached
      /\ f.calls = stream.calls /\ f.paused = stream.paused
  BY <1>1 DEF StreamType
<1>4. Become(t) /\ stream.phase = "open"
  BY <1>1 DEF StreamFinished, Idle
<1> HIDE DEF queue, f
<1>5. /\ t \in StateType /\ t.request = request /\ t.stream = f /\ t.response = response
      /\ t.ticks = queue
  BY <1>1, <1>2, <1>3 DEF StateType, Events
<1> HIDE DEF t
<1>6. Ends(t) => Ends(Now)
  BY <1>1, <1>2, <1>5 DEF Ends, Closing
<1>7. Sound(t)
  BY <1>1, <1>3, <1>4, <1>5, <1>6 DEF IInv, Good, Sound, Awaited, Forwarded, Flows
<1> QED
  BY <1>3, <1>4, <1>5, <1>7, ReleasedGood, BecomeGood

LEMMA TicksGood == ASSUME IInv, Ticks PROVE IInv'
<1>1. /\ Now \in StateType /\ Now.request = request /\ Now.stream = stream
      /\ Now.response = response /\ Now.ticks = ticks
      /\ stream \in StreamType /\ ticks \in Seq(Events) /\ ticks # <<>>
  BY DEF IInv, Good, Sound, Now, StateType, Events, Ticks, Tick, TickAbort, TickClose, TickEnd,
     TickStreamError, TickStreamClose
<1>2. /\ Tail(ticks) \in Seq(Events) /\ Len(Tail(ticks)) = Len(ticks) - 1
      /\ \A i \in 1..Len(Tail(ticks)) : Tail(ticks)[i] = ticks[i + 1]
      /\ Len(ticks) \in Nat /\ Len(ticks) > 0 /\ Head(ticks) = ticks[1]
  BY <1>1, HeadTailProperties, EmptySeq, LenProperties
<1>3. After \in StateType /\ Aside(Now, After)
  <2>1. After \in StateType /\ After.ticks = Tail(ticks) /\ After.stream = stream
        /\ After.request = request /\ After.response = response
    BY <1>1, <1>2 DEF After, StateType, Events
  <2>2. \A i \in 1..Len(Tail(ticks)) : i + 1 \in 1..Len(ticks)
    BY <1>2
  <2>3. (Ends(After) => Ends(Now)) /\ (Closing(After) => Closing(Now))
    BY <1>1, <1>2, <2>1, <2>2 DEF Ends, Closing
  <2> QED
    BY <1>1, <2>1, <2>3 DEF Aside
<1>4. Good(After)
  BY <1>3, AsideGood DEF IInv
<1>5. CASE TickAbort
  BY <1>4, <1>5, BecomeGood DEF TickAbort
<1>6. CASE TickClose
  BY <1>4, <1>6, EmitCloseGood, BecomeGood DEF TickClose
<1>7. CASE TickEnd
  <2>1. 1 \in 1..Len(ticks) /\ ticks[1] = "end"
    BY <1>2, <1>7 DEF TickEnd, Tick
  <2>2. response # None
    BY <1>1, <2>1 DEF IInv, Good, Sound, Ends, Closing
  <2>3. After.response # None
    BY <1>1, <1>3, <2>2 DEF Aside
  <2> QED
    BY <1>4, <1>7, <2>3, OnEndGood, BecomeGood DEF TickEnd
<1>8. CASE TickStreamError
  BY <1>4, <1>8, RequestDestroyGood, BecomeGood DEF TickStreamError
<1>9. CASE TickStreamClose
  <2> DEFINE f == [After.stream EXCEPT !.phase = "closed"]
             t == [After EXCEPT !.stream = f]
  <2>1. /\ f \in StreamType /\ f.phase = "closed" /\ f.attached = stream.attached
        /\ f.calls = stream.calls /\ f.paused = stream.paused
    BY <1>1, <1>3 DEF StreamType, Aside
  <2>2. Become(OnStreamClose(t)) \/ Become(t)
    BY <1>9 DEF TickStreamClose
  <2> HIDE DEF f
  <2>3. /\ t \in StateType /\ t.request = After.request /\ t.response = After.response
        /\ t.ticks = After.ticks /\ t.stream = f
    BY <1>3, <2>1 DEF StateType
  <2> HIDE DEF t
  <2>4. stream.phase # "none"
    <3>1. 1 \in 1..Len(ticks) /\ ticks[1] = "streamClose"
      BY <1>2, <1>9 DEF TickStreamClose, Tick
    <3> QED
      BY <1>1, <3>1 DEF IInv, Good, Sound, Closing
  <2>5. Sound(t)
    BY <1>1, <1>3, <1>4, <2>1, <2>3, <2>4 DEF Good, Sound, Aside, Awaited, Forwarded, Flows,
       Ends, Closing
  <2> QED
    BY <2>1, <2>2, <2>3, <2>5, OnStreamCloseGood, ReleasedGood, BecomeGood
<1> QED
  BY <1>5, <1>6, <1>7, <1>8, <1>9 DEF Ticks
------------------------------------------------------------------------------
LEMMA NextGood == IInv /\ [Next]_vars => IInv'
<1> SUFFICES ASSUME IInv, [Next]_vars PROVE IInv'
  OBVIOUS
<1>1. CASE UNCHANGED vars
  <2>1. Now' = Now
    BY <1>1 DEF vars, Now
  <2> QED
    BY <2>1 DEF IInv
<1>2. CASE Next
  BY <1>2, CallsGood, DestroysGood, PromisesGood, ReadsGood, StreamDataGood, StreamEndGood,
     StreamResponseGood, StreamFinishedGood, TicksGood DEF Next
<1> QED
  BY <1>1, <1>2

THEOREM Invariance == Spec => []IInv
<1> QED
  BY InitGood, NextGood, PTL DEF Spec

\* Request, stream, response and pending callbacks have their types.
THEOREM TypeCorrect == Spec => []TypeOK
<1>1. IInv => TypeOK
  BY DEF IInv, Good, Sound, TypeOK
<1> QED
  BY <1>1, Invariance, PTL

\* No stream stays open for a request or response that is destroyed, whenever the
\* stream arrives (client-request.js:254-255, 286-289, incoming-message.js:49).
THEOREM StreamsReleased == Spec => []NoOrphanStream
<1>1. IInv => NoOrphanStream
  BY DEF IInv, Good, NoOrphan, NoOrphanStream, Now
<1> QED
  BY <1>1, Invariance, PTL

\* Jobs and direct calls reach the stream once and in order (client-request.js:208-212,
\* 228-232, 423-427, 541-545).
THEOREM CallsOrdered == Spec => []CallsInOrder
<1>1. IInv => CallsInOrder
  BY DEF IInv, Good, Sound, Awaited, Forwarded, CallsInOrder, Now
<1> QED
  BY <1>1, Invariance, PTL

\* A paused stream has a reader with something to read (client-request.js:348,
\* incoming-message.js:66).
THEOREM NeverStalls == Spec => []NoStall
<1>1. IInv => NoStall
  BY DEF IInv, Good, Sound, Flows, NoStall, Now
<1> QED
  BY <1>1, Invariance, PTL
------------------------------------------------------------------------------
(* `close' is emitted once, and truthfully.  What decides it is who may      *)
(* still emit it: a pending tick, the stream's handler, or the response's    *)
(* end.                                                                      *)

In(queue, e) == \E i \in 1..Len(queue) : queue[i] = e
Once(queue, e) == \A i, j \in 1..Len(queue) : queue[i] = e /\ queue[j] = e => i = j

\* Each pending event is due once, and only where what it does has not been done.
Due(st) ==
  /\ Once(st.ticks, "close") /\ Once(st.ticks, "end") /\ Once(st.ticks, "streamClose")
  /\ In(st.ticks, "close") => ~st.stream.attached /\ st.request.closes = 0
  /\ In(st.ticks, "streamClose") => st.stream.phase = "destroyed"
  /\ In(st.ticks, "end") => st.response # None /\ st.response.ending /\ ~st.response.complete

\* A request without a stream of its own emits `close' only when it is destroyed.
Unserved(st) ==
  ~st.stream.attached =>
    /\ st.response = None /\ st.request.closes <= 1
    /\ In(st.ticks, "close") \/ st.request.closes > 0 => st.request.destroyed

\* How often a request with a stream has emitted `close': once for a tunnel it
\* handed over, and once if `said', that is when its stream is through.
Reported(st, said) ==
  st.stream.attached =>
    st.request.closes <= (IF st.request.method = "CONNECT" /\ st.response # None THEN 1 ELSE 0)
                         + (IF said THEN 1 ELSE 0)

\* The same for the response, which is whole or aborted by then.
Answered(st, told) ==
  st.response # None =>
    /\ st.response.closes = IF told THEN 1 ELSE 0
    /\ told \/ st.response.destroyed => st.response.complete \/ st.response.aborted
    /\ st.response.complete => st.response.ending
    /\ st.response.waited => st.stream.phase = "closed"

Balanced(st, said, told) == Due(st) /\ Unserved(st) /\ Reported(st, said) /\ Answered(st, told)

\* The stream is closed, and nothing waits for an `end' any more.
Over(st) ==
  /\ st.stream.attached /\ st.stream.phase = "closed"
  /\ ~(st.response # None /\ st.response.waited /\ ~st.response.complete)

Accounted(st) == Balanced(st, Over(st), Over(st))

CInv == IInv /\ Accounted(Now)
------------------------------------------------------------------------------
LEMMA AppendOnce ==
  ASSUME NEW s \in Seq(Events), NEW e \in Events
  PROVE  /\ In(Append(s, e), e)
         /\ \A x : /\ x # e => (In(Append(s, e), x) <=> In(s, x))
                   /\ Once(s, x) /\ (x = e => ~In(s, x)) => Once(Append(s, e), x)
<1>1. /\ Len(s) \in Nat /\ Len(Append(s, e)) = Len(s) + 1
      /\ \A i \in 1..Len(s) : Append(s, e)[i] = s[i]
      /\ Append(s, e)[Len(s) + 1] = e
  BY AppendProperties, LenProperties
<1> DEFINE q == Append(s, e)
<1> HIDE DEF q
<1>2. \A i \in 1..Len(q) : i \in 1..Len(s) \/ i = Len(s) + 1
  BY <1>1 DEF q
<1>3. \A i \in 1..Len(s) : i \in 1..Len(q) /\ q[i] = s[i]
  BY <1>1 DEF q
<1>4. Len(s) + 1 \in 1..Len(q) /\ q[Len(s) + 1] = e
  BY <1>1 DEF q
<1>5. In(q, e)
  BY <1>4 DEF In
<1>6. ASSUME NEW x, x # e PROVE In(q, x) <=> In(s, x)
  BY <1>2, <1>3, <1>4, <1>6 DEF In
<1>7. ASSUME NEW x, Once(s, x), x = e => ~In(s, x) PROVE Once(q, x)
  BY <1>2, <1>3, <1>4, <1>7 DEF Once, In
<1> QED
  BY <1>5, <1>6, <1>7 DEF q

LEMMA ConcatOnce ==
  ASSUME NEW s \in Seq(Events), NEW m \in Seq(Events)
  PROVE  \A x : /\ In(s \o m, x) <=> In(s, x) \/ In(m, x)
                /\ Once(s, x) /\ Once(m, x) /\ ~(In(s, x) /\ In(m, x)) => Once(s \o m, x)
<1> DEFINE q == s \o m
<1>1. /\ Len(s) \in Nat /\ Len(m) \in Nat /\ Len(q) = Len(s) + Len(m)
      /\ \A i \in 1..(Len(s) + Len(m)) : q[i] = IF i <= Len(s) THEN s[i] ELSE m[i - Len(s)]
  BY ConcatProperties, LenProperties
<1> HIDE DEF q
<1>2. \A i \in 1..Len(q) : \/ i \in 1..Len(s) /\ q[i] = s[i]
                           \/ i - Len(s) \in 1..Len(m) /\ q[i] = m[i - Len(s)]
  BY <1>1
<1>3. \A i \in 1..Len(s) : i \in 1..Len(q) /\ q[i] = s[i]
  BY <1>1
<1>4. \A i \in 1..Len(m) : i + Len(s) \in 1..Len(q) /\ q[i + Len(s)] = m[i]
  <2> TAKE i \in 1..Len(m)
  <2>1. i + Len(s) \in 1..(Len(s) + Len(m)) /\ ~(i + Len(s) <= Len(s)) /\ (i + Len(s)) - Len(s) = i
    BY <1>1
  <2> QED
    BY <1>1, <2>1
<1>5. ASSUME NEW x PROVE In(q, x) <=> In(s, x) \/ In(m, x)
  BY <1>2, <1>3, <1>4 DEF In
<1>6. ASSUME NEW x, Once(s, x), Once(m, x), ~(In(s, x) /\ In(m, x)) PROVE Once(q, x)
  <2>1. SUFFICES ASSUME NEW i \in 1..Len(q), NEW j \in 1..Len(q), q[i] = x, q[j] = x PROVE i = j
    BY DEF Once
  <2>2. \/ i \in 1..Len(s) /\ j \in 1..Len(s) /\ s[i] = x /\ s[j] = x
        \/ /\ i - Len(s) \in 1..Len(m) /\ j - Len(s) \in 1..Len(m)
           /\ m[i - Len(s)] = x /\ m[j - Len(s)] = x
    BY <1>2, <1>6, <2>1 DEF In
  <2>3. i \in Int /\ j \in Int
    OBVIOUS
  <2>4. CASE i \in 1..Len(s) /\ j \in 1..Len(s) /\ s[i] = x /\ s[j] = x
    BY <1>6, <2>4 DEF Once
  <2>5. CASE /\ i - Len(s) \in 1..Len(m) /\ j - Len(s) \in 1..Len(m)
             /\ m[i - Len(s)] = x /\ m[j - Len(s)] = x
    <3>1. i - Len(s) = j - Len(s)
      BY <1>6, <2>5 DEF Once
    <3> QED
      BY <1>1, <2>3, <3>1
  <2> QED
    BY <2>2, <2>4, <2>5
<1> QED
  BY <1>5, <1>6 DEF q

LEMMA TailOnce ==
  ASSUME NEW s \in Seq(Events), s # <<>>
  PROVE  /\ Tail(s) \in Seq(Events) /\ In(s, Head(s))
         /\ Once(s, Head(s)) => ~In(Tail(s), Head(s))
         /\ \A x : (In(Tail(s), x) => In(s, x)) /\ (Once(s, x) => Once(Tail(s), x))
<1> DEFINE q == Tail(s)
<1>1. /\ q \in Seq(Events) /\ Len(q) = Len(s) - 1 /\ Len(s) \in Nat /\ Len(s) > 0
      /\ \A i \in 1..Len(q) : q[i] = s[i + 1]
      /\ Head(s) = s[1]
  BY HeadTailProperties, EmptySeq, LenProperties
<1> HIDE DEF q
<1>2. 1 \in 1..Len(s) /\ \A i \in 1..Len(q) : i + 1 \in 1..Len(s) /\ i + 1 # 1
  BY <1>1
<1>3. In(s, Head(s))
  BY <1>1, <1>2 DEF In
<1>4. Once(s, Head(s)) => ~In(q, Head(s))
  BY <1>1, <1>2 DEF In, Once
<1>5. ASSUME NEW x PROVE In(q, x) => In(s, x)
  BY <1>1, <1>2 DEF In
<1>6. ASSUME NEW x, Once(s, x) PROVE Once(q, x)
  <2>1. SUFFICES ASSUME NEW i \in 1..Len(q), NEW j \in 1..Len(q), q[i] = x, q[j] = x PROVE i = j
    BY DEF Once
  <2>2. i + 1 = j + 1
    BY <1>1, <1>2, <1>6, <2>1 DEF Once
  <2> QED
    BY <2>2
<1> QED
  BY <1>1, <1>3, <1>4, <1>5, <1>6 DEF q
------------------------------------------------------------------------------
\* What destroying leaves alone; a response that it destroys is whole or aborted.
Spared(st, t) ==
  /\ t.request.method = st.request.method /\ t.request.closes = st.request.closes
  /\ st.request.destroyed => t.request.destroyed
  /\ t.stream.attached = st.stream.attached
  /\ t.stream.phase = "closed" <=> st.stream.phase = "closed"
  /\ t.response = None <=> st.response = None
  /\ st.response # None =>
       /\ t.response.closes = st.response.closes /\ t.response.complete = st.response.complete
       /\ t.response.waited = st.response.waited /\ t.response.ending = st.response.ending
       /\ st.response.aborted => t.response.aborted
       /\ t.response.destroyed => st.response.destroyed \/ t.response.complete \/ t.response.aborted

LEMMA SparedOver == ASSUME NEW st, NEW t, Spared(st, t) PROVE Over(t) = Over(st)
BY DEF Spared, Over

LEMMA SparedTrans ==
  ASSUME NEW st, NEW t, NEW u, Spared(st, t), Spared(t, u) PROVE Spared(st, u)
BY DEF Spared

LEMMA SparedBalanced ==
  ASSUME NEW st, NEW said, NEW told, Balanced(st, said, told), NEW t, Spared(st, t), Due(t),
         In(t.ticks, "close") => In(st.ticks, "close") \/ t.request.destroyed
  PROVE  Balanced(t, said, told)
<1>1. Unserved(t)
  BY DEF Balanced, Unserved, Spared
<1>2. Reported(t, said)
  BY DEF Balanced, Reported, Spared
<1>3. Answered(t, told)
  BY DEF Balanced, Answered, Spared
<1> QED
  BY <1>1, <1>2, <1>3 DEF Balanced

\* The rest of the stream's life and the ticks are as they were.
Quiet(st, t) == Spared(st, t) /\ t.ticks = st.ticks /\ t.stream.phase = st.stream.phase

LEMMA QuietBalanced ==
  ASSUME NEW st, NEW said, NEW told, Balanced(st, said, told), NEW t, Quiet(st, t)
  PROVE  Balanced(t, said, told)
<1>1. Due(t)
  BY DEF Balanced, Due, Quiet, Spared
<1> QED
  BY <1>1, SparedBalanced DEF Quiet

LEMMA QuietTrans ==
  ASSUME NEW st, NEW t, NEW u, Quiet(st, t), Quiet(t, u) PROVE Quiet(st, u)
BY SparedTrans DEF Quiet

LEMMA DumpQuiet ==
  ASSUME NEW st, Sound(st) PROVE Quiet(st, Dump(st)) /\ Dump(st).stream = st.stream
<1>1. CASE st.response = None
  BY <1>1 DEF Dump, Quiet, Spared
<1>2. CASE st.response # None
  <2> DEFINE r == [st.response EXCEPT !.dumped = TRUE]
             t == [st EXCEPT !.response = r]
  <2>1. st.response \in ResponseType
    BY <1>2 DEF Sound, StateType
  <2>2. /\ r \in ResponseType
        /\ r.closes = st.response.closes /\ r.complete = st.response.complete
        /\ r.waited = st.response.waited /\ r.ending = st.response.ending
        /\ r.aborted = st.response.aborted /\ r.destroyed = st.response.destroyed
    BY <2>1 DEF ResponseType
  <2>3. Dump(st) = t
    BY <1>2 DEF Dump
  <2> HIDE DEF r
  <2>4. t.request = st.request /\ t.stream = st.stream /\ t.ticks = st.ticks /\ t.response = r
    BY DEF Sound, StateType
  <2> HIDE DEF t
  <2> QED
    BY <1>2, <2>2, <2>3, <2>4, NoneAssumption DEF Quiet, Spared
<1> QED
  BY <1>1, <1>2

LEMMA MarkResponseQuiet ==
  ASSUME NEW st, Sound(st), st.response # None PROVE Quiet(st, MarkResponse(st))
<1> DEFINE r == [st.response EXCEPT !.destroyed = TRUE, !.aborted = @ \/ ~st.response.complete]
           t == [st EXCEPT !.response = r]
<1>1. CASE st.response.destroyed
  BY <1>1 DEF MarkResponse, Quiet, Spared
<1>2. CASE ~st.response.destroyed
  <2>1. st.response \in ResponseType
    BY DEF Sound, StateType
  <2>2. /\ r \in ResponseType
        /\ r.closes = st.response.closes /\ r.complete = st.response.complete
        /\ r.waited = st.response.waited /\ r.ending = st.response.ending
        /\ r.aborted = (st.response.aborted \/ ~st.response.complete)
    BY <2>1 DEF ResponseType
  <2>3. MarkResponse(st) = t
    BY <1>2 DEF MarkResponse, Sound, StateType
  <2> HIDE DEF r
  <2>4. t.request = st.request /\ t.stream = st.stream /\ t.ticks = st.ticks /\ t.response = r
    BY DEF Sound, StateType
  <2> HIDE DEF t
  <2>5. r # None
    BY <2>2, NoneAssumption
  <2> QED
    BY <2>2, <2>3, <2>4, <2>5 DEF Quiet, Spared
<1> QED
  BY <1>1, <1>2

LEMMA AbortResponseQuiet ==
  ASSUME NEW st, Sound(st), st.response # None
  PROVE  Quiet(st, AbortResponse(st)) /\ AbortResponse(st).response.aborted
<1> DEFINE r == [st.response EXCEPT !.aborted = TRUE, !.abortedEvents = @ + 1]
           t == [st EXCEPT !.response = r]
<1>1. st.response \in ResponseType
  BY DEF Sound, StateType
<1>2. /\ r \in ResponseType /\ r.buffered = st.response.buffered
      /\ (st.response.destroyed => r.destroyed)
      /\ r.closes = st.response.closes /\ r.complete = st.response.complete
      /\ r.waited = st.response.waited /\ r.ending = st.response.ending
      /\ r.aborted /\ r.destroyed = st.response.destroyed
  <2>1. st.response.abortedEvents + 1 \in Nat
    BY <1>1 DEF ResponseType
  <2> QED
    BY <1>1, <2>1 DEF ResponseType
<1>3. AbortResponse(st) = MarkResponse(t)
  BY DEF AbortResponse, Sound, StateType
<1> HIDE DEF r
<1>4. /\ t \in StateType /\ t.request = st.request /\ t.stream = st.stream
      /\ t.ticks = st.ticks /\ t.response = r /\ r # None
  BY <1>2, NoneAssumption DEF Sound, StateType
<1> HIDE DEF t
<1>5. Quiet(st, t) /\ Marked(st, t)
  BY <1>2, <1>4 DEF Quiet, Spared, Marked, Ends, Closing
<1>6. Sound(t)
  BY <1>4, <1>5, MarkedSound
<1>7. Quiet(t, MarkResponse(t))
  BY <1>4, <1>6, MarkResponseQuiet
<1>8. MarkResponse(t).response.aborted
  BY <1>2, <1>4, <1>7 DEF Quiet, Spared
<1> QED
  BY <1>3, <1>5, <1>7, <1>8, QuietTrans

LEMMA MarkRequestBalanced ==
  ASSUME NEW st, Sound(st), NEW said, NEW told, Balanced(st, said, told), NEW error \in BOOLEAN
  PROVE  /\ Balanced(MarkRequest(st, error), said, told)
         /\ Spared(st, MarkRequest(st, error))
         /\ MarkRequest(st, error).stream = st.stream
<1>1. CASE st.request.destroyed
  BY <1>1 DEF MarkRequest, Spared
<1>2. CASE ~st.request.destroyed
  <2> DEFINE d == Dump(st)
             w == IF st.request.promise # "none" /\ ~st.request.resumed THEN "promise" ELSE "tick"
             m == [d EXCEPT !.request.destroyed = TRUE, !.request.error = error,
                            !.request.awaiting = w]
             n == [m EXCEPT !.ticks = Append(@, "close")]
  <2>1. d \in StateType /\ Quiet(st, d) /\ d.stream = st.stream
    BY DumpSound, DumpQuiet DEF Sound
  <2>2. w \in {"no", "tick", "promise"}
    OBVIOUS
  <2>3. MarkRequest(st, error) = IF st.stream.phase # "none" THEN m ELSE n
    BY <1>2 DEF MarkRequest
  <2> HIDE DEF d, w
  <2>4. /\ m \in StateType /\ m.stream = d.stream /\ m.response = d.response /\ m.ticks = d.ticks
        /\ m.request.method = d.request.method /\ m.request.closes = d.request.closes
        /\ m.request.destroyed
    BY <2>1, <2>2 DEF StateType, RequestType
  <2> HIDE DEF m
  <2>5. Quiet(st, m) /\ m.stream = st.stream
    BY <2>1, <2>4 DEF Quiet, Spared
  <2>6. Balanced(m, said, told)
    BY <2>5, QuietBalanced
  <2>7. CASE st.stream.phase # "none"
    BY <2>3, <2>5, <2>6, <2>7 DEF Quiet
  <2>8. CASE st.stream.phase = "none"
    <3>1. /\ n.request = m.request /\ n.stream = m.stream /\ n.response = m.response
          /\ n.ticks = Append(m.ticks, "close")
      BY <2>4 DEF StateType
    <3> HIDE DEF n
    <3>2. m.ticks \in Seq(Events) /\ "close" \in Events
      BY <2>4 DEF StateType, Events
    <3>3. ~st.stream.attached
      BY <2>8 DEF Sound, Forwarded
    <3>4. ~In(st.ticks, "close") /\ st.request.closes = 0
      <4>1. st.request.closes \in Nat
        BY DEF Sound, StateType, RequestType
      <4> QED
        BY <1>2, <3>3, <4>1 DEF Balanced, Unserved
    <3>5. Due(n)
      BY <2>5, <2>6, <3>1, <3>2, <3>3, <3>4, AppendOnce DEF Balanced, Due, Quiet, Spared
    <3>6. Spared(m, n)
      BY <3>1 DEF Spared
    <3>7. Balanced(n, said, told)
      BY <2>4, <2>6, <3>1, <3>5, <3>6, SparedBalanced
    <3>8. Spared(st, n)
      BY <2>5, <3>6, SparedTrans DEF Quiet
    <3> QED
      BY <2>3, <2>5, <2>8, <3>1, <3>7, <3>8
  <2> QED
    BY <2>7, <2>8
<1> QED
  BY <1>1, <1>2

LEMMA OnAbortedBalanced ==
  ASSUME NEW st, Sound(st), NEW said, NEW told, Balanced(st, said, told)
  PROVE  Balanced(OnAborted(st), said, told) /\ Spared(st, OnAborted(st))
BY AbortResponseQuiet, QuietBalanced, MarkRequestBalanced DEF OnAborted, Quiet

LEMMA StreamDestroyBalanced ==
  ASSUME NEW st, Sound(st), NEW said, NEW told, Balanced(st, said, told), NEW failed \in BOOLEAN
  PROVE  Balanced(StreamDestroy(st, failed), said, told) /\ Spared(st, StreamDestroy(st, failed))
<1>1. CASE st.stream.phase # "open"
  BY <1>1 DEF StreamDestroy, Spared
<1>2. CASE st.stream.phase = "open"
  <2> DEFINE more == IF failed THEN <<"streamError", "streamClose">> ELSE <<"streamClose">>
             queue == st.ticks \o more
             gone == [st EXCEPT !.stream.phase = "destroyed", !.stream.failed = failed,
                                !.ticks = queue]
  <2>1. StreamDestroy(st, failed) = gone \/ StreamDestroy(st, failed) = OnAborted(gone)
    BY <1>2 DEF StreamDestroy
  <2>2. st.ticks \in Seq(Events) /\ more \in Seq(Events)
    <3>1. st.ticks \in Seq(Events)
      BY DEF Sound, StateType, Events
    <3>2. <<"streamError", "streamClose">> \in Seq(Events) /\ <<"streamClose">> \in Seq(Events)
      BY DEF Events
    <3> QED
      BY <3>1, <3>2
  <2>3. /\ ~In(more, "close") /\ ~In(more, "end")
        /\ Once(more, "close") /\ Once(more, "end") /\ Once(more, "streamClose")
    <3>1. CASE failed
      <4>1. more = <<"streamError", "streamClose">> /\ Len(more) = 2
            /\ more[1] = "streamError" /\ more[2] = "streamClose"
        BY <3>1
      <4> HIDE DEF more
      <4>2. \A i \in 1..Len(more) : i = 1 \/ i = 2
        BY <4>1
      <4> QED
        BY <4>1, <4>2 DEF In, Once
    <3>2. CASE ~failed
      <4>1. more = <<"streamClose">> /\ Len(more) = 1 /\ more[1] = "streamClose"
        BY <3>2
      <4> HIDE DEF more
      <4>2. \A i \in 1..Len(more) : i = 1
        BY <4>1
      <4> QED
        BY <4>1, <4>2 DEF In, Once
    <3> QED
      BY <3>1, <3>2
  <2>4. /\ queue \in Seq(Events)
        /\ \A x : /\ In(queue, x) <=> In(st.ticks, x) \/ In(more, x)
                  /\ Once(st.ticks, x) /\ Once(more, x) /\ ~(In(st.ticks, x) /\ In(more, x))
                       => Once(queue, x)
    <3> HIDE DEF more
    <3> QED
      BY <2>2, ConcatOnce, ConcatProperties
  <2> HIDE DEF queue, more
  <2>5. /\ gone \in StateType
        /\ gone.request = st.request /\ gone.response = st.response /\ gone.ticks = queue
        /\ gone.stream.phase = "destroyed" /\ gone.stream.attached = st.stream.attached
        /\ gone.stream.calls = st.stream.calls /\ gone.stream.paused = st.stream.paused
    BY <2>4 DEF Sound, StateType, StreamType, Events
  <2> HIDE DEF gone
  <2>6. Spared(st, gone)
    BY <1>2, <2>5 DEF Spared
  <2>7. ~In(st.ticks, "streamClose")
    BY <1>2 DEF Balanced, Due
  <2>8. Due(gone)
    BY <2>3, <2>4, <2>5, <2>7 DEF Balanced, Due
  <2>9. Balanced(gone, said, told)
    BY <2>3, <2>4, <2>5, <2>6, <2>8, SparedBalanced
  <2>10. Sound(gone)
    <3>1. Ends(gone) => Ends(st)
      BY <2>3, <2>4, <2>5 DEF Ends, In
    <3> QED
      BY <1>2, <2>5, <3>1 DEF Sound, Awaited, Forwarded, Flows
  <2>11. Balanced(OnAborted(gone), said, told) /\ Spared(gone, OnAborted(gone))
    BY <2>9, <2>10, OnAbortedBalanced
  <2> QED
    BY <2>1, <2>6, <2>9, <2>11, SparedTrans
<1> QED
  BY <1>1, <1>2

LEMMA RequestDestroyBalanced ==
  ASSUME NEW st, Sound(st), NEW said, NEW told, Balanced(st, said, told), NEW error \in BOOLEAN
  PROVE  /\ Balanced(RequestDestroy(st, error), said, told)
         /\ Spared(st, RequestDestroy(st, error))
<1>1. CASE st.request.destroyed
  BY <1>1 DEF RequestDestroy, Spared
<1>2. CASE ~st.request.destroyed
  <2> DEFINE m == MarkRequest(st, error)
             t == StreamDestroy(m, FALSE)
  <2>1. Sound(m) /\ Balanced(m, said, told) /\ Spared(st, m)
    BY MarkRequestSound, MarkRequestBalanced
  <2>2. RequestDestroy(st, error) = t
    BY <1>2 DEF RequestDestroy
  <2> HIDE DEF m
  <2>3. Balanced(t, said, told) /\ Spared(m, t)
    BY <2>1, StreamDestroyBalanced
  <2> QED
    BY <2>1, <2>2, <2>3, SparedTrans
<1> QED
  BY <1>1, <1>2

LEMMA ResponseDestroyBalanced ==
  ASSUME NEW st, Sound(st), st.response # None,
         NEW said, NEW told, Balanced(st, said, told), NEW error \in BOOLEAN
  PROVE  /\ Balanced(ResponseDestroy(st, error), said, told)
         /\ Spared(st, ResponseDestroy(st, error))
<1>1. CASE st.response.destroyed
  BY <1>1 DEF ResponseDestroy, Spared
<1>2. CASE ~st.response.destroyed
  <2> DEFINE m == MarkResponse(st)
             t == StreamDestroy(m, error)
  <2>1. Sound(m) /\ Balanced(m, said, told) /\ Spared(st, m)
    BY MarkResponseSound, MarkResponseQuiet, QuietBalanced DEF Quiet
  <2>2. ResponseDestroy(st, error) = t
    BY <1>2 DEF ResponseDestroy
  <2> HIDE DEF m
  <2>3. Balanced(t, said, told) /\ Spared(m, t)
    BY <2>1, StreamDestroyBalanced
  <2> QED
    BY <2>1, <2>2, <2>3, SparedTrans
<1> QED
  BY <1>1, <1>2

\* The close of a stream with handlers is said.
LEMMA EmitCloseBalanced ==
  ASSUME NEW st, Sound(st), st.stream.attached, NEW told, Balanced(st, FALSE, told)
  PROVE  /\ Balanced(EmitClose(st), TRUE, told)
         /\ EmitClose(st).stream = st.stream /\ EmitClose(st).response = st.response
<1> DEFINE t == EmitClose(st)
<1>1. /\ t.stream = st.stream /\ t.response = st.response /\ t.ticks = st.ticks
      /\ t.request.closes = st.request.closes + 1 /\ t.request.method = st.request.method
      /\ t.request.destroyed = st.request.destroyed
  BY EmitCloseFields DEF Sound
<1>2. st.request.closes \in Nat
  BY DEF Sound, StateType, RequestType
<1> HIDE DEF t
<1>3. Due(t) /\ Unserved(t) /\ Answered(t, told)
  BY <1>1 DEF Balanced, Due, Unserved, Answered
<1>4. Reported(t, TRUE)
  BY <1>1, <1>2 DEF Balanced, Reported
<1> QED
  BY <1>1, <1>3, <1>4 DEF Balanced, t

\* Handlers leave a state that accounts for `close', if they spare what decides it.
LEMMA SparedAccounted ==
  ASSUME NEW st, NEW t, Spared(st, t), Balanced(t, Over(st), Over(st)) PROVE Accounted(t)
BY SparedOver DEF Accounted

LEMMA QuietAccounted ==
  ASSUME NEW st, Accounted(st), NEW t, Quiet(st, t) PROVE Accounted(t)
BY QuietBalanced, SparedAccounted DEF Accounted, Quiet

LEMMA DestroysAccounted ==
  ASSUME NEW st, Sound(st), Accounted(st), NEW error \in BOOLEAN
  PROVE  /\ Accounted(StreamDestroy(st, error)) /\ Accounted(RequestDestroy(st, error))
         /\ st.response # None => Accounted(ResponseDestroy(st, error))
<1>1. Balanced(st, Over(st), Over(st))
  BY DEF Accounted
<1>2. Accounted(StreamDestroy(st, error))
  BY <1>1, StreamDestroyBalanced, SparedAccounted
<1>3. Accounted(RequestDestroy(st, error))
  BY <1>1, RequestDestroyBalanced, SparedAccounted
<1>4. ASSUME st.response # None PROVE Accounted(ResponseDestroy(st, error))
  BY <1>1, <1>4, ResponseDestroyBalanced, SparedAccounted
<1> QED
  BY <1>2, <1>3, <1>4

LEMMA NotOver == ASSUME NEW st, ~Over(st) PROVE Balanced(st, FALSE, FALSE) <=> Accounted(st)
<1>1. Over(st) = FALSE
  BY DEF Over
<1> QED
  BY <1>1 DEF Accounted

LEMMA OnStreamAccounted ==
  ASSUME NEW st, Sound(st), Accounted(st), st.stream.phase = "none", st.request.flushed,
         st.request.promise = "none" \/ st.request.resumed
  PROVE  Accounted(OnStream(st))
<1>1. ~st.stream.attached /\ st.response = None /\ ~In(st.ticks, "streamClose")
  BY DEF Sound, Forwarded, Accounted, Balanced, Unserved, Due
<1>2. CASE st.request.destroyed
  <2> DEFINE t == [st EXCEPT !.stream = NewStream("open")]
  <2>1. NewStream("open") \in StreamType
    BY DEF NewStream, StreamType, CallList
  <2>2. /\ t \in StateType /\ t.request = st.request /\ t.response = st.response
        /\ t.ticks = st.ticks /\ t.stream = NewStream("open")
    BY <2>1 DEF Sound, StateType
  <2>3. OnStream(st) = StreamDestroy(t, FALSE)
    BY <1>2 DEF OnStream
  <2> HIDE DEF t
  <2>4. Sound(t)
    BY <1>2, <2>2 DEF Sound, Awaited, Forwarded, Flows, Ends, Closing, NewStream
  <2>5. Spared(st, t)
    <3>1. st.stream.attached \in BOOLEAN
      BY DEF Sound, StateType, StreamType
    <3>2. ~t.stream.attached /\ t.stream.phase = "open"
      BY <2>2 DEF NewStream
    <3>3. t.stream.attached \in BOOLEAN
      BY <2>2 DEF NewStream
    <3> QED
      BY <1>1, <2>2, <3>1, <3>2, <3>3 DEF Spared
  <2>6. Due(t)
    BY <1>1, <2>2 DEF Accounted, Balanced, Due, NewStream
  <2>7. Accounted(t)
    BY <2>2, <2>5, <2>6, SparedBalanced, SparedAccounted DEF Accounted
  <2> QED
    BY <2>3, <2>4, <2>7, DestroysAccounted
<1>3. CASE ~st.request.destroyed
  <2> DEFINE new == [NewStream("open") EXCEPT !.attached = TRUE, !.calls = st.request.jobs]
             q == [st.request EXCEPT !.jobs = <<>>]
             t == [st EXCEPT !.stream = new, !.request = q]
  <2>1. new.phase = "open" /\ new.attached
    BY DEF NewStream
  <2>2. OnStream(st) = t
    BY <1>3 DEF OnStream, Sound, StateType
  <2> HIDE DEF new
  <2>3. q.closes = st.request.closes
    BY DEF Sound, StateType, RequestType
  <2> HIDE DEF q
  <2>4. t.request = q /\ t.response = st.response /\ t.ticks = st.ticks /\ t.stream = new
    BY DEF Sound, StateType
  <2> HIDE DEF t
  <2>5. st.request.closes = 0 /\ ~In(st.ticks, "close")
    <3>1. st.request.closes \in Nat
      BY DEF Sound, StateType, RequestType
    <3> QED
      BY <1>1, <1>3, <3>1 DEF Accounted, Balanced, Unserved
  <2>6. Due(t)
    BY <1>1, <2>3, <2>4, <2>5 DEF Accounted, Balanced, Due
  <2>7. Unserved(t) /\ Reported(t, FALSE) /\ Answered(t, FALSE) /\ ~Over(t)
    BY <1>1, <2>1, <2>3, <2>4, <2>5 DEF Unserved, Reported, Answered, Over
  <2> QED
    BY <2>2, <2>6, <2>7, NotOver DEF Balanced
<1> QED
  BY <1>2, <1>3

LEMMA FlushAccounted ==
  ASSUME NEW st, Good(st), Accounted(st) PROVE Accounted(Flush(st))
<1>1. CASE st.request.flushed \/ st.request.destroyed
  BY <1>1 DEF Flush
<1>2. CASE ~st.request.flushed /\ ~st.request.destroyed
  <2> DEFINE flushed == [st EXCEPT !.request.flushed = TRUE]
  <2>1. /\ flushed \in StateType /\ flushed.stream = st.stream /\ flushed.response = st.response
        /\ flushed.ticks = st.ticks
        /\ flushed.request.flushed /\ flushed.request.destroyed = st.request.destroyed
        /\ flushed.request.promise = st.request.promise
        /\ flushed.request.resumed = st.request.resumed
        /\ flushed.request.jobs = st.request.jobs /\ flushed.request.issued = st.request.issued
        /\ flushed.request.method = st.request.method /\ flushed.request.closes = st.request.closes
    BY DEF Good, Sound, StateType, RequestType
  <2>2. flushed.stream.phase = "none" /\ flushed.request.promise = "none"
    BY <1>2, <2>1 DEF Good, Sound, Awaited
  <2>3. st.request.session \in {"agent", "open", "refusing"}
    BY SessionsAssumption DEF Good, Sound, StateType, RequestType
  <2>4. CASE st.request.session = "agent"
    <3> DEFINE t == [flushed EXCEPT !.request.promise = "pending"]
    <3>1. Flush(st) = t
      BY <1>2, <2>4 DEF Flush
    <3> HIDE DEF flushed
    <3>2. /\ t.stream = flushed.stream /\ t.response = flushed.response /\ t.ticks = flushed.ticks
          /\ t.request.method = flushed.request.method
          /\ t.request.closes = flushed.request.closes
          /\ t.request.destroyed = flushed.request.destroyed
      BY <2>1 DEF StateType, RequestType
    <3> HIDE DEF t
    <3>3. Quiet(st, t)
      BY <2>1, <3>2 DEF Quiet, Spared
    <3> QED
      BY <3>1, <3>3, QuietAccounted
  <2>5. CASE st.request.session # "agent"
    <3>1. \/ Flush(st) = OnStream(flushed)
          \/ Flush(st) = RequestDestroy(flushed, TRUE)
      BY <1>2, <2>3, <2>5 DEF Flush
    <3> HIDE DEF flushed
    <3>2. Sound(flushed)
      BY <2>1 DEF Good, Sound, Awaited, Forwarded, Flows, Ends, Closing
    <3>3. Quiet(st, flushed)
      BY <2>1 DEF Quiet, Spared
    <3>4. Accounted(flushed)
      BY <3>3, QuietAccounted
    <3> QED
      BY <2>1, <2>2, <3>1, <3>2, <3>4, OnStreamAccounted, DestroysAccounted
  <2> QED
    BY <2>4, <2>5
<1> QED
  BY <1>1, <1>2

LEMMA IssueAccounted ==
  ASSUME NEW st, Good(st), Accounted(st), NEW kind \in {"write", "end", "setTimeout"}
  PROVE  Accounted(Issue(st, kind))
<1> DEFINE call == <<kind, Len(st.request.issued) + 1>>
           issued == Append(st.request.issued, call)
           jobs == Append(st.request.jobs, call)
           calls == Append(st.stream.calls, call)
           job == [st EXCEPT !.request.issued = issued, !.request.jobs = jobs]
           made == [st EXCEPT !.request.issued = issued, !.stream.calls = calls]
<1>1. Issue(st, kind) = IF st.stream.phase = "none" THEN job ELSE made
  BY DEF Issue, Good, Sound, StateType, RequestType
<1> HIDE DEF issued, jobs, calls
<1>2. Quiet(st, job)
  <2>1. /\ job.stream = st.stream /\ job.response = st.response /\ job.ticks = st.ticks
        /\ job.request.method = st.request.method /\ job.request.closes = st.request.closes
        /\ job.request.destroyed = st.request.destroyed
    BY DEF Good, Sound, StateType, RequestType
  <2> HIDE DEF job
  <2> QED
    BY <2>1 DEF Quiet, Spared
<1>3. Quiet(st, made)
  <2>1. /\ made.response = st.response /\ made.ticks = st.ticks
        /\ made.stream.phase = st.stream.phase /\ made.stream.attached = st.stream.attached
        /\ made.request.method = st.request.method /\ made.request.closes = st.request.closes
        /\ made.request.destroyed = st.request.destroyed
    BY DEF Good, Sound, StateType, RequestType, StreamType
  <2> HIDE DEF made
  <2> QED
    BY <2>1 DEF Quiet, Spared
<1> QED
  BY <1>1, <1>2, <1>3, QuietAccounted

LEMMA WriteNextAccounted ==
  ASSUME NEW st, Good(st), Accounted(st)
  PROVE  Accounted(CallWrite(st)) /\ Accounted(CallFinal(st)) /\ Accounted(WriteNext(st))
BY FlushGood, FlushAccounted, IssueAccounted DEF CallWrite, CallFinal, WriteNext

\* finish() says that both are closed.
LEMMA FinishBalanced ==
  ASSUME NEW st, Sound(st), st.stream.attached, st.response # None, Balanced(st, FALSE, FALSE),
         st.response.complete \/ st.response.aborted
  PROVE  Balanced(Finish(st), TRUE, TRUE) /\ Finish(st).response # None
         /\ Finish(st).stream.attached
         /\ (Finish(st).stream.phase = "closed" <=> st.stream.phase = "closed")
         /\ Finish(st).response.waited = st.response.waited
         /\ Finish(st).response.complete = st.response.complete
<1> DEFINE r == [st.response EXCEPT !.closes = @ + 1]
           t == [st EXCEPT !.response = r]
<1>1. /\ r \in ResponseType /\ r.buffered = st.response.buffered /\ r.closes = 1
      /\ (st.response.destroyed => r.destroyed)
      /\ r.complete = st.response.complete /\ r.waited = st.response.waited
      /\ r.ending = st.response.ending /\ r.aborted = st.response.aborted
  <2>1. st.response \in ResponseType /\ st.response.closes = 0
    BY DEF Sound, StateType, Balanced, Answered
  <2>2. st.response.closes + 1 = 1
    BY <2>1
  <2> QED
    BY <2>1, <2>2 DEF ResponseType
<1>2. Finish(st) = EmitClose(RequestDestroy(t, FALSE))
  BY DEF Finish
<1> HIDE DEF r
<1>3. /\ t \in StateType /\ Marked(st, t) /\ t.response = r /\ t.request = st.request
      /\ t.stream = st.stream /\ t.ticks = st.ticks
  BY <1>1, NoneAssumption DEF Sound, StateType, Marked, Ends, Closing
<1> HIDE DEF t
<1>4. Sound(t) /\ r # None
  BY <1>1, <1>3, MarkedSound, NoneAssumption
<1>5. Due(t) /\ Unserved(t) /\ Reported(t, FALSE) /\ Answered(t, TRUE)
  <2>1. Due(t)
    BY <1>1, <1>3, <1>4 DEF Balanced, Due
  <2>2. Unserved(t) /\ Reported(t, FALSE)
    BY <1>3, <1>4 DEF Balanced, Unserved, Reported
  <2>3. Answered(t, TRUE)
    BY <1>1, <1>3 DEF Balanced, Answered
  <2> QED
    BY <2>1, <2>2, <2>3
<1>6. Balanced(t, FALSE, TRUE)
  BY <1>5 DEF Balanced
<1> DEFINE d == RequestDestroy(t, FALSE)
<1>7. Sound(d) /\ Balanced(d, FALSE, TRUE) /\ Spared(t, d)
  <2>1. Balanced(d, FALSE, TRUE) /\ Spared(t, d)
    BY <1>4, <1>6, RequestDestroyBalanced
  <2>2. Sound(d)
    BY <1>4, MarkRequestSound, StreamDestroySound DEF RequestDestroy
  <2> QED
    BY <2>1, <2>2
<1> HIDE DEF d
<1>8. d.stream.attached
  BY <1>3, <1>7 DEF Spared
<1>9. Balanced(EmitClose(d), TRUE, TRUE)
      /\ EmitClose(d).stream = d.stream /\ EmitClose(d).response = d.response
  BY <1>7, <1>8, EmitCloseBalanced
<1> QED
  BY <1>1, <1>2, <1>3, <1>4, <1>7, <1>8, <1>9 DEF d, Spared

LEMMA OnStreamCloseAccounted ==
  ASSUME NEW st, Sound(st), st.stream.attached, st.stream.phase = "closed",
         Balanced(st, FALSE, FALSE), st.response # None => ~st.response.waited
  PROVE  Accounted(OnStreamClose(st))
<1>1. CASE st.response = None
  <2> DEFINE d == RequestDestroy(st, TRUE)
  <2>1. Sound(d) /\ Balanced(d, FALSE, FALSE) /\ Spared(st, d)
    BY RequestDestroyBalanced, MarkRequestSound, StreamDestroySound DEF RequestDestroy
  <2>2. OnStreamClose(st) = EmitClose(d)
    BY <1>1 DEF OnStreamClose
  <2> HIDE DEF d
  <2>3. d.stream.attached /\ d.response = None /\ d.stream.phase = "closed"
    BY <1>1, <2>1 DEF Spared
  <2>4. Balanced(EmitClose(d), TRUE, FALSE)
        /\ EmitClose(d).stream = d.stream /\ EmitClose(d).response = d.response
    BY <2>1, <2>3, EmitCloseBalanced
  <2>5. Balanced(EmitClose(d), TRUE, TRUE) /\ Over(EmitClose(d))
    BY <2>3, <2>4 DEF Balanced, Answered, Over
  <2> QED
    BY <2>2, <2>5 DEF Accounted
<1>2. CASE st.response # None
  <2> DEFINE told == IF st.request.aborted THEN AbortResponse(st) ELSE st
             r == [told.response EXCEPT !.waited = TRUE]
             t == [told EXCEPT !.response = r]
  <2>1. Sound(told) /\ Quiet(st, told)
    BY <1>2, AbortResponseSound, AbortResponseQuiet DEF Quiet, Spared
  <2>2. OnStreamClose(st) = IF Readable(told.response) THEN t ELSE Finish(told)
    BY <1>2 DEF OnStreamClose
  <2> HIDE DEF told
  <2>3. /\ Balanced(told, FALSE, FALSE) /\ told.response # None /\ told.stream.attached
        /\ told.stream.phase = "closed" /\ ~told.response.waited
    BY <1>2, <2>1, QuietBalanced DEF Quiet, Spared
  <2>4. CASE Readable(told.response)
    <3>1. /\ r \in ResponseType /\ r.waited
          /\ r.closes = told.response.closes /\ r.complete = told.response.complete
          /\ r.ending = told.response.ending /\ r.aborted = told.response.aborted
          /\ r.destroyed = told.response.destroyed
      <4>1. told.response \in ResponseType
        BY <2>1, <2>3 DEF Sound, StateType
      <4> QED
        BY <4>1 DEF ResponseType
    <3> HIDE DEF r
    <3>2. /\ t.response = r /\ t.request = told.request /\ t.stream = told.stream
          /\ t.ticks = told.ticks /\ r # None
      BY <2>1, <3>1, NoneAssumption DEF Sound, StateType
    <3> HIDE DEF t
    <3>3. Due(t)
      BY <2>3, <3>1, <3>2 DEF Balanced, Due
    <3>4. Unserved(t) /\ Reported(t, FALSE)
      BY <2>3, <3>2 DEF Balanced, Unserved, Reported
    <3>5. Answered(t, FALSE)
      BY <2>3, <3>1, <3>2 DEF Balanced, Answered
    <3>6. ~Over(t)
      BY <2>4, <3>1, <3>2 DEF Over, Readable
    <3> QED
      BY <2>2, <2>4, <3>3, <3>4, <3>5, <3>6, NotOver DEF Balanced
  <2>5. CASE ~Readable(told.response)
    <3>1. told.response.complete \/ told.response.aborted
      BY <2>3, <2>5 DEF Readable, Balanced, Answered
    <3>2. Balanced(Finish(told), TRUE, TRUE) /\ Over(Finish(told))
      BY <2>1, <2>3, <3>1, FinishBalanced DEF Over
    <3> QED
      BY <2>2, <2>5, <3>2 DEF Accounted
  <2> QED
    BY <2>4, <2>5
<1> QED
  BY <1>1, <1>2

LEMMA OnEndAccounted ==
  ASSUME NEW st, Sound(st), Accounted(st), st.response # None, st.response.ending,
         ~st.response.complete, ~In(st.ticks, "end")
  PROVE  Accounted(OnEnd(st))
<1> DEFINE r == [st.response EXCEPT !.complete = TRUE]
           t == [st EXCEPT !.response = r]
           u == IF st.response.waited THEN Finish(t) ELSE t
<1>1. /\ r \in ResponseType /\ r.buffered = st.response.buffered /\ r.complete
      /\ (st.response.destroyed => r.destroyed)
      /\ r.closes = st.response.closes /\ r.waited = st.response.waited
      /\ r.ending = st.response.ending
  <2>1. st.response \in ResponseType
    BY DEF Sound, StateType
  <2> QED
    BY <2>1 DEF ResponseType
<1>2. OnEnd(st) = ResponseDestroy(u, FALSE)
  BY DEF OnEnd
<1> HIDE DEF r
<1>3. /\ t \in StateType /\ Marked(st, t) /\ t.response = r /\ t.request = st.request
      /\ t.stream = st.stream /\ t.ticks = st.ticks
  BY <1>1, NoneAssumption DEF Sound, StateType, Marked, Ends, Closing
<1> HIDE DEF t
<1>4. Sound(t) /\ r # None /\ st.stream.attached
  BY <1>1, <1>3, MarkedSound, NoneAssumption DEF Accounted, Balanced, Unserved
<1>5. ASSUME NEW over, Balanced(st, over, over) PROVE Balanced(t, over, over)
  <2>1. Due(t)
    BY <1>3, <1>5 DEF Balanced, Due
  <2>2. Unserved(t) /\ Reported(t, over)
    BY <1>3, <1>4, <1>5 DEF Balanced, Unserved, Reported
  <2>3. Answered(t, over)
    BY <1>1, <1>3, <1>5 DEF Balanced, Answered
  <2> QED
    BY <2>1, <2>2, <2>3 DEF Balanced
<1>6. CASE st.response.waited
  <2>1. ~Over(st) /\ st.stream.phase = "closed"
    BY <1>6 DEF Over, Accounted, Balanced, Answered
  <2>2. Balanced(st, FALSE, FALSE)
    BY <2>1, NotOver
  <2>3. Balanced(Finish(t), TRUE, TRUE) /\ Over(Finish(t))
    BY <1>1, <1>3, <1>4, <1>5, <2>1, <2>2, FinishBalanced DEF Over
  <2>4. Sound(Finish(t)) /\ Finish(t).response # None
    <3>1. t.stream.phase # "open"
      BY <1>3, <2>1
    <3> QED
      BY <1>3, <1>4, <3>1, ReleasedGood, FinishGood DEF Good
  <2> QED
    BY <1>2, <1>6, <2>3, <2>4, DestroysAccounted DEF Accounted
<1>7. CASE ~st.response.waited
  <2>1. Over(t) = Over(st)
    BY <1>1, <1>3, <1>4, <1>7 DEF Over
  <2>2. Accounted(t)
    BY <1>5, <2>1 DEF Accounted
  <2> QED
    BY <1>2, <1>3, <1>4, <1>7, <2>2, DestroysAccounted
<1> QED
  BY <1>6, <1>7
------------------------------------------------------------------------------
LEMMA BecomeAccounted ==
  ASSUME NEW st \in StateType, Accounted(st), Become(st) PROVE Accounted(Now)'
<1>1. Now' = st
  BY DEF Become, Now, StateType
<1> QED
  BY <1>1

LEMMA NowTypes ==
  ASSUME IInv
  PROVE  /\ Now \in StateType /\ Now.request = request /\ Now.stream = stream
         /\ Now.response = response /\ Now.ticks = ticks
         /\ request \in RequestType /\ stream \in StreamType /\ ticks \in Seq(Events)
         /\ response # None => response \in ResponseType
         /\ Sound(Now) /\ Good(Now)
BY DEF IInv, Good, Sound, Now, StateType, Events

LEMMA InitAccounted == Init => Accounted(Now)
<1> SUFFICES ASSUME Init PROVE Accounted(Now)
  OBVIOUS
<1>1. /\ Now.response = None /\ Now.ticks = <<>> /\ Now.stream = NewStream("none")
      /\ Now.request.closes = 0
  BY DEF Init, Now, NewRequest
<1>2. ~Now.stream.attached /\ ~Over(Now)
  BY <1>1 DEF NewStream, Over
<1>3. \A e : ~In(Now.ticks, e) /\ Once(Now.ticks, e)
  <2>1. Len(Now.ticks) = 0
    BY <1>1
  <2> QED
    BY <2>1 DEF In, Once
<1>4. Due(Now) /\ Unserved(Now) /\ Reported(Now, FALSE) /\ Answered(Now, FALSE)
  BY <1>1, <1>2, <1>3 DEF Due, Unserved, Reported, Answered
<1> QED
  BY <1>2, <1>4, NotOver DEF Balanced

LEMMA CallsAccounted ==
  ASSUME CInv,
         WriteRefused \/ Write \/ End \/ SetTimeout \/ FlushHeaders \/ ChunkAccepted
  PROVE  Accounted(Now)'
<1> DEFINE more == [Now EXCEPT !.request.pending = @ + 1]
           less == [Now EXCEPT !.request.pending = @ - 1]
           ending == [Now EXCEPT !.request.ending = TRUE]
           errored == [Now EXCEPT !.request.errored = TRUE]
<1>1. Now \in StateType /\ Now.request = request /\ request.pending \in Nat /\ Good(Now)
  BY NowTypes DEF CInv, RequestType
<1>2. Good(more) /\ Accounted(more)
  <2>1. request.pending + 1 \in Nat
    BY <1>1
  <2>2. more \in StateType /\ Aside(Now, more) /\ Quiet(Now, more)
    BY <1>1, <2>1 DEF StateType, RequestType, Aside, Quiet, Spared, Ends, Closing
  <2> QED
    BY <2>2, AsideGood, QuietAccounted DEF CInv, IInv
<1>3. Good(ending) /\ Good(errored) /\ Accounted(ending) /\ Accounted(errored)
  <2>1. /\ ending \in StateType /\ Aside(Now, ending) /\ Quiet(Now, ending)
        /\ errored \in StateType /\ Aside(Now, errored) /\ Quiet(Now, errored)
    BY <1>1 DEF StateType, RequestType, Aside, Quiet, Spared, Ends, Closing
  <2> QED
    BY <2>1, AsideGood, QuietAccounted DEF CInv, IInv
<1>4. ASSUME request.pending > 0 PROVE Good(less) /\ Accounted(less)
  <2>1. request.pending - 1 \in Nat
    BY <1>1, <1>4
  <2>2. less \in StateType /\ Aside(Now, less) /\ Quiet(Now, less)
    BY <1>1, <2>1 DEF StateType, RequestType, Aside, Quiet, Spared, Ends, Closing
  <2> QED
    BY <2>2, AsideGood, QuietAccounted DEF CInv, IInv
<1> HIDE DEF more, less, ending, errored
<1>5. ASSUME NEW st, Good(st), Accounted(st)
      PROVE  /\ st \in StateType /\ CallWrite(st) \in StateType /\ CallFinal(st) \in StateType
             /\ WriteNext(st) \in StateType
  BY <1>5, WriteNextGood DEF Good, Sound
<1>6. CASE WriteRefused
  BY <1>3, <1>5, <1>6, BecomeAccounted DEF WriteRefused, errored
<1>7. CASE Write
  <2>1. Become(CallWrite(more)) \/ Become(more)
    BY <1>7 DEF Write, more
  <2> QED
    BY <1>2, <1>5, <2>1, WriteNextAccounted, BecomeAccounted
<1>8. CASE End
  <2>1. Become(CallFinal(ending)) \/ Become(ending)
    BY <1>8 DEF End, ending
  <2> QED
    BY <1>3, <1>5, <2>1, WriteNextAccounted, BecomeAccounted
<1>9. CASE SetTimeout
  <2>1. Good(Issue(Now, "setTimeout")) /\ Accounted(Issue(Now, "setTimeout"))
    BY <1>1, IssueGood, IssueAccounted DEF CInv
  <2> QED
    BY <1>9, <2>1, BecomeAccounted DEF SetTimeout, Good, Sound
<1>10. CASE FlushHeaders
  <2>1. Good(Flush(Now)) /\ Accounted(Flush(Now))
    BY <1>1, FlushGood, FlushAccounted DEF CInv
  <2> QED
    BY <1>10, <2>1, BecomeAccounted DEF FlushHeaders, Good, Sound
<1>11. CASE ChunkAccepted
  <2>1. Become(WriteNext(less)) /\ request.pending > 0
    BY <1>11 DEF ChunkAccepted, less
  <2> QED
    BY <1>4, <1>5, <2>1, WriteNextAccounted, BecomeAccounted
<1> QED
  BY <1>6, <1>7, <1>8, <1>9, <1>10, <1>11

\* Destroying leaves a state of the right type.
LEMMA DestroysType ==
  ASSUME NEW st, Sound(st), NEW error \in BOOLEAN
  PROVE  /\ StreamDestroy(st, error) \in StateType /\ RequestDestroy(st, error) \in StateType
         /\ st.response # None => ResponseDestroy(st, error) \in StateType
<1>1. ASSUME NEW t, Sound(t), NEW failed \in BOOLEAN PROVE StreamDestroy(t, failed) \in StateType
  BY <1>1, StreamDestroySound DEF Sound
<1>2. RequestDestroy(st, error) \in StateType
  BY <1>1, MarkRequestSound DEF RequestDestroy, Sound
<1>3. ASSUME st.response # None PROVE ResponseDestroy(st, error) \in StateType
  BY <1>1, <1>3, MarkResponseSound DEF ResponseDestroy, Sound
<1> QED
  BY <1>1, <1>2, <1>3

LEMMA DestroyStepsAccounted ==
  ASSUME CInv, NEW error \in BOOLEAN,
         Abort \/ DestroyRequest(error) \/ DestroyResponse(error) \/ StreamReset(error)
  PROVE  Accounted(Now)'
<1>1. /\ Now \in StateType /\ Now.request = request /\ Now.response = response
      /\ Now.stream = stream /\ Now.ticks = ticks
      /\ ticks \in Seq(Events) /\ Sound(Now) /\ Accounted(Now)
  BY NowTypes DEF CInv
<1>2. CASE Abort
  <2> DEFINE queue == Append(ticks, "abort")
             t == [Now EXCEPT !.request.aborted = TRUE, !.ticks = queue]
  <2>1. /\ queue \in Seq(Events)
        /\ \A i \in 1..Len(queue) :
             queue[i] # "abort" => i \in 1..Len(ticks) /\ ticks[i] = queue[i]
        /\ \A x : /\ x # "abort" => (In(queue, x) <=> In(ticks, x))
                  /\ x # "abort" /\ Once(ticks, x) => Once(queue, x)
    BY <1>1, AppendTick, AppendOnce DEF Events
  <2>2. Become(RequestDestroy(t, FALSE))
    BY <1>1, <1>2 DEF Abort
  <2> HIDE DEF queue
  <2>3. /\ t \in StateType /\ Aside(Now, t) /\ t.stream = stream /\ t.response = response
        /\ t.ticks = queue /\ t.request.method = request.method
        /\ t.request.closes = request.closes /\ t.request.destroyed = request.destroyed
    BY <1>1, <2>1 DEF StateType, RequestType, Aside, Ends, Closing, Events
  <2> HIDE DEF t
  <2>4. Sound(t)
    BY <2>3, AsideGood DEF CInv, IInv, Good
  <2>5. Spared(Now, t) /\ Due(t)
    BY <1>1, <2>1, <2>3 DEF Spared, Due, Accounted, Balanced
  <2>6. Accounted(t)
    BY <1>1, <2>1, <2>3, <2>5, SparedBalanced, SparedAccounted DEF Accounted
  <2> QED
    BY <2>2, <2>4, <2>6, DestroysAccounted, DestroysType, BecomeAccounted
<1>3. CASE DestroyRequest(error)
  BY <1>1, <1>3, DestroysAccounted, DestroysType, BecomeAccounted DEF DestroyRequest
<1>4. CASE DestroyResponse(error)
  <2> DEFINE r == [response EXCEPT !.errored = error]
             t == [Now EXCEPT !.response.errored = error]
  <2>1. response # None /\ Become(ResponseDestroy(t, error))
    BY <1>4 DEF DestroyResponse
  <2>2. response \in ResponseType
    BY <1>1, <2>1 DEF StateType
  <2>3. /\ r.destroyed = response.destroyed /\ r.buffered = response.buffered
        /\ r.closes = response.closes /\ r.complete = response.complete
        /\ r.waited = response.waited /\ r.ending = response.ending
        /\ r.aborted = response.aborted
    BY <2>2 DEF ResponseType
  <2>4. /\ t \in StateType /\ t.request = request /\ t.stream = stream /\ t.ticks = ticks
        /\ t.response = r /\ r # None
    BY <1>1, <2>1, Noted
  <2> HIDE DEF r, t
  <2>5. Sound(t)
    BY <1>1, <2>1, <2>3, <2>4 DEF Sound, Awaited, Forwarded, Flows, Ends, Closing
  <2>6. Quiet(Now, t)
    BY <1>1, <2>1, <2>3, <2>4 DEF Quiet, Spared
  <2>7. Accounted(t)
    BY <1>1, <2>6, QuietAccounted
  <2> QED
    BY <2>1, <2>4, <2>5, <2>7, DestroysAccounted, DestroysType, BecomeAccounted
<1>5. CASE StreamReset(error)
  BY <1>1, <1>5, DestroysAccounted, DestroysType, BecomeAccounted DEF StreamReset
<1> QED
  BY <1>2, <1>3, <1>4, <1>5

LEMMA PromisesAccounted ==
  ASSUME CInv, NEW outcome \in {"resolved", "rejected"},
         AgentAnswers(outcome) \/ Resume \/ DestroyCallback
  PROVE  Accounted(Now)'
<1>1. /\ Now \in StateType /\ Now.request = request /\ Now.stream = stream
      /\ Now.response = response /\ Now.ticks = ticks /\ request \in RequestType
      /\ Sound(Now) /\ Accounted(Now)
  BY NowTypes DEF CInv
<1>2. CASE AgentAnswers(outcome)
  <2> DEFINE t == [Now EXCEPT !.request.promise = outcome]
  <2>1. t \in StateType /\ Quiet(Now, t)
    BY <1>1 DEF StateType, RequestType, Quiet, Spared
  <2> QED
    BY <1>1, <1>2, <2>1, QuietAccounted, BecomeAccounted DEF AgentAnswers
<1>3. CASE Resume
  <2> DEFINE t == [Now EXCEPT !.request.resumed = TRUE]
  <2>1. /\ t \in StateType /\ t.stream = stream /\ t.response = response /\ t.ticks = ticks
        /\ t.request.flushed = request.flushed /\ t.request.promise = request.promise
        /\ t.request.resumed /\ t.request.destroyed = request.destroyed
        /\ t.request.jobs = request.jobs /\ t.request.issued = request.issued
        /\ t.request.method = request.method /\ t.request.closes = request.closes
    BY <1>1 DEF StateType, RequestType
  <2>2. request.promise \in {"resolved", "rejected"} /\ ~request.resumed
    BY <1>3 DEF Resume
  <2>3. stream.phase = "none" /\ request.flushed
    BY <1>1, <2>2 DEF Sound, Awaited
  <2>4. Become(OnStream(t)) \/ Become(RequestDestroy(t, TRUE))
    BY <1>3 DEF Resume
  <2> HIDE DEF t
  <2>5. Sound(t)
    BY <1>1, <2>1 DEF Sound, Awaited, Forwarded, Flows, Ends, Closing
  <2>6. Quiet(Now, t)
    BY <1>1, <2>1 DEF Quiet, Spared
  <2>7. Accounted(t)
    BY <1>1, <2>6, QuietAccounted
  <2>8. Accounted(OnStream(t)) /\ OnStream(t) \in StateType
    BY <2>1, <2>3, <2>5, <2>7, OnStreamAccounted, OnStreamGood DEF Good, Sound
  <2>9. Accounted(RequestDestroy(t, TRUE)) /\ RequestDestroy(t, TRUE) \in StateType
    BY <2>5, <2>7, DestroysAccounted, DestroysType
  <2> QED
    BY <2>4, <2>8, <2>9, BecomeAccounted
<1>4. CASE DestroyCallback
  <2> DEFINE rejected == request.awaiting = "promise" /\ request.promise = "rejected"
             errored == request.errored \/ request.error \/ (rejected /\ request.aborted)
             t == [Now EXCEPT !.request.awaiting = "no", !.request.errored = errored]
  <2>1. errored \in BOOLEAN
    BY <1>1 DEF RequestType
  <2>2. Become(t)
    BY <1>1, <1>4 DEF DestroyCallback
  <2> HIDE DEF errored
  <2>3. t \in StateType /\ Quiet(Now, t)
    BY <1>1, <2>1 DEF StateType, RequestType, Quiet, Spared
  <2> QED
    BY <1>1, <2>2, <2>3, QuietAccounted, BecomeAccounted
<1> QED
  BY <1>2, <1>3, <1>4

\* Reading and filling a response decides nothing about `close'.
LEMMA ReadingAccounted ==
  ASSUME CInv, ReadChunk \/ StreamData \/ StreamEnd PROVE Accounted(Now)'
<1>1. /\ Now \in StateType /\ Now.request = request /\ Now.stream = stream
      /\ Now.response = response /\ Now.ticks = ticks /\ stream \in StreamType
      /\ Accounted(Now)
  BY NowTypes DEF CInv
<1>2. response # None /\ response \in ResponseType
  BY NowTypes DEF CInv, ReadChunk, StreamData, StreamEnd, Flowing
<1>3. PICK r, f : LET t == [Now EXCEPT !.response = r, !.stream = f]
                  IN /\ Become(t) /\ r \in ResponseType /\ f \in StreamType
                     /\ f.phase = stream.phase /\ f.attached = stream.attached
                     /\ r.closes = response.closes /\ r.complete = response.complete
                     /\ r.waited = response.waited /\ r.ending = response.ending
                     /\ r.aborted = response.aborted /\ r.destroyed = response.destroyed
  <2>1. CASE ReadChunk
    <3> DEFINE r == [response EXCEPT !.buffered = @ - 1]
               f == [stream EXCEPT !.paused = FALSE]
    <3>1. response.buffered - 1 \in Nat
      BY <1>2, <2>1 DEF ReadChunk, ResponseType
    <3>2. Become([Now EXCEPT !.response = r, !.stream = f])
      BY <1>1, <2>1 DEF ReadChunk
    <3>3. /\ r \in ResponseType /\ r.closes = response.closes /\ r.complete = response.complete
          /\ r.waited = response.waited /\ r.ending = response.ending
          /\ r.aborted = response.aborted /\ r.destroyed = response.destroyed
      BY <1>2, <3>1 DEF ResponseType
    <3>4. f \in StreamType /\ f.phase = stream.phase /\ f.attached = stream.attached
      BY <1>1 DEF StreamType
    <3> HIDE DEF r, f
    <3> QED
      BY <3>2, <3>3, <3>4
  <2>2. CASE StreamData
    <3> DEFINE buffered == response.buffered + (IF response.destroyed THEN 0 ELSE 1)
               full == response.destroyed \/ buffered >= HighWaterMark
               f == [stream EXCEPT !.chunks = @ + 1]
               g == [stream EXCEPT !.chunks = @ + 1, !.paused = full]
               r == [response EXCEPT !.buffered = buffered]
    <3>1. stream.chunks + 1 \in Nat /\ buffered \in Nat
      BY <1>1, <1>2 DEF StreamType, ResponseType
    <3>2. \/ Become([Now EXCEPT !.response = response, !.stream = f])
          \/ Become([Now EXCEPT !.response = r, !.stream = g])
      <4>1. \/ Become([Now EXCEPT !.stream = f])
            \/ Become([Now EXCEPT !.stream = g, !.response = r])
        BY <2>2, StreamDataBecomes
      <4>2. /\ [Now EXCEPT !.response = response, !.stream = f] = [Now EXCEPT !.stream = f]
            /\ [Now EXCEPT !.response = r, !.stream = g] = [Now EXCEPT !.stream = g, !.response = r]
        <5> HIDE DEF f, g, r
        <5> QED
          BY <1>1 DEF Now
      <4> QED
        BY <4>1, <4>2
    <3>3. /\ r \in ResponseType /\ r.closes = response.closes /\ r.complete = response.complete
          /\ r.waited = response.waited /\ r.ending = response.ending
          /\ r.aborted = response.aborted /\ r.destroyed = response.destroyed
      <4> HIDE DEF buffered
      <4> QED
        BY <1>2, <3>1 DEF ResponseType
    <3>4. f \in StreamType /\ f.phase = stream.phase /\ f.attached = stream.attached
      BY <1>1, <3>1 DEF StreamType
    <3>5. g \in StreamType /\ g.phase = stream.phase /\ g.attached = stream.attached
      <4>1. full \in BOOLEAN
        OBVIOUS
      <4> HIDE DEF full
      <4> QED
        BY <1>1, <3>1, <4>1 DEF StreamType
    <3> HIDE DEF r, f, g
    <3> QED
      BY <1>2, <3>2, <3>3, <3>4, <3>5
  <2>3. CASE StreamEnd
    <3> DEFINE f == [stream EXCEPT !.ended = TRUE]
               r == [response EXCEPT !.eof = @ \/ ~request.aborted]
    <3>1. Become([Now EXCEPT !.response = r, !.stream = f])
      <4>1. Become([Now EXCEPT !.stream = f, !.response = r])
        BY <1>1, <2>3 DEF StreamEnd
      <4>2. [Now EXCEPT !.stream = f, !.response = r] = [Now EXCEPT !.response = r, !.stream = f]
        BY DEF Now
      <4> QED
        BY <4>1, <4>2
    <3>2. /\ r \in ResponseType /\ r.closes = response.closes /\ r.complete = response.complete
          /\ r.waited = response.waited /\ r.ending = response.ending
          /\ r.aborted = response.aborted /\ r.destroyed = response.destroyed
      BY <1>2 DEF ResponseType
    <3>3. f \in StreamType /\ f.phase = stream.phase /\ f.attached = stream.attached
      BY <1>1 DEF StreamType
    <3> HIDE DEF r, f
    <3> QED
      BY <3>1, <3>2, <3>3
  <2> QED
    BY <2>1, <2>2, <2>3
<1> DEFINE t == [Now EXCEPT !.response = r, !.stream = f]
<1>4. /\ t \in StateType /\ t.request = request /\ t.response = r /\ t.stream = f
      /\ t.ticks = ticks /\ r # None
  BY <1>1, <1>3, NoneAssumption DEF StateType
<1>5. Become(t)
  BY <1>3
<1> HIDE DEF t
<1>6. Quiet(Now, t)
  BY <1>1, <1>2, <1>3, <1>4 DEF Quiet, Spared
<1> QED
  BY <1>1, <1>4, <1>5, <1>6, QuietAccounted, BecomeAccounted

LEMMA ReadEndAccounted == ASSUME CInv, ReadEnd PROVE Accounted(Now)'
<1>1. /\ Now \in StateType /\ Now.request = request /\ Now.stream = stream
      /\ Now.response = response /\ Now.ticks = ticks /\ ticks \in Seq(Events)
      /\ Accounted(Now)
  BY NowTypes DEF CInv
<1>2. response # None /\ response \in ResponseType /\ ~response.ending
  BY NowTypes DEF CInv, ReadEnd
<1> DEFINE r == [response EXCEPT !.ending = TRUE]
           queue == Append(ticks, "end")
           t == [Now EXCEPT !.response = r, !.ticks = queue]
<1>3. /\ r \in ResponseType /\ r.ending /\ r.closes = response.closes
      /\ r.complete = response.complete /\ r.waited = response.waited
      /\ r.aborted = response.aborted /\ r.destroyed = response.destroyed
  BY <1>2 DEF ResponseType
<1>4. /\ queue \in Seq(Events) /\ ~response.complete /\ ~In(ticks, "end")
      /\ \A x : /\ x # "end" => (In(queue, x) <=> In(ticks, x))
                /\ Once(ticks, x) /\ (x = "end" => ~In(ticks, "end")) => Once(queue, x)
  <2>1. ~response.complete /\ ~In(ticks, "end")
    BY <1>1, <1>2 DEF Accounted, Balanced, Due, Answered
  <2>2. queue \in Seq(Events) /\ "end" \in Events
    BY <1>1 DEF Events
  <2> QED
    BY <1>1, <2>1, <2>2, AppendOnce
<1>5. Become(t)
  BY <1>1 DEF ReadEnd
<1> HIDE DEF r, queue
<1>6. /\ t \in StateType /\ t.request = request /\ t.response = r /\ t.stream = stream
      /\ t.ticks = queue /\ r # None
  BY <1>1, <1>3, <1>4, NoneAssumption DEF StateType, Events
<1> HIDE DEF t
<1>7. Due(t)
  BY <1>1, <1>3, <1>4, <1>6 DEF Accounted, Balanced, Due
<1>8. Over(t) = Over(Now)
  BY <1>1, <1>2, <1>3, <1>6 DEF Over
<1>9. Unserved(t) /\ Reported(t, Over(Now))
  BY <1>1, <1>2, <1>4, <1>6 DEF Accounted, Balanced, Unserved, Reported
<1>10. Answered(t, Over(Now))
  BY <1>1, <1>2, <1>3, <1>6 DEF Accounted, Balanced, Answered
<1> QED
  BY <1>5, <1>6, <1>7, <1>8, <1>9, <1>10, BecomeAccounted DEF Accounted, Balanced

LEMMA StreamResponseAccounted == ASSUME CInv, StreamResponse PROVE Accounted(Now)'
<1> DEFINE t == [Now EXCEPT !.response = NewResponse]
<1>1. /\ Now \in StateType /\ Now.request = request /\ Now.stream = stream
      /\ Now.response = response /\ Now.ticks = ticks /\ request \in RequestType
      /\ Accounted(Now) /\ Sound(Now)
  BY NowTypes DEF CInv
<1>2. /\ NewResponse \in ResponseType /\ ~NewResponse.destroyed /\ ~NewResponse.complete
      /\ ~NewResponse.waited /\ NewResponse.closes = 0
  BY DEF NewResponse, ResponseType
<1>3. NewResponse # None
  BY <1>2, NoneAssumption
<1>4. /\ t \in StateType /\ t.request = request /\ t.stream = stream /\ t.ticks = ticks
      /\ t.response = NewResponse
  BY <1>1, <1>2 DEF StateType
<1>5. \/ request.method = "CONNECT" /\ Become(EmitClose(t))
      \/ Become(t) \/ Become(StreamDestroy(t, FALSE)) \/ Become(Dump(t))
  BY <1>1 DEF StreamResponse
<1>6. stream.phase = "open" /\ stream.attached /\ response = None
  BY DEF StreamResponse, Idle
<1> HIDE DEF t
<1>7. Sound(t)
  BY <1>1, <1>3, <1>4, <1>6 DEF Sound, Awaited, Forwarded, Flows, Ends, Closing
<1>8. request.closes = 0
  <2>1. Over(Now) = FALSE
    BY <1>1, <1>6 DEF Over
  <2>2. request.closes <= 0 + 0
    BY <1>1, <1>6, <2>1 DEF Accounted, Balanced, Reported
  <2>3. request.closes \in Nat
    BY <1>1 DEF RequestType
  <2> QED
    BY <2>2, <2>3
<1>9. Due(t)
  BY <1>1, <1>4, <1>6 DEF Accounted, Balanced, Due
<1>10. Unserved(t) /\ Answered(t, FALSE) /\ ~Over(t)
  BY <1>2, <1>4, <1>6 DEF Unserved, Answered, Over
<1>11. Accounted(t)
  <2>1. Reported(t, FALSE)
    BY <1>4, <1>8 DEF Reported
  <2>2. Balanced(t, FALSE, FALSE)
    BY <1>9, <1>10, <2>1 DEF Balanced
  <2> QED
    BY <1>10, <2>2, NotOver
<1>12. ASSUME request.method = "CONNECT"
       PROVE  Accounted(EmitClose(t)) /\ EmitClose(t) \in StateType
  <2> DEFINE u == EmitClose(t)
  <2>1. /\ u \in StateType /\ u.stream = t.stream /\ u.response = t.response
        /\ u.ticks = t.ticks /\ u.request.closes = 1 /\ u.request.method = "CONNECT"
    BY <1>4, <1>8, <1>12, EmitCloseFields
  <2> HIDE DEF u
  <2>2. Due(u)
    <3>1. ~In(t.ticks, "close")
      BY <1>4, <1>6, <1>9 DEF Due
    <3> QED
      BY <1>9, <2>1, <3>1 DEF Due
  <2>3. Unserved(u) /\ Answered(u, FALSE) /\ ~Over(u)
    BY <1>4, <1>6, <1>10, <2>1 DEF Unserved, Answered, Over
  <2>4. Reported(u, FALSE)
    BY <1>3, <1>4, <2>1 DEF Reported
  <2>5. Accounted(u)
    BY <2>2, <2>3, <2>4, NotOver DEF Balanced
  <2> QED
    BY <2>1, <2>5 DEF u
<1>13. Accounted(Dump(t)) /\ Dump(t) \in StateType
  BY <1>7, <1>11, DumpQuiet, DumpSound, QuietAccounted DEF Sound
<1>14. Accounted(StreamDestroy(t, FALSE)) /\ StreamDestroy(t, FALSE) \in StateType
  BY <1>7, <1>11, DestroysAccounted, DestroysType
<1> QED
  BY <1>4, <1>5, <1>11, <1>12, <1>13, <1>14, BecomeAccounted

LEMMA StreamFinishedAccounted == ASSUME CInv, StreamFinished PROVE Accounted(Now)'
<1>1. /\ Now \in StateType /\ Now.request = request /\ Now.stream = stream
      /\ Now.response = response /\ Now.ticks = ticks
      /\ stream \in StreamType /\ ticks \in Seq(Events) /\ Accounted(Now)
  BY NowTypes DEF CInv
<1> DEFINE queue == Append(ticks, "streamClose")
           f == [stream EXCEPT !.phase = "destroyed"]
           t == [Now EXCEPT !.stream = f, !.ticks = queue]
<1>2. stream.phase = "open" /\ ~In(ticks, "streamClose")
  BY <1>1 DEF StreamFinished, Idle, Accounted, Balanced, Due
<1>3. /\ queue \in Seq(Events)
      /\ \A x : /\ x # "streamClose" => (In(queue, x) <=> In(ticks, x))
                /\ Once(ticks, x) => Once(queue, x)
  <2>1. "streamClose" \in Events
    BY DEF Events
  <2> QED
    BY <1>1, <1>2, <2>1, AppendOnce, AppendProperties
<1>4. f \in StreamType /\ f.phase = "destroyed" /\ f.attached = stream.attached
  BY <1>1 DEF StreamType
<1>5. Become(t)
  BY <1>1 DEF StreamFinished
<1> HIDE DEF queue, f
<1>6. /\ t \in StateType /\ t.request = request /\ t.stream = f /\ t.response = response
      /\ t.ticks = queue
  BY <1>1, <1>3, <1>4 DEF StateType, Events
<1> HIDE DEF t
<1>7. Spared(Now, t)
  BY <1>1, <1>2, <1>4, <1>6 DEF Spared
<1>8. Due(t)
  BY <1>1, <1>3, <1>4, <1>6 DEF Accounted, Balanced, Due
<1>9. Accounted(t)
  BY <1>1, <1>3, <1>6, <1>7, <1>8, SparedBalanced, SparedAccounted DEF Accounted
<1> QED
  BY <1>5, <1>6, <1>9, BecomeAccounted

LEMMA TicksAccounted == ASSUME CInv, Ticks PROVE Accounted(Now)'
<1>1. /\ Now \in StateType /\ Now.request = request /\ Now.stream = stream
      /\ Now.response = response /\ Now.ticks = ticks
      /\ stream \in StreamType /\ ticks \in Seq(Events) /\ ticks # <<>>
      /\ Accounted(Now) /\ Sound(Now) /\ Good(Now)
  BY NowTypes DEF CInv, Ticks, Tick, TickAbort, TickClose, TickEnd, TickStreamError,
     TickStreamClose
<1>2. /\ Tail(ticks) \in Seq(Events) /\ In(ticks, Head(ticks))
      /\ Once(ticks, Head(ticks)) => ~In(Tail(ticks), Head(ticks))
      /\ \A x : (In(Tail(ticks), x) => In(ticks, x)) /\ (Once(ticks, x) => Once(Tail(ticks), x))
  BY <1>1, TailOnce
<1>3. After \in StateType /\ After.ticks = Tail(ticks) /\ After.stream = stream
      /\ After.request = request /\ After.response = response
  BY <1>1, <1>2 DEF After, StateType, Events
<1>4. Spared(Now, After)
  BY <1>1, <1>3 DEF Spared
<1>5. Due(After)
  BY <1>1, <1>2, <1>3 DEF Accounted, Balanced, Due
<1>6. Accounted(After)
  BY <1>1, <1>2, <1>3, <1>4, <1>5, SparedBalanced, SparedAccounted DEF Accounted
<1>7. Sound(After)
  <2>1. (Ends(After) => Ends(Now)) /\ (Closing(After) => Closing(Now))
    BY <1>1, <1>2, <1>3 DEF Ends, Closing, In
  <2> QED
    BY <1>1, <1>3, <2>1 DEF Sound, Awaited, Forwarded, Flows
<1>8. CASE TickAbort
  BY <1>3, <1>6, <1>8, BecomeAccounted DEF TickAbort
<1>9. CASE TickClose
  <2> DEFINE t == EmitClose(After)
  <2>1. /\ ~stream.attached /\ request.closes = 0 /\ request.destroyed
        /\ ~In(After.ticks, "close") /\ response = None
    BY <1>1, <1>2, <1>3, <1>9 DEF TickClose, Tick, Accounted, Balanced, Due, Unserved
  <2>2. /\ t \in StateType /\ t.stream = stream /\ t.response = response /\ t.ticks = After.ticks
        /\ t.request.closes = 1 /\ t.request.destroyed
    BY <1>3, <2>1, EmitCloseFields
  <2> HIDE DEF t
  <2>3. Due(t)
    BY <1>3, <1>5, <2>1, <2>2 DEF Due
  <2>4. Unserved(t) /\ Reported(t, FALSE) /\ Answered(t, FALSE) /\ ~Over(t)
    BY <2>1, <2>2 DEF Unserved, Reported, Answered, Over
  <2>5. Accounted(t)
    BY <2>3, <2>4, NotOver DEF Balanced
  <2> QED
    BY <1>9, <2>2, <2>5, BecomeAccounted DEF TickClose, t
<1>10. CASE TickEnd
  <2>1. /\ After.response # None /\ After.response.ending /\ ~After.response.complete
        /\ ~In(After.ticks, "end")
    BY <1>1, <1>2, <1>3, <1>10 DEF TickEnd, Tick, Accounted, Balanced, Due
  <2>2. Accounted(OnEnd(After))
    BY <1>6, <1>7, <2>1, OnEndAccounted
  <2>3. Good(After)
    BY <1>1, <1>3, <1>7 DEF Good, NoOrphan
  <2>4. OnEnd(After) \in StateType
    BY <2>1, <2>3, OnEndGood DEF Good, Sound
  <2>5. After \in StateType /\ (Become(After) \/ Become(OnEnd(After)))
    BY <1>3, <1>10 DEF TickEnd
  <2> QED
    BY <1>6, <2>2, <2>4, <2>5, BecomeAccounted
<1>11. CASE TickStreamError
  BY <1>6, <1>7, <1>11, DestroysAccounted, DestroysType, BecomeAccounted DEF TickStreamError
<1>12. CASE TickStreamClose
  <2> DEFINE f == [After.stream EXCEPT !.phase = "closed"]
             t == [After EXCEPT !.stream = f]
  <2>1. /\ stream.phase = "destroyed" /\ ~In(After.ticks, "streamClose")
    BY <1>1, <1>2, <1>3, <1>12 DEF TickStreamClose, Tick, Accounted, Balanced, Due
  <2>2. /\ f \in StreamType /\ f.phase = "closed" /\ f.attached = stream.attached
        /\ f.calls = stream.calls /\ f.paused = stream.paused
    BY <1>1, <1>3 DEF StreamType
  <2>3. Become(IF stream.attached THEN OnStreamClose(t) ELSE t)
    BY <1>12 DEF TickStreamClose
  <2> HIDE DEF f
  <2>4. /\ t \in StateType /\ t.request = After.request /\ t.response = After.response
        /\ t.ticks = After.ticks /\ t.stream = f
    BY <1>3, <2>2 DEF StateType
  <2> HIDE DEF t
  <2>5. Sound(t)
    BY <1>3, <1>7, <2>1, <2>2, <2>4 DEF Sound, Awaited, Forwarded, Flows, Ends, Closing
  <2>6. Balanced(After, FALSE, FALSE)
    <3>1. ~Over(After)
      BY <1>3, <2>1 DEF Over
    <3> QED
      BY <1>6, <3>1, NotOver
  <2>7. Due(t)
    BY <1>5, <1>3, <2>1, <2>2, <2>4 DEF Due
  <2>8. Unserved(t) /\ Reported(t, FALSE)
    BY <1>3, <2>2, <2>4, <2>6 DEF Balanced, Unserved, Reported
  <2>9. Answered(t, FALSE) /\ (t.response # None => ~t.response.waited)
    BY <1>3, <2>1, <2>2, <2>4, <2>6 DEF Balanced, Answered
  <2>10. CASE stream.attached
    <3>1. Accounted(OnStreamClose(t))
      BY <2>2, <2>4, <2>5, <2>7, <2>8, <2>9, <2>10, OnStreamCloseAccounted DEF Balanced
    <3>2. OnStreamClose(t) \in StateType
      BY <2>2, <2>4, <2>5, OnStreamCloseGood DEF Good, Sound
    <3> QED
      BY <2>3, <2>10, <3>1, <3>2, BecomeAccounted
  <2>11. CASE ~stream.attached
    <3>1. ~Over(t)
      BY <2>2, <2>4, <2>11 DEF Over
    <3>2. Accounted(t)
      BY <2>7, <2>8, <2>9, <3>1, NotOver DEF Balanced
    <3> QED
      BY <2>3, <2>4, <2>11, <3>2, BecomeAccounted
  <2> QED
    BY <2>10, <2>11
<1> QED
  BY <1>8, <1>9, <1>10, <1>11, <1>12 DEF Ticks

LEMMA NextAccounted == CInv /\ [Next]_vars => CInv'
<1> SUFFICES ASSUME CInv, [Next]_vars PROVE CInv'
  OBVIOUS
<1>1. IInv'
  BY NextGood DEF CInv
<1>2. CASE UNCHANGED vars
  <2>1. Now' = Now
    BY <1>2 DEF vars, Now
  <2> QED
    BY <1>1, <2>1 DEF CInv
<1>3. CASE Next
  BY <1>1, <1>3, CallsAccounted, DestroyStepsAccounted, PromisesAccounted, ReadingAccounted,
     ReadEndAccounted, StreamResponseAccounted, StreamFinishedAccounted, TicksAccounted
     DEF Next, CInv
<1> QED
  BY <1>2, <1>3

THEOREM Accounting == Spec => []CInv
<1>1. Init => CInv
  BY InitGood, InitAccounted DEF CInv
<1> QED
  BY <1>1, NextAccounted, PTL DEF Spec

\* Neither the request nor its response says `close' twice, whichever of the pending
\* tick, the stream's handler and the response's end comes last; a tunnel says it
\* when it is handed over and when it breaks (client-request.js:258, 340,
\* 396-418).
THEOREM CloseSaidOnce == Spec => []ClosedOnce
<1>1. CInv => ClosedOnce
  <2> SUFFICES ASSUME CInv PROVE ClosedOnce
    OBVIOUS
  <2>1. /\ Accounted(Now) /\ Now.request = request /\ Now.response = response
        /\ Now.stream = stream /\ request \in RequestType
    BY NowTypes DEF CInv
  <2>2. request.closes \in Nat
    BY <2>1 DEF RequestType
  <2>3. CASE stream.attached
    <3>1. request.closes <= (IF request.method = "CONNECT" /\ response # None THEN 1 ELSE 0)
                            + (IF Over(Now) THEN 1 ELSE 0)
      BY <2>1, <2>3 DEF Accounted, Balanced, Reported
    <3>2. response # None => response.closes = IF Over(Now) THEN 1 ELSE 0
      BY <2>1 DEF Accounted, Balanced, Answered
    <3> QED
      BY <2>2, <3>1, <3>2 DEF ClosedOnce
  <2>4. CASE ~stream.attached
    BY <2>1, <2>2, <2>4 DEF Accounted, Balanced, Unserved, ClosedOnce
  <2> QED
    BY <2>3, <2>4
<1> QED
  BY <1>1, Accounting, PTL

\* A request says `close' after its response did, which is whole or marked aborted
\* by then (client-request.js:386-408, incoming-message.js:41-50).
THEOREM CloseTold == Spec => []TruthfulClose
<1>1. CInv => TruthfulClose
  <2> SUFFICES ASSUME CInv, request.method # "CONNECT", request.closes > 0, response # None
               PROVE  response.closes = 1 /\ (response.complete \/ response.aborted)
    BY DEF TruthfulClose
  <2>1. /\ Accounted(Now) /\ Now.request = request /\ Now.response = response
        /\ Now.stream = stream /\ request \in RequestType
    BY NowTypes DEF CInv
  <2>2. stream.attached
    BY <2>1 DEF Accounted, Balanced, Unserved
  <2>3. Over(Now)
    <3>1. request.closes <= 0 + (IF Over(Now) THEN 1 ELSE 0)
      BY <2>1, <2>2 DEF Accounted, Balanced, Reported
    <3>2. request.closes \in Nat
      BY <2>1 DEF RequestType
    <3> QED
      BY <3>1, <3>2
  <2> QED
    BY <2>1, <2>3 DEF Accounted, Balanced, Answered
<1> QED
  BY <1>1, Accounting, PTL
=============================================================================
