---------------------------- MODULE ClientRequest ----------------------------
(***************************************************************************)
(* One request of source/client-request.js with the response of            *)
(* source/incoming-message.js and the Http2Stream both of them share.      *)
(*                                                                         *)
(* Three objects destroy each other: destroying the request dumps the      *)
(* response and destroys the stream, destroying the response destroys the  *)
(* stream, and the stream's `error', `aborted' and `close' events destroy  *)
(* the request or the response.  The user may call in between at any time, *)
(* also before the agent has found a stream.                               *)
(*                                                                         *)
(* An action is one call of the user, one event of the stream, or one      *)
(* callback of process.nextTick() (kept in order in `ticks') or of a       *)
(* promise.  Helpers map a state `st' to the state a function leaves.      *)
(* Node's Writable, Readable and Http2Stream (15 and later) are modelled   *)
(* from how this code uses them.                                           *)
(***************************************************************************)
EXTENDS Integers, Sequences

CONSTANTS
  Methods,        \* methods a request may have, "GET" stands for all without a body
  Sessions,       \* "agent", or options.h2session: "open", or "refusing" (request() throws)
  UserMay,        \* calls the user may make besides end()
  MaxCalls,       \* bound on the calls forwarded to the stream
  MaxChunks,      \* bound on the chunks of a response
  HighWaterMark,  \* chunks a response buffers before push() returns false
  None

Calls == {"write", "setTimeout", "flushHeaders", "abort", "destroy", "destroyResponse"}

ASSUME MethodsAssumption == Methods \subseteq {"GET", "POST", "CONNECT"}
ASSUME SessionsAssumption == Sessions \subseteq {"agent", "open", "refusing"}
ASSUME UserAssumption == UserMay \subseteq Calls
ASSUME BoundsAssumption == MaxCalls \in Nat /\ MaxChunks \in Nat /\ HighWaterMark \in Nat \ {0}

VARIABLES
  request,   \* the ClientRequest and its Writable half
  stream,    \* request._request, an Http2Stream
  response,  \* request.res, an IncomingMessage, or None
  ticks      \* callbacks of process.nextTick() that have not run

vars == <<request, stream, response, ticks>>

\* `pending' counts the chunks Writable has not had a callback for, the first of
\* them being in _write(); `issued' is a history of the calls made on the stream
\* or, until there is one, put into `jobs'; `closes' counts `close' events.
NewRequest(method, session, listening) ==
  [method |-> method, session |-> session, listening |-> listening,
   flushed |-> FALSE, promise |-> "none", resumed |-> FALSE,
   jobs |-> <<>>, issued |-> <<>>, pending |-> 0, ending |-> FALSE,
   destroyed |-> FALSE, aborted |-> FALSE, awaiting |-> "no",
   error |-> FALSE, errored |-> FALSE, closes |-> 0]

\* `attached': onStream() has put its handlers on the stream.
NewStream(phase) ==
  [phase |-> phase, attached |-> FALSE, failed |-> FALSE, calls |-> <<>>,
   paused |-> FALSE, ended |-> FALSE, chunks |-> 0]

\* `complete' is set by the `end' event, `waited' is finish() waiting for it, `errored'
\* a response destroyed with an error.
NewResponse ==
  [buffered |-> 0, eof |-> FALSE, ending |-> FALSE, complete |-> FALSE, dumped |-> FALSE,
   destroyed |-> FALSE, errored |-> FALSE, aborted |-> FALSE, abortedEvents |-> 0, waited |-> FALSE, closes |-> 0]

CallList == Seq({"write", "end", "setTimeout"} \X Nat)

RequestType == [
  method : Methods, session : Sessions, listening : BOOLEAN, flushed : BOOLEAN,
  promise : {"none", "pending", "resolved", "rejected"}, resumed : BOOLEAN,
  jobs : CallList, issued : CallList, pending : Nat, ending : BOOLEAN, destroyed : BOOLEAN,
  aborted : BOOLEAN, awaiting : {"no", "tick", "promise"}, error : BOOLEAN, errored : BOOLEAN,
  closes : Nat]

StreamType == [
  phase : {"none", "open", "destroyed", "closed"}, attached : BOOLEAN, failed : BOOLEAN,
  calls : CallList, paused : BOOLEAN, ended : BOOLEAN, chunks : Nat]

ResponseType == [
  buffered : Nat, eof : BOOLEAN, ending : BOOLEAN, complete : BOOLEAN, dumped : BOOLEAN,
  destroyed : BOOLEAN, errored : BOOLEAN, aborted : BOOLEAN, abortedEvents : Nat, waited : BOOLEAN, closes : Nat]

StateType == [
  request : RequestType, stream : StreamType, response : ResponseType \cup {None},
  ticks : Seq({"abort", "close", "end", "streamError", "streamClose"})]

ASSUME NoneAssumption == None \notin ResponseType

Now == [request |-> request, stream |-> stream, response |-> response, ticks |-> ticks]

Become(state) == \E st \in {state} :
  request' = st.request /\ stream' = st.stream /\ response' = st.response /\ ticks' = st.ticks

------------------------------------------------------------------------------
(* Destroying: who takes whom along.                                        *)

\* The writable side of the stream: a GET has none, end() ends that of a POST.
Ending(st) ==
  \/ st.request.method = "GET"
  \/ st.request.method = "POST" /\ \E i \in DOMAIN st.stream.calls : st.stream.calls[i][1] = "end"

\* response._dump()
Dump(st) == IF st.response = None THEN st ELSE [st EXCEPT !.response.dumped = TRUE]

\* response.destroy() without its last line, which destroys the stream
MarkResponse(st) ==
  IF st.response.destroyed THEN st
  ELSE [st EXCEPT !.response.destroyed = TRUE,
                  !.response.aborted = @ \/ ~st.response.complete]

MarkRequest_Mutant1(st, error) ==
  IF st.request.destroyed THEN st
  ELSE [Dump(st) EXCEPT
         !.request.destroyed = TRUE, !.request.error = error, !.ticks = Append(@, "close"),
         !.request.awaiting =
           IF st.request.promise # "none" /\ ~st.request.resumed THEN "promise" ELSE "tick"]

MarkRequest_Mutant2(st, error) ==
  IF st.request.destroyed THEN st
  ELSE [Dump(st) EXCEPT
         !.request.destroyed = TRUE, !.request.error = error,
         !.request.awaiting =
           IF st.request.promise # "none" /\ ~st.request.resumed THEN "promise" ELSE "tick"]

\* request.destroy(error) as far as it does not touch the stream: a request
\* without one emits `close' itself, and the callback of _destroy() awaits
\* kPendingAgentPromise.
MarkRequest(st, error) ==
  IF st.request.destroyed THEN st
  ELSE LET r == st.request
           marked == [Dump(st) EXCEPT
             !.request.destroyed = TRUE, !.request.error = error,
             !.request.awaiting = IF r.promise # "none" /\ ~r.resumed THEN "promise" ELSE "tick"]
       IN IF st.stream.phase # "none" THEN marked
          ELSE [marked EXCEPT !.ticks = Append(@, "close")]

AbortResponse(st) ==
  MarkResponse([st EXCEPT !.response.aborted = TRUE, !.response.abortedEvents = @ + 1])

\* The `aborted' handler, of a stream that is being destroyed.
OnAborted(st) ==
  IF st.response # None THEN AbortResponse(st) ELSE MarkRequest(st, TRUE)

\* stream.destroy(): Node emits `aborted' at once if the writable side is open,
\* then `error' if it was given one, then `close'.
StreamDestroy(st, failed) ==
  IF st.stream.phase # "open" THEN st
  ELSE LET gone == [st EXCEPT
             !.stream.phase = "destroyed", !.stream.failed = failed,
             !.ticks = @ \o (IF failed THEN <<"streamError", "streamClose">>
                             ELSE <<"streamClose">>)]
       IN IF Ending(st) \/ ~st.stream.attached THEN gone ELSE OnAborted(gone)

RequestDestroy(st, error) ==
  IF st.request.destroyed THEN st ELSE StreamDestroy(MarkRequest(st, error), FALSE)

ResponseDestroy(st, error) ==
  IF st.response.destroyed THEN st ELSE StreamDestroy(MarkResponse(st), error)

EmitClose(st) == [st EXCEPT !.request.closes = @ + 1]

------------------------------------------------------------------------------
(* The stream arrives.                                                      *)

OnStream_Mutant(st) ==
  [st EXCEPT !.stream = [NewStream("open") EXCEPT !.attached = TRUE, !.calls = st.request.jobs],
             !.request.jobs = <<>>]

\* A stream that comes too late gets no handlers.
OnStream(st) ==
  IF st.request.destroyed
  THEN StreamDestroy([st EXCEPT !.stream = NewStream("open")], FALSE)
  ELSE [st EXCEPT
         !.stream = [NewStream("open") EXCEPT !.attached = TRUE, !.calls = st.request.jobs],
         !.request.jobs = <<>>]

Flush(st) ==
  IF st.request.flushed \/ st.request.destroyed THEN st
  ELSE LET flushed == [st EXCEPT !.request.flushed = TRUE]
       IN CASE st.request.session = "agent" -> [flushed EXCEPT !.request.promise = "pending"]
            [] st.request.session = "open" -> OnStream(flushed)
            [] st.request.session = "refusing" -> RequestDestroy(flushed, TRUE)

Issue_Mutant(st, kind) ==
  LET call == <<kind, Len(st.request.issued) + 1>>
      issued == [st EXCEPT !.request.issued = Append(@, call)]
  IN IF ~st.request.resumed THEN [issued EXCEPT !.request.jobs = Append(@, call)]
     ELSE [issued EXCEPT !.stream.calls = Append(@, call)]

\* callWrite, callEnd and applyTimeout: on the stream, or a job for later.
Issue(st, kind) ==
  LET call == <<kind, Len(st.request.issued) + 1>>
      issued == [st EXCEPT !.request.issued = Append(@, call)]
  IN IF st.stream.phase = "none" THEN [issued EXCEPT !.request.jobs = Append(@, call)]
     ELSE [issued EXCEPT !.stream.calls = Append(@, call)]

CallWrite(st) == Issue(Flush(st), "write")   \* _write()
CallFinal(st) == Issue(Flush(st), "end")     \* _final()

\* What Writable does next: the following chunk, or _final().
WriteNext(st) ==
  IF st.request.pending > 0 THEN CallWrite(st)
  ELSE IF st.request.ending THEN CallFinal(st) ELSE st

------------------------------------------------------------------------------
(* Calls of the user.                                                       *)

May(call) == call \in UserMay

Bounded == Len(request.issued) + request.pending < MaxCalls

Writing == ~request.destroyed /\ ~request.errored /\ ~request.ending

\* A body where none is allowed: the callback gets an error, which is emitted.
WriteRefused ==
  /\ May("write") /\ Writing /\ request.method = "GET"
  /\ Become([Now EXCEPT !.request.errored = TRUE])

Write ==
  /\ May("write") /\ Writing /\ Bounded /\ request.method # "GET"
  /\ LET more == [Now EXCEPT !.request.pending = @ + 1]
     IN Become(IF request.pending = 0 THEN CallWrite(more) ELSE more)

End ==
  /\ Writing /\ Bounded
  /\ LET ending == [Now EXCEPT !.request.ending = TRUE]
     IN Become(IF request.pending = 0 THEN CallFinal(ending) ELSE ending)

SetTimeout == May("setTimeout") /\ Bounded /\ Become(Issue(Now, "setTimeout"))

FlushHeaders == May("flushHeaders") /\ ~request.flushed /\ Become(Flush(Now))

Abort ==
  /\ May("abort") /\ ~(response # None /\ response.complete) /\ ~request.aborted
  /\ Become(RequestDestroy([Now EXCEPT !.request.aborted = TRUE,
                                       !.ticks = Append(@, "abort")], FALSE))

DestroyRequest(error) ==
  May("destroy") /\ ~request.destroyed /\ Become(RequestDestroy(Now, error))

DestroyResponse(error) ==
  /\ May("destroyResponse") /\ response # None /\ ~response.destroyed
  /\ Become(ResponseDestroy([Now EXCEPT !.response.errored = error], error))

ReadChunk_Mutant1 ==
  /\ response # None /\ ~response.destroyed
  /\ Become([Now EXCEPT !.response.buffered = @ - 1, !.stream.paused = FALSE])

ReadChunk_Mutant2 ==
  /\ response # None /\ response.buffered > 0 /\ ~response.destroyed
  /\ Become([Now EXCEPT !.response.buffered = @ - 1])

\* The user, or resume() after _dump(), reads a chunk; _read() resumes the stream.
ReadChunk ==
  /\ response # None /\ response.buffered > 0 /\ ~response.destroyed
  /\ Become([Now EXCEPT !.response.buffered = @ - 1, !.stream.paused = FALSE])

\* ... or finds that nothing is left.
ReadEnd ==
  /\ response # None /\ response.eof /\ response.buffered = 0
  /\ ~response.ending /\ ~response.destroyed
  /\ Become([Now EXCEPT !.response.ending = TRUE, !.ticks = Append(@, "end")])

------------------------------------------------------------------------------
(* The promise of the agent.                                                *)

AgentAnswers(outcome) ==
  request.promise = "pending" /\ Become([Now EXCEPT !.request.promise = outcome])

\* flushHeaders() goes on, in its `try' or its `catch'.
Resume ==
  /\ request.promise \in {"resolved", "rejected"} /\ ~request.resumed
  /\ IF request.promise = "resolved"
     THEN Become(OnStream([Now EXCEPT !.request.resumed = TRUE]))
     ELSE Become(RequestDestroy([Now EXCEPT !.request.resumed = TRUE], TRUE))

DestroyCallback_Mutant ==
  /\ request.awaiting = "tick" \/ (request.awaiting = "promise" /\ request.resumed)
  /\ Become([Now EXCEPT !.request.awaiting = "no", !.request.errored = @ \/ request.error])

\* _destroy() goes on: a rejection replaces the error of an aborted request.
DestroyCallback ==
  /\ request.awaiting = "tick" \/ (request.awaiting = "promise" /\ request.resumed)
  /\ LET rejected == request.awaiting = "promise" /\ request.promise = "rejected"
     IN Become([Now EXCEPT !.request.awaiting = "no",
                           !.request.errored = @ \/ request.error \/ (rejected /\ request.aborted)])

------------------------------------------------------------------------------
(* Events of the stream.  The network waits until no callback is left.       *)

Idle == ticks = <<>> /\ stream.phase = "open"

\* A stream that was destroyed without an error may still hand out what it has.
Flowing ==
  /\ response # None /\ request.method # "CONNECT" /\ ~stream.paused /\ ~stream.ended
  /\ Idle \/ (stream.phase = "destroyed" /\ stream.attached /\ ~stream.failed)

\* `response', or `trailers' without one.  Nobody listening: a response is
\* dumped, a tunnel destroyed; a tunnel that is used is over for the request.
StreamResponse ==
  /\ Idle /\ stream.attached /\ response = None
  /\ LET answered == [Now EXCEPT !.response = NewResponse]
     IN Become(IF request.method = "CONNECT"
               THEN IF request.listening THEN EmitClose(answered)
                    ELSE StreamDestroy(answered, FALSE)
               ELSE IF request.listening THEN answered ELSE Dump(answered))

\* push() of a destroyed response takes nothing and returns false.
StreamData ==
  /\ Flowing /\ stream.chunks < MaxChunks
  /\ LET got == [Now EXCEPT !.stream.chunks = @ + 1]
         buffered == response.buffered + (IF response.destroyed THEN 0 ELSE 1)
     IN Become(IF response.dumped THEN got
               ELSE [got EXCEPT !.response.buffered = buffered,
                      !.stream.paused = response.destroyed \/ buffered >= HighWaterMark])

StreamEnd ==
  /\ Flowing
  /\ Become([Now EXCEPT !.stream.ended = TRUE, !.response.eof = @ \/ ~request.aborted])

\* stream.write() calls back: the peer took the chunk.
ChunkAccepted ==
  /\ stream.phase = "open" /\ request.pending > 0
  /\ Become(WriteNext([Now EXCEPT !.request.pending = @ - 1]))

\* Both sides have ended; the user of a tunnel has the stream and ends it.
StreamFinished ==
  /\ Idle
  /\ (stream.ended /\ Ending(Now)) \/ (request.method = "CONNECT" /\ response # None)
  /\ Become([Now EXCEPT !.stream.phase = "destroyed", !.ticks = Append(@, "streamClose")])

\* The peer resets the stream, or the session is lost.
StreamReset(failed) == Idle /\ Become(StreamDestroy(Now, failed))

------------------------------------------------------------------------------
(* Callbacks of process.nextTick(), in their order.                          *)

Readable(res) == ~res.destroyed /\ ~res.complete

\* finish() in the `close' handler of the stream
Finish(st) ==
  EmitClose(RequestDestroy([st EXCEPT !.response.closes = @ + 1], FALSE))

OnStreamClose_Mutant(st) ==
  IF st.response = None THEN EmitClose(RequestDestroy(st, TRUE))
  ELSE Finish(IF st.request.aborted THEN AbortResponse(st) ELSE st)

OnStreamClose(st) ==
  IF st.response = None THEN EmitClose(RequestDestroy(st, TRUE))
  ELSE LET told == IF st.request.aborted THEN AbortResponse(st) ELSE st
       IN IF Readable(told.response) THEN [told EXCEPT !.response.waited = TRUE] ELSE Finish(told)

\* The response's `end': the listeners, then autoDestroy.
OnEnd(st) ==
  LET ended == [st EXCEPT !.response.complete = TRUE]
  IN ResponseDestroy(IF st.response.waited THEN Finish(ended) ELSE ended, FALSE)

After == [Now EXCEPT !.ticks = Tail(@)]

Tick(event) == ticks # <<>> /\ Head(ticks) = event

TickAbort == Tick("abort") /\ Become(After)

TickClose == Tick("close") /\ Become(EmitClose(After))

\* After an error there is no `end'.
TickEnd == Tick("end") /\ Become(IF response.errored THEN After ELSE OnEnd(After))

TickStreamError == Tick("streamError") /\ Become(RequestDestroy(After, TRUE))

TickStreamClose ==
  /\ Tick("streamClose")
  /\ LET closed == [After EXCEPT !.stream.phase = "closed"]
     IN Become(IF stream.attached THEN OnStreamClose(closed) ELSE closed)

Ticks == TickAbort \/ TickClose \/ TickEnd \/ TickStreamError \/ TickStreamClose

------------------------------------------------------------------------------
Init ==
  /\ \E method \in Methods, session \in Sessions, listening \in BOOLEAN :
       request = NewRequest(method, session, listening)
  /\ stream = NewStream("none") /\ response = None /\ ticks = <<>>

Next ==
  \/ WriteRefused \/ Write \/ End \/ SetTimeout \/ FlushHeaders \/ Abort
  \/ \E error \in BOOLEAN : DestroyRequest(error) \/ DestroyResponse(error) \/ StreamReset(error)
  \/ ReadChunk \/ ReadEnd
  \/ \E outcome \in {"resolved", "rejected"} : AgentAnswers(outcome)
  \/ Resume \/ DestroyCallback
  \/ StreamResponse \/ StreamData \/ StreamEnd \/ ChunkAccepted \/ StreamFinished
  \/ Ticks

Spec == Init /\ [][Next]_vars

\* The agent answers (Agent!CallersAnswered), what runs later does run, the
\* response is read, and every stream ends or is reset.
Fairness ==
  /\ WF_vars(\E outcome \in {"resolved", "rejected"} : AgentAnswers(outcome))
  /\ WF_vars(Resume) /\ WF_vars(DestroyCallback) /\ WF_vars(Ticks)
  /\ WF_vars(ReadChunk) /\ WF_vars(ReadEnd)
  /\ WF_vars(StreamFinished \/ \E error \in BOOLEAN : StreamReset(error))

FairSpec == Spec /\ Fairness

------------------------------------------------------------------------------
(* Properties.                                                              *)

\* Every variable has its type.
TypeOK == Now \in StateType

\* Once the request or its response is destroyed no stream stays open for them,
\* whether it arrived before, in between or afterwards (client-request.js:286).
NoOrphanStream ==
  request.destroyed \/ (response # None /\ response.destroyed) => stream.phase # "open"

\* The three places that emit `close' (the request without a stream, the stream's
\* handler, the response's end) never both do, except for a tunnel, which is
\* closed when it is handed over and again when it breaks.
ClosedOnce ==
  /\ request.closes <= IF request.method = "CONNECT" THEN 2 ELSE 1
  /\ response # None => response.closes <= 1

\* A request says `close' after its response did, and by then the reader can tell
\* whether the response is whole: it is complete, or it is marked aborted.
TruthfulClose ==
  request.method # "CONNECT" /\ request.closes > 0 /\ response # None =>
    response.closes = 1 /\ (response.complete \/ response.aborted)

\* The calls made on the request before and after its stream arrives reach it
\* once, all, and in the order they were made.
CallsInOrder ==
  /\ stream.phase = "none" => request.jobs = request.issued
  /\ stream.attached => stream.calls = request.issued

\* Backpressure is lifted in time: while a stream is paused its response, unless it
\* is destroyed, has something to read, and reading resumes the stream.
NoStall ==
  response # None /\ ~response.destroyed /\ stream.paused => response.buffered > 0

\* `close' waits for an `end' that cannot come any more: the response was
\* destroyed, or the stream closed without an `end' of its own.
Stranded ==
  response # None /\ response.waited /\ ~response.complete /\ (response.destroyed \/ ~response.eof)

\* A request that was sent or destroyed emits `close' in the end, unless it is
\* stranded: its stream is closed, so nothing else can make it.
RequestCloses == request.flushed \/ request.destroyed ~> request.closes > 0 \/ Stranded

\* A failure of the agent reaches the user as `error', although _destroy() may be
\* waiting for it, unless the request was destroyed for no reason meanwhile.
RejectionReported ==
  request.promise = "rejected" /\ ~request.resumed ~>
    request.errored \/ (request.destroyed /\ ~request.error /\ ~request.aborted)

\* "`aborted` is not emitted on completed response" (test/response.js:120): refuted.
CompletedNotAborted ==
  [][response # None /\ response'.complete => response'.abortedEvents = response.abortedEvents]_vars
=============================================================================
