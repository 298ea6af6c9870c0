----------------------------- MODULE ProxyTunnel -----------------------------
(***************************************************************************)
(* Connections through a proxy: the agents of source/proxies, which ask    *)
(* for a tunnel with CONNECT, and the proxy of proxy-server.js, which      *)
(* connects to the target and pipes.                                       *)
(*                                                                         *)
(* A tunnel is a chain: the client's end of a stream (`near'), the proxy's *)
(* end of it (`far'), the proxy's socket to the target (`socket').  Each   *)
(* part closes for reasons of its own and takes its neighbours along by    *)
(* its events, one after the other.                                        *)
(***************************************************************************)
EXTENDS Integers, Sequences, SequencesExt

CONSTANTS Attempts, Kinds

\* "h1" speaks HTTP/1.1 to the proxy (h2-over-h1.js), "h2" HTTP/2 (h2-over-h2.js,
\* h1-over-h2.js).
ASSUME KindsAssumption == Kinds \subseteq {"h1", "h2"}

VARIABLES
  kind,      \* of each attempt
  client,    \* what came of it: "idle", "requesting", "asking", "connected", "failed"
  near,      \* the client's end: "none", "open", "closed" or, with an error, "failed"
  far,       \* the proxy's end, likewise
  reply,     \* what the proxy sent: "none", "established", "refused", "read"
  socket,    \* "none", "connecting", "open", "closing" (destroyed), "closed"
  proxied    \* server.proxied

vars == <<kind, client, near, far, reply, socket, proxied>>

------------------------------------------------------------------------------
(* The client.                                                              *)

\* createConnection() up to its first await.
Start(a) ==
  /\ client[a] = "idle"
  /\ client' = [client EXCEPT ![a] = "requesting"]
  /\ UNCHANGED <<kind, near, far, reply, socket, proxied>>

\* globalAgent.request() or http.request() ...
Ask(a) ==
  /\ client[a] = "requesting"
  /\ client' = [client EXCEPT ![a] = "asking"]
  /\ near' = [near EXCEPT ![a] = "open"] /\ far' = [far EXCEPT ![a] = "open"]
  /\ UNCHANGED <<kind, reply, socket, proxied>>

\* ... or its failure.
AskFails(a) ==
  /\ client[a] = "requesting"
  /\ client' = [client EXCEPT ![a] = "failed"]
  /\ UNCHANGED <<kind, near, far, reply, socket, proxied>>

ReadReply_Mutant(a) ==
  /\ client[a] = "asking" /\ near[a] = "open" /\ reply[a] \in {"established", "refused"}
  /\ client' = [client EXCEPT ![a] = "connected"]
  /\ reply' = [reply EXCEPT ![a] = "read"]
  /\ UNCHANGED <<kind, near, far, socket, proxied>>

\* A status other than 200 is an error; the stream it came on is left as it is.
ReadReply(a) ==
  /\ client[a] = "asking" /\ near[a] = "open" /\ reply[a] \in {"established", "refused"}
  /\ client' = [client EXCEPT ![a] = IF reply[a] = "established" THEN "connected" ELSE "failed"]
  /\ reply' = [reply EXCEPT ![a] = "read"]
  /\ UNCHANGED <<kind, near, far, socket, proxied>>

Shut_Mutant(a, error) ==
  /\ near' = [near EXCEPT ![a] = IF error THEN "failed" ELSE "closed"]
  /\ client' = [client EXCEPT ![a] = IF @ = "asking" /\ kind[a] = "h1" THEN "failed" ELSE @]

\* The client's end closes, or fails: that is what it emits `error' for.  Nobody else
\* settles getStream() and getStatusCode() before the reply, except that an HTTP/1.1
\* request without a response is an error too.
Shut(a, error) ==
  /\ near' = [near EXCEPT ![a] = IF error THEN "failed" ELSE "closed"]
  /\ client' = [client EXCEPT ![a] =
       IF @ = "asking" /\ (kind[a] = "h1" \/ error) THEN "failed" ELSE @]

\* What the proxy sent before it closed arrives first.
NearCloses(a) ==
  /\ near[a] = "open" /\ far[a] \in {"closed", "failed"} /\ reply[a] \in {"none", "read"}
  /\ Shut(a, far[a] = "failed")
  /\ UNCHANGED <<kind, far, reply, socket, proxied>>

\* The user of the connection closes it: `close' of the secure stream destroys the
\* stream.
CloseNear(a) ==
  /\ near[a] = "open" /\ client[a] = "connected"
  /\ near' = [near EXCEPT ![a] = "closed"]
  /\ UNCHANGED <<kind, client, far, reply, socket, proxied>>

\* The connection to the proxy is lost, with an error or without.
LoseNear(a, error) ==
  near[a] = "open" /\ Shut(a, error) /\ UNCHANGED <<kind, far, reply, socket, proxied>>

------------------------------------------------------------------------------
(* The proxy.                                                               *)

Unanswered(a) == far[a] = "open" /\ reply[a] = "none" /\ socket[a] = "none"

\* sendStatus(): 403, 400 or 500.
Refuse(a) ==
  /\ Unanswered(a)
  /\ reply' = [reply EXCEPT ![a] = "refused"]
  /\ UNCHANGED <<kind, client, near, far, socket, proxied>>

Dial(a) ==
  /\ Unanswered(a)
  /\ socket' = [socket EXCEPT ![a] = "connecting"]
  /\ proxied' = Append(proxied, a)
  /\ UNCHANGED <<kind, client, near, far, reply>>

\* network.connect() calls back: the response, and two pipes.
Established(a) ==
  /\ socket[a] = "connecting"
  /\ socket' = [socket EXCEPT ![a] = "open"]
  /\ reply' = [reply EXCEPT ![a] = "established"]
  /\ UNCHANGED <<kind, client, near, far, proxied>>

\* `error' of the socket: source.close(NGHTTP2_CONNECT_ERROR), or source.destroy().
SocketFails(a) ==
  /\ socket[a] \in {"connecting", "open"}
  /\ socket' = [socket EXCEPT ![a] = "closing"]
  /\ far' = [far EXCEPT ![a] =
       IF @ = "open" THEN (IF kind[a] = "h1" THEN "closed" ELSE "failed") ELSE @]
  /\ UNCHANGED <<kind, client, near, reply, proxied>>

\* The target ends the connection, or somebody destroys a socket of server.proxied.
SocketEnds(a) ==
  /\ socket[a] \in {"connecting", "open"}
  /\ socket' = [socket EXCEPT ![a] = "closing"]
  /\ UNCHANGED <<kind, client, near, far, reply, proxied>>

\* server.proxied.indexOf(socket)
IndexOf(a) == CHOOSE i \in 1..Len(proxied) : proxied[i] = a

SocketClosed_Mutant(a) ==
  /\ socket[a] = "closing"
  /\ socket' = [socket EXCEPT ![a] = "closed"]
  /\ proxied' = Tail(proxied)
  /\ far' = [far EXCEPT ![a] = IF @ = "open" THEN "closed" ELSE @]
  /\ UNCHANGED <<kind, client, near, reply>>

SocketClosed_Mutant2(a) ==
  /\ socket[a] = "closing"
  /\ socket' = [socket EXCEPT ![a] = "closed"]
  /\ proxied' = [i \in DOMAIN proxied |-> IF proxied[i] = a THEN "hole" ELSE proxied[i]]
  /\ far' = [far EXCEPT ![a] = IF @ = "open" THEN "closed" ELSE @]
  /\ UNCHANGED <<kind, client, near, reply>>

SocketClosed_Mutant3(a) ==
  /\ socket[a] = "closing"
  /\ socket' = [socket EXCEPT ![a] = "closed"]
  /\ proxied' = RemoveAt(proxied, IndexOf(a))
  /\ UNCHANGED <<kind, client, near, far, reply>>

\* `close' of the socket: out of the list, and source.destroy().
SocketClosed(a) ==
  /\ socket[a] = "closing"
  /\ socket' = [socket EXCEPT ![a] = "closed"]
  /\ proxied' = RemoveAt(proxied, IndexOf(a))
  /\ far' = [far EXCEPT ![a] = IF @ = "open" THEN "closed" ELSE @]
  /\ UNCHANGED <<kind, client, near, reply>>

CloseFar_Mutant(a, error) ==
  /\ far[a] = "open"
  /\ far' = [far EXCEPT ![a] = IF error THEN "failed" ELSE "closed"]
  /\ socket' = [socket EXCEPT ![a] = IF @ = "open" THEN "closing" ELSE @]
  /\ UNCHANGED <<kind, client, near, reply, proxied>>

\* `error' or `close' of the source destroys the socket.
CloseFar(a, error) ==
  /\ far[a] = "open"
  /\ far' = [far EXCEPT ![a] = IF error THEN "failed" ELSE "closed"]
  /\ socket' = [socket EXCEPT ![a] = IF @ \in {"connecting", "open"} THEN "closing" ELSE @]
  /\ UNCHANGED <<kind, client, near, reply, proxied>>

\* The client's end closed, and the proxy's follows.
FarCloses(a) == near[a] \in {"closed", "failed"} /\ CloseFar(a, FALSE)

\* The proxy loses its connection to the client, with an error or without.
LoseFar(a, error) == CloseFar(a, error)

------------------------------------------------------------------------------
Init ==
  /\ kind \in [Attempts -> Kinds]
  /\ client = [a \in Attempts |-> "idle"]
  /\ near = [a \in Attempts |-> "none"] /\ far = [a \in Attempts |-> "none"]
  /\ reply = [a \in Attempts |-> "none"] /\ socket = [a \in Attempts |-> "none"]
  /\ proxied = <<>>

Next == \E a \in Attempts :
  \/ Start(a) \/ Ask(a) \/ AskFails(a) \/ ReadReply(a) \/ NearCloses(a) \/ CloseNear(a)
  \/ \E error \in BOOLEAN : LoseNear(a, error)
  \/ Refuse(a) \/ Dial(a) \/ Established(a) \/ SocketFails(a) \/ SocketEnds(a)
  \/ SocketClosed(a) \/ FarCloses(a)
  \/ \E error \in BOOLEAN : LoseFar(a, error)

Spec == Init /\ [][Next]_vars

\* Connections are made or fail, a proxy answers, and what was sent or closed is
\* noticed at the other end.  Nobody has to close a connection that works.
Fairness == \A a \in Attempts :
  /\ WF_vars(Ask(a) \/ AskFails(a)) /\ WF_vars(ReadReply(a)) /\ WF_vars(NearCloses(a))
  /\ WF_vars(Refuse(a) \/ Dial(a))
  /\ WF_vars(socket[a] = "connecting" /\ (Established(a) \/ SocketFails(a)))
  /\ WF_vars(SocketClosed(a)) /\ WF_vars(FarCloses(a))

FairSpec == Spec /\ Fairness

------------------------------------------------------------------------------
(* Properties.                                                              *)

\* Every variable has its type.
TypeOK ==
  /\ kind \in [Attempts -> Kinds]
  /\ client \in [Attempts -> {"idle", "requesting", "asking", "connected", "failed"}]
  /\ near \in [Attempts -> {"none", "open", "closed", "failed"}]
  /\ far \in [Attempts -> {"none", "open", "closed", "failed"}]
  /\ reply \in [Attempts -> {"none", "established", "refused", "read"}]
  /\ socket \in [Attempts -> {"none", "connecting", "open", "closing", "closed"}]
  /\ proxied \in Seq(Attempts)

\* server.proxied lists the sockets that have not emitted `close', each once, in
\* whatever order they close (proxy-server.js:117).
ProxiedExact ==
  /\ ToSet(proxied) = {a \in Attempts : socket[a] \in {"connecting", "open", "closing"}}
  /\ \A i, j \in 1..Len(proxied) : proxied[i] = proxied[j] => i = j

\* A client takes a stream for a connection to the target only after the proxy
\* had one, whatever else happened to the three parts meanwhile.
NoFalseTunnel ==
  \A a \in Attempts : client[a] = "connected" => socket[a] \in {"open", "closing", "closed"}

\* The proxy keeps no socket to a target for a stream that is gone.
NoStraySocket ==
  \A a \in Attempts : socket[a] \in {"connecting", "open"} => far[a] = "open"

\* Whichever part of a tunnel closes first, all of them do.
EndsTogether == \A a \in Attempts :
  /\ near[a] \in {"closed", "failed"} ~> far[a] # "open" /\ socket[a] \in {"none", "closed"}
  /\ socket[a] = "closed" ~> near[a] \in {"closed", "failed"}

\* getStatusCode() listens for `response' and `error' (h2-over-h2.js:6): a stream that
\* closes without either leaves it waiting.
Unheard(a) == client[a] = "asking" /\ kind[a] = "h2" /\ near[a] = "closed"

\* An attempt to connect through the proxy ends, unless it is left unheard.
AttemptsEnd == \A a \in Attempts :
  client[a] = "requesting" ~> client[a] \in {"connected", "failed"} \/ Unheard(a)
=============================================================================
