-------------------------- MODULE ProxyTunnelProofs --------------------------
(* Proofs about ProxyTunnel, for any number of connections through the proxy. *)
EXTENDS ProxyTunnel, ListLemmas

\* A reply that says "established" was written by a socket that connected.
RepliesTrue ==
  \A a \in Attempts : reply[a] = "established" => socket[a] \in {"open", "closing", "closed"}

IInv == TypeOK /\ ProxiedExact /\ NoStraySocket /\ NoFalseTunnel /\ RepliesTrue

\* The steps that leave the list alone and every socket on its side of it.
KeepsListed ==
  /\ proxied' = proxied
  /\ \A a \in Attempts : socket'[a] \in {"connecting", "open", "closing"}
                           <=> socket[a] \in {"connecting", "open", "closing"}
------------------------------------------------------------------------------
\* Nothing is proxied at first.
LEMMA InitIInv == Init => IInv
<1> SUFFICES ASSUME Init PROVE IInv
  OBVIOUS
<1>1. TypeOK
  BY DEF Init, TypeOK
<1>2. ProxiedExact
  BY DEF Init, ProxiedExact, ToSet
<1>3. NoStraySocket /\ NoFalseTunnel /\ RepliesTrue
  BY DEF Init, NoStraySocket, NoFalseTunnel, RepliesTrue
<1> QED
  BY <1>1, <1>2, <1>3 DEF IInv

\* The list stays exact when it and what it lists do not change.
LEMMA ListKept == ASSUME ProxiedExact, KeepsListed PROVE ProxiedExact'
<1>1. ToSet(proxied') = ToSet(proxied)
  BY DEF KeepsListed
<1>2. {a \in Attempts : socket'[a] \in {"connecting", "open", "closing"}}
        = {a \in Attempts : socket[a] \in {"connecting", "open", "closing"}}
  BY DEF KeepsListed
<1> QED
  BY <1>1, <1>2 DEF ProxiedExact, KeepsListed

\* server.proxied.push(socket), of a socket that is new.
LEMMA DialKeepsList ==
  ASSUME IInv, NEW a \in Attempts, Dial(a)
  PROVE  ProxiedExact' /\ proxied' \in Seq(Attempts)
<1> USE DEF IInv, TypeOK, Dial, Unanswered
<1>1. /\ proxied' \in Seq(Attempts) /\ Len(proxied') = Len(proxied) + 1
      /\ \A i \in 1..Len(proxied) : proxied'[i] = proxied[i]
      /\ proxied'[Len(proxied) + 1] = a
  BY AppendProperties
<1>2. Len(proxied) \in Nat /\ DOMAIN proxied = 1..Len(proxied)
      /\ DOMAIN proxied' = 1..(Len(proxied) + 1)
  BY <1>1, LenProperties
<1>3. \A i \in 1..Len(proxied) : proxied[i] # a
  BY <1>2 DEF ProxiedExact, ToSet
<1>4. ToSet(proxied') = ToSet(proxied) \cup {a}
  <2>1. ASSUME NEW x \in ToSet(proxied') PROVE x \in ToSet(proxied) \cup {a}
    BY <1>1, <1>2, <2>1 DEF ToSet
  <2>2. ASSUME NEW x \in ToSet(proxied) \cup {a} PROVE x \in ToSet(proxied')
    BY <1>1, <1>2, <2>2 DEF ToSet
  <2> QED
    BY <2>1, <2>2
<1>5. {x \in Attempts : socket'[x] \in {"connecting", "open", "closing"}}
        = {x \in Attempts : socket[x] \in {"connecting", "open", "closing"}} \cup {a}
  OBVIOUS
<1>6. \A i, j \in 1..Len(proxied') : proxied'[i] = proxied'[j] => i = j
  BY <1>1, <1>2, <1>3 DEF ProxiedExact
<1> QED
  BY <1>1, <1>4, <1>5, <1>6 DEF ProxiedExact

\* server.proxied.splice(indexOf(socket), 1), wherever the socket is in the list.
LEMMA CloseKeepsList ==
  ASSUME IInv, NEW a \in Attempts, SocketClosed(a)
  PROVE  ProxiedExact' /\ proxied' \in Seq(Attempts)
<1> DEFINE k == IndexOf(a)
<1> USE DEF IInv, TypeOK, SocketClosed
<1>1. Len(proxied) \in Nat /\ DOMAIN proxied = 1..Len(proxied)
  BY LenProperties
<1>2. k \in 1..Len(proxied) /\ proxied[k] = a
  <2>1. \E i \in 1..Len(proxied) : proxied[i] = a
    BY <1>1 DEF ProxiedExact, ToSet
  <2> QED
    BY <2>1 DEF IndexOf
<1> HIDE DEF k
<1>3. /\ proxied' \in Seq(Attempts) /\ Len(proxied') = Len(proxied) - 1
      /\ \A i \in 1..(k - 1) : proxied'[i] = proxied[i]
      /\ \A i \in k..(Len(proxied) - 1) : proxied'[i] = proxied[i + 1]
  <2>1. proxied' = RemoveAt(proxied, k)
    BY DEF k
  <2>2. proxied \in Seq(Attempts)
    OBVIOUS
  <2> HIDE DEF IInv, TypeOK, SocketClosed
  <2>3. /\ RemoveAt(proxied, k) \in Seq(Attempts)
        /\ Len(RemoveAt(proxied, k)) = Len(proxied) - 1
        /\ \A i \in 1..(k - 1) : RemoveAt(proxied, k)[i] = proxied[i]
        /\ \A i \in k..(Len(proxied) - 1) : RemoveAt(proxied, k)[i] = proxied[i + 1]
    BY <1>2, <2>2, RemoveAtElements
  <2> QED
    BY <2>1, <2>3
<1>4. DOMAIN proxied' = 1..(Len(proxied) - 1)
  BY <1>3, LenProperties
<1>5. ToSet(proxied') = ToSet(proxied) \ {a}
  <2>1. ASSUME NEW i \in 1..(Len(proxied) - 1) PROVE proxied'[i] \in ToSet(proxied) \ {a}
    <3>1. CASE i < k
      <4>1. proxied'[i] = proxied[i] /\ i \in 1..Len(proxied) /\ i # k
        BY <1>1, <1>2, <1>3, <3>1
      <4> QED
        BY <1>1, <1>2, <4>1 DEF ToSet, ProxiedExact
    <3>2. CASE i >= k
      <4>1. proxied'[i] = proxied[i + 1] /\ i + 1 \in 1..Len(proxied) /\ i + 1 # k
        BY <1>1, <1>2, <1>3, <3>2
      <4> QED
        BY <1>1, <1>2, <4>1 DEF ToSet, ProxiedExact
    <3> QED
      BY <1>1, <1>2, <3>1, <3>2
  <2>2. ASSUME NEW i \in 1..Len(proxied), proxied[i] # a PROVE proxied[i] \in ToSet(proxied')
    <3>1. CASE i < k
      BY <1>1, <1>2, <1>3, <1>4, <3>1, SMTT(30) DEF ToSet
    <3>2. CASE i > k
      <4>1. proxied'[i - 1] = proxied[i] /\ i - 1 \in 1..(Len(proxied) - 1)
        <5>1. i - 1 \in k..(Len(proxied) - 1) /\ (i - 1) + 1 = i
          BY <1>1, <1>2, <3>2
        <5> QED
          BY <1>1, <1>2, <1>3, <5>1
      <4> QED
        BY <1>4, <4>1 DEF ToSet
    <3> QED
      BY <1>1, <1>2, <2>2, <3>1, <3>2
  <2> QED
    BY <1>1, <1>4, <2>1, <2>2 DEF ToSet
<1>6. {x \in Attempts : socket'[x] \in {"connecting", "open", "closing"}}
        = {x \in Attempts : socket[x] \in {"connecting", "open", "closing"}} \ {a}
  OBVIOUS
<1>7. ASSUME NEW i \in 1..Len(proxied'), NEW j \in 1..Len(proxied'), proxied'[i] = proxied'[j]
      PROVE  i = j
  <2> DEFINE old(n) == IF n < k THEN n ELSE n + 1
  <2>1. \A n \in 1..Len(proxied') : old(n) \in 1..Len(proxied) /\ proxied'[n] = proxied[old(n)]
    BY <1>1, <1>2, <1>3
  <2>2. old(i) = old(j)
    BY <1>7, <2>1 DEF ProxiedExact
  <2> QED
    BY <1>1, <1>2, <1>3, <2>2
<1> QED
  BY <1>3, <1>5, <1>6, <1>7 DEF ProxiedExact
------------------------------------------------------------------------------
\* Every step keeps the invariant.
LEMMA NextIInv == IInv /\ [Next]_vars => IInv'
<1> SUFFICES ASSUME IInv, [Next]_vars PROVE IInv'
  OBVIOUS
<1> USE DEF IInv
<1>1. CASE UNCHANGED vars
  BY <1>1, ListKept DEF vars, TypeOK, KeepsListed, NoStraySocket, NoFalseTunnel, RepliesTrue
<1>2. ASSUME NEW a \in Attempts, Dial(a) PROVE IInv'
  <2>1. ProxiedExact' /\ proxied' \in Seq(Attempts)
    BY <1>2, DialKeepsList
  <2>2. TypeOK'
    BY <1>2, <2>1 DEF Dial, TypeOK
  <2>3. NoStraySocket' /\ NoFalseTunnel' /\ RepliesTrue'
    BY <1>2 DEF Dial, Unanswered, TypeOK, NoStraySocket, NoFalseTunnel, RepliesTrue
  <2> QED
    BY <2>1, <2>2, <2>3
<1>3. ASSUME NEW a \in Attempts, SocketClosed(a) PROVE IInv'
  <2>1. ProxiedExact' /\ proxied' \in Seq(Attempts)
    BY <1>3, CloseKeepsList
  <2>2. TypeOK'
    BY <1>3, <2>1 DEF SocketClosed, TypeOK
  <2>3. NoStraySocket' /\ NoFalseTunnel' /\ RepliesTrue'
    BY <1>3 DEF SocketClosed, TypeOK, NoStraySocket, NoFalseTunnel, RepliesTrue
  <2> QED
    BY <2>1, <2>2, <2>3
<1>4. ASSUME NEW a \in Attempts, Start(a) \/ Ask(a) \/ AskFails(a) PROVE IInv'
  BY <1>4, ListKept, SMTT(30) DEF Start, Ask, AskFails, TypeOK, KeepsListed, NoStraySocket,
     NoFalseTunnel, RepliesTrue
<1>5. ASSUME NEW a \in Attempts, ReadReply(a) PROVE IInv'
  BY <1>5, ListKept DEF ReadReply, TypeOK, KeepsListed, NoStraySocket, NoFalseTunnel, RepliesTrue
<1>6. ASSUME NEW a \in Attempts,
             NearCloses(a) \/ CloseNear(a) \/ \E error \in BOOLEAN : LoseNear(a, error)
      PROVE  IInv'
  BY <1>6, ListKept DEF NearCloses, CloseNear, LoseNear, Shut, TypeOK, KeepsListed, NoStraySocket,
     NoFalseTunnel, RepliesTrue
<1>7. ASSUME NEW a \in Attempts, Refuse(a) PROVE IInv'
  BY <1>7, ListKept DEF Refuse, TypeOK, KeepsListed, NoStraySocket, NoFalseTunnel, RepliesTrue
<1>8. ASSUME NEW a \in Attempts, Established(a) PROVE IInv'
  BY <1>8, ListKept DEF Established, TypeOK, KeepsListed, NoStraySocket, NoFalseTunnel, RepliesTrue
<1>9. ASSUME NEW a \in Attempts, SocketFails(a) \/ SocketEnds(a) PROVE IInv'
  BY <1>9, ListKept DEF SocketFails, SocketEnds, TypeOK, KeepsListed, NoStraySocket,
     NoFalseTunnel, RepliesTrue
<1>10. ASSUME NEW a \in Attempts, NEW error \in BOOLEAN, CloseFar(a, error) PROVE IInv'
  BY <1>10, ListKept DEF CloseFar, TypeOK, KeepsListed, NoStraySocket, NoFalseTunnel, RepliesTrue
<1>11. ASSUME NEW a \in Attempts, FarCloses(a) \/ \E error \in BOOLEAN : LoseFar(a, error)
       PROVE  IInv'
  BY <1>10, <1>11 DEF FarCloses, LoseFar
<1> QED
  BY <1>1, <1>2, <1>3, <1>4, <1>5, <1>6, <1>7, <1>8, <1>9, <1>11 DEF Next

THEOREM Invariance == Spec => []IInv
<1> QED
  BY InitIInv, NextIInv, PTL DEF Spec

\* The proxy's state has its types in every behaviour.
THEOREM TypeCorrect == Spec => []TypeOK
<1>1. IInv => TypeOK
  BY DEF IInv
<1> QED
  BY <1>1, Invariance, PTL

\* server.proxied lists every socket from connect() to its `close' once, in
\* whatever order the sockets close (proxy-server.js:105, 117).
THEOREM ListExact == Spec => []ProxiedExact
<1>1. IInv => ProxiedExact
  BY DEF IInv
<1> QED
  BY <1>1, Invariance, PTL

\* A client that has a tunnel has one to a target (proxy-server.js:93, 98).
THEOREM TunnelsReal == Spec => []NoFalseTunnel
<1>1. IInv => NoFalseTunnel
  BY DEF IInv
<1> QED
  BY <1>1, Invariance, PTL

\* The proxy keeps no socket for a stream that is gone (proxy-server.js:122-128).
THEOREM SocketsHaveStreams == Spec => []NoStraySocket
<1>1. IInv => NoStraySocket
  BY DEF IInv
<1> QED
  BY <1>1, Invariance, PTL
=============================================================================
