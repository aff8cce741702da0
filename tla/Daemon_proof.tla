---------------------------- MODULE Daemon_proof ----------------------------
(***************************************************************************)
(* Proofs about Daemon, for any number of daemons and commands, any listen  *)
(* queue and any faults: that a command's links never overlap and its exit   *)
(* code tells how the last one ended (the refinement of LinkService), and    *)
(* that the socket path leads to the daemon that serves.                     *)
(***************************************************************************)
EXTENDS Daemon, TLAPS

Ends == {"ok", "error", "panic", "signal"}

DaemonStates == {"off", "probe", "remove", "bind", "accept", "read", "wait", "inproc", "respond",
                 "refused", "failed", "killed"}
Link == [for : Clients \cup {None}, forked : BOOLEAN, left : Nat, pipe : Nat, end : Ends \cup {None}]

Types ==
    /\ sock \in Daemons \cup {None}
    /\ dpc \in [Daemons -> DaemonStates]
    /\ backlog \in [Daemons -> Seq(Daemons \cup Clients)]
    /\ cur \in [Daemons -> Daemons \cup Clients \cup {None}]
    /\ link \in [Daemons -> Link]
    /\ cpc \in [Clients -> {"start", "connected", "sent", "direct", "linking", "ended", "done"}]
    /\ con \in [Clients -> Daemons \cup {None}]
    /\ DOMAIN reply = Clients
    /\ exit \in [Clients -> Int]
    /\ last \in [Clients -> Outcome]

\* A connection is in one place: in the queue of the daemon it was made to or
\* served by that daemon, until it is answered.
Queued(d, c, i) == i \in DOMAIN backlog[d] /\ backlog[d][i] = c
Unanswered(d, c) == con[c] = d /\ cpc[c] # "start" /\ reply[c] = None

ConnectionsInv ==
    /\ \A d \in Daemons, c \in Clients : \A i :
        Queued(d, c, i) => /\ Unanswered(d, c) /\ cur[d] # c
                           /\ \A j : Queued(d, c, j) => i = j
    /\ \A d \in Daemons, c \in Clients : cur[d] = c => Unanswered(d, c)

\* A link belongs to the connection that is served.  Its client waits for it as
\* long as somebody may answer: the daemon, or the link, whose copy of the
\* connection keeps it open when the daemon is gone.
LinkInv(d) ==
    LET c == link[d].for IN
    /\ dpc[d] \in {"wait", "inproc", "respond"} => c # None
    /\ c # None => /\ dpc[d] \in {"wait", "inproc", "respond", "killed"}
                   /\ cur[d] = c
                   /\ Alive(d) \/ link[d].end = None => cpc[c] = "sent"
                   /\ Alive(d) /\ link[d].end # None => last[c] = link[d].end
                   /\ link[d].end = None /\ ~link[d].forked => Alive(d)
    /\ dpc[d] = "respond" => link[d].end # None

AnswerInv(c) ==
    /\ cpc[c] \in {"start", "connected"} => reply[c] = None
    /\ reply[c] # None /\ cpc[c] = "sent" => last[c] \in Ends /\ reply[c].code = exit_code(last[c])
    /\ cpc[c] = "ended" => last[c] \in Ends /\ ("crash" \notin Faults => last[c] # "signal")

IInv == /\ Types /\ ConnectionsInv
        /\ \A d \in Daemons : LinkInv(d)
        /\ \A c \in Clients : AnswerInv(c)

\* As long as no daemon was killed, the path leads to the daemon that serves,
\* and no daemon finds a stale file.
OwnerInv ==
    (\A e \in Daemons : dpc[e] # "killed") =>
        /\ sock # None => Bound(sock)
        /\ \A d \in Daemons : /\ Bound(d) => sock = d
                              /\ dpc[d] # "remove"
                              /\ dpc[d] = "probe" => sock # None

-----------------------------------------------------------------------------
(* Queues.                                                                  *)

LEMMA Appended ==
    ASSUME Types, NEW d \in Daemons, NEW x \in Daemons \cup Clients,
           backlog' = [backlog EXCEPT ![d] = Append(@, x)]
    PROVE  /\ backlog' \in [Daemons -> Seq(Daemons \cup Clients)]
           /\ \A e \in Daemons : \A c, i : Queued(e, c, i)' =>
                Queued(e, c, i) \/ (e = d /\ c = x /\ i = Len(backlog[d]) + 1)
           /\ (\A i : ~Queued(d, x, i)) => \A j, k : Queued(d, x, j)' /\ Queued(d, x, k)' => j = k
<1> DEFINE q == backlog[d]
<1>1. q \in Seq(Daemons \cup Clients) BY DEF Types
<1>2. Append(q, x) \in Seq(Daemons \cup Clients) BY <1>1
<1>3. backlog'[d] = Append(q, x) /\ \A e \in Daemons : e # d => backlog'[e] = backlog[e] BY DEF Types
<1>4. backlog' \in [Daemons -> Seq(Daemons \cup Clients)] BY <1>2 DEF Types
<1>5. \A i \in DOMAIN Append(q, x) : i = Len(q) + 1 \/ (i \in DOMAIN q /\ Append(q, x)[i] = q[i]) BY <1>1
<1>6. Append(q, x)[Len(q) + 1] = x BY <1>1
<1> HIDE DEF q
<1>7. \A e \in Daemons : \A c, i : Queued(e, c, i)' =>
                Queued(e, c, i) \/ (e = d /\ c = x /\ i = Len(q) + 1)
  BY <1>3, <1>5, <1>6 DEF Queued, q
<1> QED BY <1>4, <1>7 DEF q

LEMMA Taken ==
    ASSUME Types, NEW d \in Daemons, backlog[d] # <<>>,
           backlog' = [backlog EXCEPT ![d] = Tail(@)]
    PROVE  /\ backlog' \in [Daemons -> Seq(Daemons \cup Clients)]
           /\ Head(backlog[d]) \in Daemons \cup Clients
           /\ \A c : Head(backlog[d]) = c => Queued(d, c, 1)
           /\ \A e \in Daemons : \A c, i : Queued(e, c, i)' =>
                IF e = d THEN i \in Nat /\ i # 0 /\ Queued(d, c, i + 1) ELSE Queued(e, c, i)
<1> DEFINE q == backlog[d]
<1>1. q \in Seq(Daemons \cup Clients) /\ q # <<>> BY DEF Types
<1>2. /\ Tail(q) \in Seq(Daemons \cup Clients) /\ Head(q) = q[1] /\ 1 \in DOMAIN q
      /\ \A i \in DOMAIN Tail(q) : i \in Nat /\ i # 0 /\ i + 1 \in DOMAIN q /\ Tail(q)[i] = q[i + 1]
  BY <1>1
<1>3. backlog'[d] = Tail(q) /\ \A e \in Daemons : e # d => backlog'[e] = backlog[e] BY DEF Types
<1>4. backlog' \in [Daemons -> Seq(Daemons \cup Clients)] BY <1>2 DEF Types
<1>5. q[1] \in Daemons \cup Clients BY <1>1, <1>2
<1> HIDE DEF q
<1>6. \A e \in Daemons : \A c, i : Queued(e, c, i)' =>
                IF e = d THEN i \in Nat /\ i # 0 /\ Queued(d, c, i + 1) ELSE Queued(e, c, i)
  BY <1>2, <1>3 DEF Queued, q
<1>7. \A c : Head(q) = c => Queued(d, c, 1) BY <1>2 DEF Queued, q
<1> QED BY <1>2, <1>4, <1>5, <1>6, <1>7 DEF q

-----------------------------------------------------------------------------

LEMMA InitInv == Init => IInv
<1> SUFFICES ASSUME Init PROVE IInv OBVIOUS
<1>1. Types
  BY DaemonAssumption DEF Init, Types, NoLink, Outcome, Link, DaemonStates
<1>2. ConnectionsInv BY DaemonAssumption DEF Init, ConnectionsInv, Queued
<1>3. \A d \in Daemons : LinkInv(d) BY DEF Init, LinkInv, NoLink
<1>4. \A c \in Clients : AnswerInv(c) BY DEF Init, AnswerInv
<1> QED BY <1>1, <1>2, <1>3, <1>4 DEF IInv


\* Steps on the socket path, by daemons that have no connection yet.
LEMMA PathStep ==
    ASSUME IInv, NEW d \in Daemons, Exists(d) \/ Probe(d) \/ RemoveStale(d) \/ Bind(d)
    PROVE  IInv'
<1>0. UNCHANGED <<cur, link, clientVars>> /\ dpc[d] \in {"off", "probe", "remove", "bind"}
  BY DEF Exists, Probe, RemoveStale, Bind
<1>1. PICK p \in {"bind", "probe", "refused", "remove", "accept", "failed"} : dpc' = [dpc EXCEPT ![d] = p]
  BY DEF Exists, Probe, RemoveStale, Bind
<1>2. /\ sock' \in Daemons \cup {None}
      /\ \/ backlog' = backlog
         \/ \E e \in Daemons : backlog' = [backlog EXCEPT ![e] = Append(@, d)]
  BY DaemonAssumption DEF Exists, Probe, RemoveStale, Bind, IInv, Types, CanConnect
<1>3. /\ backlog' \in [Daemons -> Seq(Daemons \cup Clients)]
      /\ \A e \in Daemons, c \in Clients : \A i : Queued(e, c, i)' => Queued(e, c, i)
  <2>1. CASE backlog' = backlog BY <2>1 DEF IInv, Types, Queued
  <2>2. CASE \E e \in Daemons : backlog' = [backlog EXCEPT ![e] = Append(@, d)]
    <3>1. PICK e \in Daemons : backlog' = [backlog EXCEPT ![e] = Append(@, d)] BY <2>2
    <3>2. Types /\ d \in Daemons \cup Clients /\ d \notin Clients BY DaemonAssumption DEF IInv
    <3>3. /\ backlog' \in [Daemons -> Seq(Daemons \cup Clients)]
          /\ \A f \in Daemons : \A c, i : Queued(f, c, i)' =>
                Queued(f, c, i) \/ (f = e /\ c = d /\ i = Len(backlog[e]) + 1)
      BY <3>1, <3>2, Appended
    <3> QED BY <3>2, <3>3
  <2> QED BY <1>2, <2>1, <2>2
<1>4. Types' BY <1>0, <1>1, <1>2, <1>3 DEF IInv, Types, DaemonStates, clientVars
<1>5. ConnectionsInv' BY <1>0, <1>3 DEF IInv, ConnectionsInv, Unanswered, clientVars
<1>6. ASSUME NEW e \in Daemons PROVE LinkInv(e)'
  <2>1. LinkInv(e) BY DEF IInv
  <2>2. CASE e = d
    <3>1. link[d].for = None BY <1>0, <2>1, <2>2 DEF LinkInv
    <3>2. dpc'[d] = p BY <1>1 DEF IInv, Types
    <3> QED BY <1>0, <2>2, <3>1, <3>2 DEF LinkInv
  <2>3. CASE e # d
    <3>1. dpc'[e] = dpc[e] BY <1>1, <2>3 DEF IInv, Types
    <3> QED BY <1>0, <2>1, <3>1 DEF LinkInv, Alive, clientVars
  <2> QED BY <2>2, <2>3
<1>7. \A c \in Clients : AnswerInv(c)' BY <1>0 DEF IInv, AnswerInv, clientVars
<1> QED BY <1>4, <1>5, <1>6, <1>7 DEF IInv

LEMMA AcceptStep ==
    ASSUME IInv, NEW d \in Daemons, Accept(d)
    PROVE  IInv'
<1> DEFINE h == Head(backlog[d])
<1>0. /\ UNCHANGED <<sock, link, clientVars>> /\ dpc[d] = "accept" /\ backlog[d] # <<>>
      /\ dpc' = [dpc EXCEPT ![d] = "read"] /\ cur' = [cur EXCEPT ![d] = h]
      /\ backlog' = [backlog EXCEPT ![d] = Tail(@)]
  BY DEF Accept
<1>1. /\ backlog' \in [Daemons -> Seq(Daemons \cup Clients)] /\ h \in Daemons \cup Clients
      /\ \A c : h = c => Queued(d, c, 1)
      /\ \A e \in Daemons : \A c, i : Queued(e, c, i)' =>
            IF e = d THEN i \in Nat /\ i # 0 /\ Queued(d, c, i + 1) ELSE Queued(e, c, i)
  BY <1>0, Taken DEF IInv
<1>2. cur'[d] = h /\ dpc'[d] = "read" /\ \A e \in Daemons : e # d => cur'[e] = cur[e] /\ dpc'[e] = dpc[e]
  BY <1>0 DEF IInv, Types
<1>3. Types' BY <1>0, <1>1 DEF IInv, Types, DaemonStates, clientVars
<1> HIDE DEF h
<1>4. ConnectionsInv'
  <2>0. \A e, c : Unanswered(e, c)' <=> Unanswered(e, c) BY <1>0 DEF Unanswered, clientVars
  <2>1. ASSUME NEW e \in Daemons, NEW c \in Clients, NEW i, Queued(e, c, i)'
        PROVE  Unanswered(e, c) /\ cur'[e] # c /\ \A j : Queued(e, c, j)' => i = j
    <3>1. CASE e = d
      <4>1. i \in Nat /\ i # 0 /\ Queued(d, c, i + 1) BY <1>1, <2>1, <3>1
      <4>2. h # c
        <5> SUFFICES ASSUME h = c PROVE FALSE OBVIOUS
        <5>1. Queued(d, c, 1) BY <1>1
        <5>2. i + 1 = 1 BY <4>1, <5>1 DEF IInv, ConnectionsInv
        <5> QED BY <4>1, <5>2
      <4>3. ASSUME NEW j, Queued(e, c, j)' PROVE i = j
        <5>1. j \in Nat /\ Queued(d, c, j + 1) BY <1>1, <3>1, <4>3
        <5>2. i + 1 = j + 1 BY <4>1, <5>1 DEF IInv, ConnectionsInv
        <5> QED BY <4>1, <5>1, <5>2
      <4> QED BY <1>2, <3>1, <4>1, <4>2, <4>3 DEF IInv, ConnectionsInv
    <3>2. CASE e # d
      <4>1. Queued(e, c, i) /\ \A j : Queued(e, c, j)' => Queued(e, c, j) BY <1>1, <2>1, <3>2
      <4> QED BY <1>2, <3>2, <4>1 DEF IInv, ConnectionsInv
    <3> QED BY <3>1, <3>2
  <2>2. ASSUME NEW e \in Daemons, NEW c \in Clients, cur'[e] = c PROVE Unanswered(e, c)
    <3>1. CASE e = d BY <1>1, <1>2, <2>2, <3>1 DEF IInv, ConnectionsInv
    <3>2. CASE e # d BY <1>2, <2>2, <3>2 DEF IInv, ConnectionsInv
    <3> QED BY <3>1, <3>2
  <2> QED BY <2>0, <2>1, <2>2 DEF ConnectionsInv
<1>5. ASSUME NEW e \in Daemons PROVE LinkInv(e)'
  <2>1. LinkInv(e) BY DEF IInv
  <2>2. CASE e = d
    <3>1. link[d].for = None BY <1>0, <2>1, <2>2 DEF LinkInv
    <3> QED BY <1>0, <1>2, <2>2, <3>1 DEF LinkInv
  <2>3. CASE e # d
    BY <1>0, <1>2, <2>1, <2>3 DEF LinkInv, Alive, clientVars
  <2> QED BY <2>2, <2>3
<1>6. \A c \in Clients : AnswerInv(c)' BY <1>0 DEF IInv, AnswerInv, clientVars
<1> QED BY <1>3, <1>4, <1>5, <1>6 DEF IInv


\* Steps that leave the connections as they are.
LEMMA SameConnections ==
    ASSUME ConnectionsInv, UNCHANGED <<backlog, cur, con, reply>>,
           \A c \in Clients : cpc[c] # "start" => cpc'[c] # "start"
    PROVE  ConnectionsInv'
BY DEF ConnectionsInv, Queued, Unanswered

\* A daemon's link and its client are as before.
LEMMA SameLink ==
    ASSUME NEW e \in Daemons, LinkInv(e), link'[e] = link[e], cur'[e] = cur[e], dpc'[e] = dpc[e],
           link[e].for # None => cpc'[link[e].for] = cpc[link[e].for] /\ last'[link[e].for] = last[link[e].for]
    PROVE  LinkInv(e)'
BY DEF LinkInv, Alive

\* The connection that is served is the client's, and not answered yet.
LEMMA Served ==
    ASSUME IInv, NEW d \in Daemons, NEW c \in Clients, cur[d] = c
    PROVE  con[c] = d /\ reply[c] = None /\ \A e \in Daemons : cur[e] = c => e = d
<1>1. \A e \in Daemons : cur[e] = c => con[c] = e /\ reply[c] = None BY DEF IInv, ConnectionsInv, Unanswered
<1> QED BY <1>1

\* A link that may still end belongs to one daemon.
LEMMA OneLink ==
    ASSUME IInv, NEW d \in Daemons, NEW e \in Daemons, link[d].for # None, link[e].for = link[d].for
    PROVE  d = e
<1>1. link[d].for \in Clients BY DEF IInv, Types, Link
<1>2. cur[d] = link[d].for /\ cur[e] = link[d].for BY DEF IInv, LinkInv
<1> QED BY <1>1, <1>2, Served

LEMMA ConnectionErrorStep ==
    ASSUME IInv, NEW d \in Daemons, ConnectionError(d)
    PROVE  IInv'
<1>0. /\ UNCHANGED <<sock, backlog, link, clientVars>> /\ dpc[d] = "read"
      /\ dpc' = [dpc EXCEPT ![d] = "accept"] /\ cur' = [cur EXCEPT ![d] = None]
  BY DEF ConnectionError, NextConnection
<1>1. Types' BY <1>0 DEF IInv, Types, DaemonStates, clientVars
<1>2. cur'[d] = None /\ dpc'[d] = "accept" /\ \A e \in Daemons : e # d => cur'[e] = cur[e] /\ dpc'[e] = dpc[e]
  BY <1>0 DEF IInv, Types
<1>3. ConnectionsInv'
  <2>1. \A e \in Daemons, c \in Clients : cur'[e] = c => cur[e] = c BY <1>2, DaemonAssumption
  <2> QED BY <1>0, <2>1 DEF IInv, ConnectionsInv, Queued, Unanswered, clientVars
<1>4. ASSUME NEW e \in Daemons PROVE LinkInv(e)'
  <2>1. LinkInv(e) BY DEF IInv
  <2>2. CASE e = d
    <3>1. link[d].for = None BY <1>0, <2>1, <2>2 DEF LinkInv
    <3> QED BY <1>0, <1>2, <2>2, <3>1 DEF LinkInv
  <2>3. CASE e # d BY <1>0, <1>2, <2>1, <2>3, SameLink DEF clientVars
  <2> QED BY <2>2, <2>3
<1>5. \A c \in Clients : AnswerInv(c)' BY <1>0 DEF IInv, AnswerInv, clientVars
<1> QED BY <1>1, <1>3, <1>4, <1>5 DEF IInv

\* A daemon starts a link for a client that has sent its request.
Started(d, c) ==
    /\ cur[d] = c /\ cpc[c] = "sent" /\ dpc[d] = "read"
    /\ \E n \in Outputs, forked \in BOOLEAN :
        link' = [link EXCEPT ![d] = [for |-> c, forked |-> forked, left |-> n, pipe |-> 0, end |-> None]]
    /\ \E p \in {"wait", "inproc"} : dpc' = [dpc EXCEPT ![d] = p]
    /\ UNCHANGED <<sock, backlog, cur, clientVars>>

LEMMA Starts ==
    ASSUME NEW d \in Daemons, run_link_in_child(d) \/ run_link_in_process(d)
    PROVE  cur[d] \in Clients /\ Started(d, cur[d])
BY DEF run_link_in_child, run_link_in_process, StartLink, Started

LEMMA StartStep ==
    ASSUME IInv, NEW d \in Daemons, NEW c \in Clients, Started(d, c)
    PROVE  IInv'
<1>0. /\ cur[d] = c /\ cpc[c] = "sent" /\ UNCHANGED <<sock, backlog, cur, clientVars>>
  BY DEF Started
<1>1. PICK n \in Outputs, forked \in BOOLEAN :
        link' = [link EXCEPT ![d] = [for |-> c, forked |-> forked, left |-> n, pipe |-> 0, end |-> None]]
  BY DEF Started
<1>2. PICK p \in {"wait", "inproc"} : dpc' = [dpc EXCEPT ![d] = p] BY DEF Started
<1>3. /\ link'[d] = [for |-> c, forked |-> forked, left |-> n, pipe |-> 0, end |-> None] /\ dpc'[d] = p
      /\ \A e \in Daemons : e # d => link'[e] = link[e] /\ dpc'[e] = dpc[e]
  BY <1>1, <1>2 DEF IInv, Types
<1>4. Types'
  <2>1. n \in Nat BY DaemonAssumption
  <2>2. [for |-> c, forked |-> forked, left |-> n, pipe |-> 0, end |-> None] \in Link BY <2>1 DEF Link
  <2>3. link' \in [Daemons -> Link] BY <1>1, <2>2 DEF IInv, Types
  <2> QED BY <1>0, <1>2, <2>3 DEF IInv, Types, DaemonStates, clientVars
<1>5. ConnectionsInv' BY <1>0, SameConnections DEF IInv, clientVars
<1>6. ASSUME NEW e \in Daemons PROVE LinkInv(e)'
  <2>1. LinkInv(e) BY DEF IInv
  <2>2. CASE e = d BY <1>0, <1>3, <2>2, DaemonAssumption DEF LinkInv, Alive, clientVars
  <2>3. CASE e # d BY <1>0, <1>3, <2>1, <2>3, SameLink DEF clientVars
  <2> QED BY <2>2, <2>3
<1>7. \A x \in Clients : AnswerInv(x)' BY <1>0 DEF IInv, AnswerInv, clientVars
<1> QED BY <1>4, <1>5, <1>6, <1>7 DEF IInv

LEMMA LinkUpdates ==
    ASSUME NEW l \in Link, NEW n \in Nat, NEW m \in Nat, NEW how \in Ends
    PROVE  [l EXCEPT !.left = n, !.pipe = m] \in Link /\ [l EXCEPT !.end = how] \in Link
BY DEF Link

\* Output moves or the link returns; what matters of the link stays.
LEMMA OutputStep ==
    ASSUME IInv, NEW d \in Daemons, UNCHANGED <<sock, backlog, cur, clientVars>>,
           NEW n \in Nat, NEW m \in Nat, link' = [link EXCEPT ![d] = [@ EXCEPT !.left = n, !.pipe = m]],
           \/ dpc' = dpc
           \/ dpc[d] \in {"wait", "inproc"} /\ link[d].end # None /\ dpc' = [dpc EXCEPT ![d] = "respond"]
    PROVE  IInv'
<1>1. Types'
  <2>1. dpc' \in [Daemons -> DaemonStates] BY DEF IInv, Types, DaemonStates
  <2>2. [link[d] EXCEPT !.left = n, !.pipe = m] \in Link
    <3>1. link[d] \in Link BY DEF IInv, Types
    <3>2. "ok" \in Ends BY DEF Ends
    <3> QED BY <3>1, <3>2, LinkUpdates
  <2>3. link' \in [Daemons -> Link] BY <2>2 DEF IInv, Types
  <2> QED BY <2>1, <2>3 DEF IInv, Types, clientVars
<1>2. ConnectionsInv' BY SameConnections DEF IInv, clientVars
<1>3. /\ link'[d].for = link[d].for /\ link'[d].end = link[d].end /\ link'[d].forked = link[d].forked
      /\ \A e \in Daemons : e # d => link'[e] = link[e] /\ dpc'[e] = dpc[e]
  BY DEF IInv, Types, Link
<1>4. dpc'[d] = dpc[d] \/ (dpc[d] \in {"wait", "inproc"} /\ link[d].end # None /\ dpc'[d] = "respond")
  BY DEF IInv, Types
<1>5. ASSUME NEW e \in Daemons PROVE LinkInv(e)'
  <2>1. LinkInv(e) BY DEF IInv
  <2>2. CASE e = d BY <1>3, <1>4, <2>1, <2>2 DEF LinkInv, Alive, clientVars
  <2>3. CASE e # d BY <1>3, <2>1, <2>3, SameLink DEF clientVars
  <2> QED BY <2>2, <2>3
<1>6. \A x \in Clients : AnswerInv(x)' BY DEF IInv, AnswerInv, clientVars
<1> QED BY <1>1, <1>2, <1>5, <1>6 DEF IInv

LEMMA DrainStep ==
    ASSUME IInv, NEW d \in Daemons, Drain(d) \/ LinkReturned(d)
    PROVE  IInv'
<1>1. CASE Drain(d)
  <2>1. link[d].left \in Nat /\ link[d].pipe - 1 \in Nat BY <1>1 DEF Drain, IInv, Types, Link
  <2>2. link' = [link EXCEPT ![d] = [@ EXCEPT !.left = link[d].left, !.pipe = link[d].pipe - 1]]
    BY <1>1 DEF Drain, IInv, Types, Link
  <2>3. UNCHANGED <<sock, dpc, backlog, cur, clientVars>> BY <1>1 DEF Drain
  <2> QED BY <2>1, <2>2, <2>3, OutputStep
<1>2. CASE LinkReturned(d)
  <2>1. link[d].left \in Nat /\ link[d].pipe \in Nat BY DEF IInv, Types, Link
  <2>2. link' = [link EXCEPT ![d] = [@ EXCEPT !.left = link[d].left, !.pipe = link[d].pipe]]
    BY <1>2 DEF LinkReturned, IInv, Types, Link
  <2>3. /\ UNCHANGED <<sock, backlog, cur, clientVars>>
        /\ dpc[d] \in {"wait", "inproc"} /\ link[d].end # None /\ dpc' = [dpc EXCEPT ![d] = "respond"]
    BY <1>2 DEF LinkReturned
  <2> QED BY <2>1, <2>2, <2>3, OutputStep
<1> QED BY <1>1, <1>2

LEMMA ResponseStep ==
    ASSUME IInv, NEW d \in Daemons, write_response(d)
    PROVE  IInv'
<1> DEFINE c == cur[d]
           r == [code |-> exit_code(link[d].end), size |-> got[d],
                 message |-> link[d].forked /\ link[d].end = "error"]
<1>0. /\ dpc[d] = "respond" /\ link' = [link EXCEPT ![d] = NoLink] /\ reply' = [reply EXCEPT ![c] = r]
      /\ dpc' = [dpc EXCEPT ![d] = "accept"] /\ cur' = [cur EXCEPT ![d] = None]
      /\ UNCHANGED <<sock, backlog, cpc, con, exit, last>>
  BY DEF write_response, NextConnection
<1>1. link[d].for = c /\ c \in Clients /\ cpc[c] = "sent" /\ link[d].end \in Ends /\ last[c] = link[d].end
  <2>1. LinkInv(d) /\ link[d].for \in Clients \cup {None} /\ link[d].end \in Ends \cup {None} BY DEF IInv, Types, Link
  <2> QED BY <1>0, <2>1 DEF LinkInv, Alive
<1>2. /\ link'[d] = NoLink /\ cur'[d] = None /\ dpc'[d] = "accept"
      /\ \A e \in Daemons : e # d => link'[e] = link[e] /\ cur'[e] = cur[e] /\ dpc'[e] = dpc[e]
  BY <1>0 DEF IInv, Types
<1>3. reply'[c] = r /\ \A x \in Clients : x # c => reply'[x] = reply[x]
  BY <1>0, <1>1 DEF IInv, Types
<1>4. Types'
  <2>1. NoLink \in Link BY DEF NoLink, Link
  <2>2. link' \in [Daemons -> Link] BY <1>0, <2>1 DEF IInv, Types
  <2> QED BY <1>0, <2>2 DEF IInv, Types, DaemonStates
<1> HIDE DEF r
<1>5. ConnectionsInv'
  <2>1. \A e \in Daemons : \A i : ~Queued(e, c, i)
    BY <1>1 DEF IInv, ConnectionsInv, Unanswered
  <2>2. \A e \in Daemons : cur'[e] # c
    <3>1. c # None BY <1>1, DaemonAssumption
    <3>2. \A e \in Daemons : cur[e] = c => e = d BY <1>1, Served
    <3> QED BY <1>2, <3>1, <3>2
  <2>3. \A e \in Daemons, x \in Clients : cur'[e] = x => cur[e] = x BY <1>2, DaemonAssumption
  <2>4. \A e, x, i : Queued(e, x, i)' <=> Queued(e, x, i) BY <1>0 DEF Queued
  <2>5. \A e \in Daemons, x \in Clients : x # c /\ Unanswered(e, x) => Unanswered(e, x)'
    BY <1>0, <1>3 DEF Unanswered
  <2> HIDE DEF c
  <2>6. ASSUME NEW e \in Daemons, NEW x \in Clients, cur'[e] = x PROVE Unanswered(e, x)'
    BY <2>2, <2>3, <2>5, <2>6 DEF IInv, ConnectionsInv
  <2>7. ASSUME NEW e \in Daemons, NEW x \in Clients, NEW i, Queued(e, x, i)
        PROVE  Unanswered(e, x)' /\ cur'[e] # x /\ \A j : Queued(e, x, j) => i = j
    BY <2>1, <2>3, <2>5, <2>7 DEF IInv, ConnectionsInv
  <2> QED BY <2>4, <2>6, <2>7 DEF ConnectionsInv
<1>6. ASSUME NEW e \in Daemons PROVE LinkInv(e)'
  <2>1. LinkInv(e) BY DEF IInv
  <2>2. CASE e = d BY <1>2, <2>2 DEF LinkInv, NoLink
  <2>3. CASE e # d BY <1>0, <1>2, <2>1, <2>3, SameLink
  <2> QED BY <2>2, <2>3
<1>7. ASSUME NEW x \in Clients PROVE AnswerInv(x)'
  <2>1. CASE x = c
    <3>1. r.code = exit_code(link[d].end) BY DEF r
    <3>2. reply'[x].code = exit_code(link[d].end) /\ last'[x] = link[d].end /\ cpc'[x] = "sent"
      BY <1>0, <1>1, <1>3, <2>1, <3>1
    <3> QED BY <1>1, <3>2 DEF AnswerInv
  <2>2. CASE x # c BY <1>0, <1>3, <2>2 DEF IInv, AnswerInv
  <2> QED BY <2>1, <2>2
<1> QED BY <1>4, <1>5, <1>6, <1>7 DEF IInv

\* A link ends, by itself or killed, or its daemon is killed.
EndStep(d, how) ==
    /\ link[d].for # None /\ link[d].end = None /\ how \in Ends
    /\ LinkEnds(d, how)
    /\ dpc' = dpc \/ (dpc' = [dpc EXCEPT ![d] = "killed"] /\ Alive(d))
    /\ UNCHANGED <<sock, backlog, cur, cpc, con, reply, exit>>

LEMMA LinkEndStep ==
    ASSUME IInv, NEW d \in Daemons, NEW how, EndStep(d, how)
    PROVE  IInv'
<1> DEFINE c == link[d].for
<1>0. /\ c # None /\ link[d].end = None /\ how \in Ends
      /\ link' = [link EXCEPT ![d].end = how] /\ last' = [last EXCEPT ![c] = how]
      /\ dpc' = dpc \/ dpc' = [dpc EXCEPT ![d] = "killed"]
      /\ UNCHANGED <<sock, backlog, cur, cpc, con, reply, exit>>
  BY DEF EndStep, LinkEnds
<1>1. c \in Clients /\ cur[d] = c /\ cpc[c] = "sent" /\ reply[c] = None
  <2>1. LinkInv(d) /\ link[d].for \in Clients \cup {None} BY DEF IInv, Types, Link
  <2>2. c \in Clients /\ cur[d] = c /\ cpc[c] = "sent" BY <1>0, <2>1 DEF LinkInv
  <2> QED BY <2>2 DEF IInv, ConnectionsInv, Unanswered
<1>2. /\ link'[d].for = c /\ link'[d].forked = link[d].forked /\ link'[d].end = how
      /\ dpc'[d] \in {dpc[d], "killed"}
      /\ \A e \in Daemons : e # d => link'[e] = link[e] /\ dpc'[e] = dpc[e]
  BY <1>0 DEF IInv, Types, Link
<1>3. last'[c] = how /\ \A x \in Clients : x # c => last'[x] = last[x] BY <1>0, <1>1 DEF IInv, Types
<1>4. Types'
  <2>1. last' \in [Clients -> Outcome] BY <1>0, <1>1 DEF IInv, Types, Ends, Outcome
  <2>2. [link[d] EXCEPT !.end = how] \in Link
    <3>1. link[d] \in Link BY DEF IInv, Types
    <3> QED BY <1>0, <3>1, LinkUpdates
  <2>3. link' = [link EXCEPT ![d] = [link[d] EXCEPT !.end = how]] BY <1>0
  <2>4. link' \in [Daemons -> Link] BY <2>2, <2>3 DEF IInv, Types
  <2>5. dpc' \in [Daemons -> DaemonStates] BY <1>0 DEF IInv, Types, DaemonStates
  <2> QED BY <1>0, <2>1, <2>4, <2>5 DEF IInv, Types
<1>5. ConnectionsInv' BY <1>0, SameConnections DEF IInv
<1>6. ASSUME NEW e \in Daemons PROVE LinkInv(e)'
  <2>1. LinkInv(e) BY DEF IInv
  <2>2. CASE e = d
    <3>1. how # None BY <1>0, DaemonAssumption DEF Ends
    <3> QED BY <1>0, <1>1, <1>2, <1>3, <2>1, <2>2, <3>1 DEF LinkInv, Alive
  <2>3. CASE e # d
    <3>1. link[e].for # c BY <1>0, <2>3, OneLink
    <3>2. link[e].for # None => link[e].for \in Clients BY DEF IInv, Types, Link
    <3> QED BY <1>0, <1>2, <1>3, <2>1, <2>3, <3>1, <3>2, SameLink
  <2> QED BY <2>2, <2>3
<1>7. ASSUME NEW x \in Clients PROVE AnswerInv(x)'
  <2>1. CASE x = c BY <1>0, <1>1, <2>1 DEF AnswerInv
  <2>2. CASE x # c BY <1>0, <1>3, <2>2 DEF IInv, AnswerInv
  <2> QED BY <2>1, <2>2
<1> QED BY <1>4, <1>5, <1>6, <1>7 DEF IInv

LEMMA LinkStepStep ==
    ASSUME IInv, NEW d \in Daemons, LinkStep(d) \/ KillLink(d) \/ KillDaemon(d)
    PROVE  IInv'
<1>0. link[d] \in Link BY DEF IInv, Types
<1>1. CASE LinkWrites(d) /\ Alive(d)
  <2>1. link[d].left - 1 \in Nat /\ link[d].pipe + 1 \in Nat BY <1>0, <1>1 DEF LinkWrites, Link
  <2>2. link' = [link EXCEPT ![d] = [@ EXCEPT !.left = link[d].left - 1, !.pipe = link[d].pipe + 1]]
    BY <1>1 DEF LinkWrites, IInv, Types
  <2>3. UNCHANGED <<sock, backlog, cur, clientVars>> /\ dpc' = dpc BY <1>1 DEF LinkWrites, clientVars
  <2> QED BY <2>1, <2>2, <2>3, OutputStep
<1>2. CASE (LinkWrites(d) /\ ~Alive(d)) \/ LinkFinishes(d) \/ KillLink(d)
  <2>1. \E how : EndStep(d, how)
    BY <1>2, DaemonAssumption DEF LinkWrites, LinkFinishes, KillLink, EndStep, Running, Ends
  <2> QED BY <2>1, LinkEndStep
<1>3. CASE KillDaemon(d) /\ Running(d) /\ ~link[d].forked
  <2>1. EndStep(d, "signal") BY <1>3 DEF KillDaemon, EndStep, Running, Ends
  <2> QED BY <2>1, LinkEndStep
<1>4. CASE KillDaemon(d) /\ ~(Running(d) /\ ~link[d].forked)
  <2>0. /\ dpc' = [dpc EXCEPT ![d] = "killed"] /\ Alive(d)
        /\ UNCHANGED <<sock, backlog, cur, link, cpc, con, reply, exit, last>>
    BY <1>4 DEF KillDaemon
  <2>1. Types' BY <2>0 DEF IInv, Types, DaemonStates
  <2>2. ConnectionsInv' BY <2>0, SameConnections DEF IInv
  <2>3. dpc'[d] = "killed" /\ \A e \in Daemons : e # d => dpc'[e] = dpc[e] BY <2>0 DEF IInv, Types
  <2>4. ASSUME NEW e \in Daemons PROVE LinkInv(e)'
    <3>1. LinkInv(e) BY DEF IInv
    <3>2. CASE e = d BY <1>4, <2>0, <2>3, <3>1, <3>2 DEF LinkInv, Alive, Running
    <3>3. CASE e # d BY <2>0, <2>3, <3>1, <3>3, SameLink
    <3> QED BY <3>2, <3>3
  <2>5. \A c \in Clients : AnswerInv(c)' BY <2>0 DEF IInv, AnswerInv
  <2> QED BY <2>1, <2>2, <2>4, <2>5 DEF IInv
<1> QED BY <1>1, <1>2, <1>3, <1>4 DEF LinkStep

\* A client's step changes nothing at the daemons.  It leaves "sent" only when
\* there is an answer or nobody is left to give one.
LEMMA Waited ==
    ASSUME IInv, NEW c \in Clients, NEW d \in Daemons, link[d].for = c, Alive(d) \/ link[d].end = None
    PROVE  reply[c] = None /\ ServerEndOpen(c)
<1>1. LinkInv(d) /\ c # None BY DaemonAssumption DEF IInv
<1>a. cur[d] = c BY <1>1 DEF LinkInv
<1>2. cur[d] = c /\ con[c] = d /\ reply[c] = None BY <1>a, Served
<1>3. Alive(d) \/ link[d].forked BY <1>1 DEF LinkInv
<1> QED BY <1>1, <1>2, <1>3 DEF ServerEndOpen, Running

ClientMoves(c) ==
    /\ UNCHANGED <<sock, dpc, link, cur, reply>>
    /\ \E p \in {"connected", "sent", "direct", "linking", "ended", "done"} : cpc' = [cpc EXCEPT ![c] = p]
    /\ \A d \in Daemons : link[d].for = c => ~Alive(d) /\ link[d].end # None
    /\ \E n \in Int : exit' = exit \/ exit' = [exit EXCEPT ![c] = n]
    /\ UNCHANGED <<backlog, con>> \/ (cpc[c] = "start" /\ \E d \in Daemons :
            backlog' = [backlog EXCEPT ![d] = Append(@, c)] /\ con' = [con EXCEPT ![c] = d])
    /\ last' = last \/ \E how \in Ends : last' = [last EXCEPT ![c] = how]
    /\ AnswerInv(c)'

LEMMA ClientMovesStep ==
    ASSUME IInv, NEW c \in Clients, ClientMoves(c)
    PROVE  IInv'
<1>0. /\ UNCHANGED <<sock, dpc, link, cur, reply>> /\ AnswerInv(c)'
      /\ \A d \in Daemons : link[d].for = c => ~Alive(d) /\ link[d].end # None
  BY DEF ClientMoves
<1>1. PICK p \in {"connected", "sent", "direct", "linking", "ended", "done"} : cpc' = [cpc EXCEPT ![c] = p]
  BY DEF ClientMoves
<1>2. cpc'[c] = p /\ \A x \in Clients : x # c => cpc'[x] = cpc[x] /\ last'[x] = last[x]
  BY <1>1 DEF ClientMoves, IInv, Types
<1>3. /\ cpc' \in [Clients -> {"start", "connected", "sent", "direct", "linking", "ended", "done"}]
      /\ last' \in [Clients -> Outcome] /\ exit' \in [Clients -> Int]
  <2>1. cpc' \in [Clients -> {"start", "connected", "sent", "direct", "linking", "ended", "done"}]
    BY <1>1 DEF IInv, Types
  <2>2. last' \in [Clients -> Outcome] BY DEF ClientMoves, IInv, Types, Ends, Outcome
  <2>3. exit' \in [Clients -> Int]
    <3>1. PICK n \in Int : exit' = exit \/ exit' = [exit EXCEPT ![c] = n] BY DEF ClientMoves
    <3>2. exit \in [Clients -> Int] BY DEF IInv, Types
    <3> QED BY <3>1, <3>2
  <2> QED BY <2>1, <2>2, <2>3
<1>4. Types' /\ ConnectionsInv'
  <2>1. CASE UNCHANGED <<backlog, con>>
    <3>1. Types' BY <1>0, <1>3, <2>1 DEF IInv, Types
    <3>2. ConnectionsInv' BY <1>0, <1>2, <2>1, SameConnections DEF IInv
    <3> QED BY <3>1, <3>2
  <2>2. ASSUME cpc[c] = "start", NEW d \in Daemons,
               backlog' = [backlog EXCEPT ![d] = Append(@, c)], con' = [con EXCEPT ![c] = d]
        PROVE  Types' /\ ConnectionsInv'
    <3>0. reply[c] = None /\ \A e \in Daemons : cur[e] # c /\ \A i : ~Queued(e, c, i)
      BY <2>2 DEF IInv, ConnectionsInv, Unanswered, AnswerInv
    <3>1. /\ backlog' \in [Daemons -> Seq(Daemons \cup Clients)]
          /\ \A e \in Daemons : \A x, i : Queued(e, x, i)' =>
                Queued(e, x, i) \/ (e = d /\ x = c /\ i = Len(backlog[d]) + 1)
      BY <2>2, Appended DEF IInv
    <3>2. Types' BY <1>0, <1>3, <2>2, <3>1 DEF IInv, Types
    <3>3. con'[c] = d /\ \A x \in Clients : x # c => con'[x] = con[x] BY <2>2 DEF IInv, Types
    <3>4. \A e \in Daemons, x \in Clients : x # c => (Unanswered(e, x)' <=> Unanswered(e, x))
      BY <1>0, <1>2, <3>3 DEF Unanswered
    <3>5. Unanswered(d, c)' BY <1>0, <1>2, <3>0, <3>3 DEF Unanswered
    <3>6. ASSUME NEW e \in Daemons, NEW x \in Clients, NEW i, Queued(e, x, i)'
          PROVE  Unanswered(e, x)' /\ cur'[e] # x /\ \A j : Queued(e, x, j)' => i = j
      <4>1. CASE x = c
        <5>1. \A j : Queued(e, x, j)' => e = d /\ j = Len(backlog[d]) + 1 BY <3>0, <3>1, <4>1
        <5>2. e = d /\ \A j : Queued(e, x, j)' => i = j BY <3>6, <5>1
        <5> QED BY <1>0, <3>0, <3>5, <4>1, <5>2
      <4>2. CASE x # c
        <5>1. Queued(e, x, i) /\ \A j : Queued(e, x, j)' => Queued(e, x, j) BY <3>1, <3>6, <4>2
        <5> QED BY <1>0, <3>4, <4>2, <5>1 DEF IInv, ConnectionsInv
      <4> QED BY <4>1, <4>2
    <3>7. ASSUME NEW e \in Daemons, NEW x \in Clients, cur'[e] = x PROVE Unanswered(e, x)'
      BY <1>0, <3>0, <3>4, <3>7 DEF IInv, ConnectionsInv
    <3>8. ConnectionsInv' BY <3>6, <3>7 DEF ConnectionsInv
    <3> QED BY <3>2, <3>8
  <2> QED BY <2>1, <2>2 DEF ClientMoves
<1>5. ASSUME NEW e \in Daemons PROVE LinkInv(e)'
  <2>1. LinkInv(e) /\ (link[e].for # None => link[e].for \in Clients) BY DEF IInv, Types, Link
  <2>2. CASE link[e].for = c BY <1>0, <2>1, <2>2 DEF LinkInv, Alive
  <2>3. CASE link[e].for # c BY <1>0, <1>2, <2>1, <2>3, SameLink
  <2> QED BY <2>2, <2>3
<1>6. ASSUME NEW x \in Clients PROVE AnswerInv(x)'
  <2>1. CASE x = c BY <1>0, <2>1
  <2>2. CASE x # c BY <1>0, <1>2, <2>2 DEF IInv, AnswerInv
  <2> QED BY <2>1, <2>2
<1> QED BY <1>4, <1>5, <1>6 DEF IInv

\* A client that is not waiting has no link that may still end or be answered.
LEMMA NotWaiting ==
    ASSUME IInv, NEW c \in Clients, cpc[c] # "sent"
    PROVE  \A d \in Daemons : link[d].for = c => ~Alive(d) /\ link[d].end # None
<1>1. c # None BY DaemonAssumption
<1> QED BY <1>1 DEF IInv, LinkInv

LEMMA GivenUp ==
    ASSUME IInv, NEW c \in Clients, reply[c] # None \/ ~ServerEndOpen(c)
    PROVE  \A d \in Daemons : link[d].for = c => ~Alive(d) /\ link[d].end # None
BY Waited

LEMMA ClientStepMoves ==
    ASSUME IInv, NEW c \in Clients, ClientStep(c)
    PROVE  ClientMoves(c)
<1>0. AnswerInv(c) /\ c \in Clients /\ cpc \in [Clients -> {"start", "connected", "sent", "direct", "linking", "ended", "done"}]
  BY DEF IInv, Types
<1>1. CASE Connect(c)
  <2>1. \A d \in Daemons : link[d].for = c => ~Alive(d) /\ link[d].end # None BY <1>1, NotWaiting DEF Connect
  <2>2. PICK p \in {"connected", "direct", "done"} : cpc' = [cpc EXCEPT ![c] = p]
    BY <1>1 DEF Connect, NoAnswer
  <2>3. AnswerInv(c)' BY <1>0, <1>1, <2>2 DEF Connect, AnswerInv
  <2>4. sock # None => sock \in Daemons BY DEF IInv, Types
  <2>5. UNCHANGED <<backlog, con>> \/ (cpc[c] = "start" /\ \E d \in Daemons :
            backlog' = [backlog EXCEPT ![d] = Append(@, c)] /\ con' = [con EXCEPT ![c] = d])
    BY <1>1, <2>4 DEF Connect, CanConnect
  <2>6. \E n \in Int : exit' = exit \/ exit' = [exit EXCEPT ![c] = n] BY <1>1 DEF Connect, NoAnswer
  <2> QED BY <1>1, <2>1, <2>2, <2>3, <2>5, <2>6 DEF Connect, ClientMoves
<1>2. CASE write_request(c)
  <2>1. \A d \in Daemons : link[d].for = c => ~Alive(d) /\ link[d].end # None BY <1>2, NotWaiting DEF write_request
  <2>2. PICK p \in {"sent", "direct", "done"} : cpc' = [cpc EXCEPT ![c] = p]
    BY <1>2 DEF write_request, NoAnswer
  <2>3. AnswerInv(c)' BY <1>0, <1>2, <2>2 DEF write_request, AnswerInv
  <2>6. \E n \in Int : exit' = exit \/ exit' = [exit EXCEPT ![c] = n] BY <1>2 DEF write_request, NoAnswer
  <2> QED BY <1>2, <2>1, <2>2, <2>3, <2>6 DEF write_request, ClientMoves, daemonVars
<1>3. CASE read_response(c)
  <2>1. \A d \in Daemons : link[d].for = c => ~Alive(d) /\ link[d].end # None
    BY <1>3, GivenUp DEF read_response
  <2>2. PICK p \in {"direct", "done"} : cpc' = [cpc EXCEPT ![c] = p]
    BY <1>3 DEF read_response, NoAnswer
  <2>3. AnswerInv(c)' BY <1>0, <1>3, <2>2 DEF read_response, AnswerInv
  <2>6. \E n \in Int : exit' = exit \/ exit' = [exit EXCEPT ![c] = n]
    <3>1. \A x \in Ends : exit_code(x) \in Int BY DEF exit_code, Ends
    <3>2. CASE NoAnswer(c) BY <3>2 DEF NoAnswer
    <3>3. CASE reply[c] # None /\ exit' = [exit EXCEPT ![c] = reply[c].code]
      <4>1. reply[c].code \in Int BY <1>0, <1>3, <3>1, <3>3 DEF read_response, AnswerInv
      <4> QED BY <3>3, <4>1
    <3> QED BY <1>3, <3>2, <3>3 DEF read_response
  <2> QED BY <1>3, <2>1, <2>2, <2>3, <2>6 DEF read_response, ClientMoves, daemonVars
<1>4. CASE DirectLink(c)
  <2>1. \A d \in Daemons : link[d].for = c => ~Alive(d) /\ link[d].end # None BY <1>4, NotWaiting DEF DirectLink
  <2>2. AnswerInv(c)' BY <1>0, <1>4 DEF DirectLink, AnswerInv
  <2> QED BY <1>4, <2>1, <2>2 DEF DirectLink, ClientMoves, daemonVars
<1>5. CASE subprocess_result(c)
  <2>1. \A d \in Daemons : link[d].for = c => ~Alive(d) /\ link[d].end # None BY <1>5, NotWaiting DEF subprocess_result
  <2>2. PICK how \in Ends : last' = [last EXCEPT ![c] = how] /\ ("crash" \notin Faults => how # "signal")
    BY <1>5, DaemonAssumption DEF subprocess_result, Ends
  <2>3. cpc'[c] = "ended" /\ last'[c] = how BY <1>0, <1>5, <2>2 DEF subprocess_result, IInv, Types
  <2>4. AnswerInv(c)' BY <2>2, <2>3 DEF AnswerInv
  <2>5. UNCHANGED <<daemonVars, con, reply, exit>> /\ cpc' = [cpc EXCEPT ![c] = "ended"]
    BY <1>5 DEF subprocess_result
  <2>6. \E n \in Int : exit' = exit \/ exit' = [exit EXCEPT ![c] = n] BY <2>5
  <2> QED BY <2>1, <2>2, <2>4, <2>5, <2>6 DEF ClientMoves, daemonVars
<1>6. CASE wait_for_child_done(c)
  <2>1. \A d \in Daemons : link[d].for = c => ~Alive(d) /\ link[d].end # None BY <1>6, NotWaiting DEF wait_for_child_done
  <2>2. AnswerInv(c)' BY <1>0, <1>6 DEF wait_for_child_done, AnswerInv
  <2>3. WEXITSTATUS(last[c]) \in Int BY <1>0, <1>6 DEF wait_for_child_done, AnswerInv, WEXITSTATUS, Ends
  <2> QED BY <1>6, <2>1, <2>2, <2>3 DEF wait_for_child_done, ClientMoves, daemonVars
<1> QED BY <1>1, <1>2, <1>3, <1>4, <1>5, <1>6 DEF ClientStep

LEMMA NextInv == IInv /\ [Next]_vars => IInv'
<1> SUFFICES ASSUME IInv, [Next]_vars PROVE IInv' OBVIOUS
<1>1. ASSUME NEW d \in Daemons, Exists(d) \/ DaemonStep(d) \/ Drain(d) \/ LinkStep(d) \/ KillLink(d) \/ KillDaemon(d)
      PROVE  IInv'
  BY <1>1, PathStep, AcceptStep, ConnectionErrorStep, Starts, StartStep, DrainStep, ResponseStep, LinkStepStep
     DEF DaemonStep
<1>2. ASSUME NEW c \in Clients, ClientStep(c) PROVE IInv'
  BY <1>2, ClientStepMoves, ClientMovesStep
<1>3. CASE Finished \/ UNCHANGED vars
  <2>1. UNCHANGED vars BY <1>3 DEF Finished
  <2>2. Types' BY <2>1 DEF vars, IInv, Types
  <2>3. ConnectionsInv' BY <2>1, SameConnections DEF vars, IInv
  <2>4. \A d \in Daemons : LinkInv(d)' BY <2>1 DEF vars, IInv, LinkInv, Alive
  <2>5. \A c \in Clients : AnswerInv(c)' BY <2>1 DEF vars, IInv, AnswerInv
  <2> QED BY <2>2, <2>3, <2>4, <2>5 DEF IInv
<1> QED BY <1>1, <1>2, <1>3 DEF Next

-----------------------------------------------------------------------------
(* The refinement of LinkService.                                           *)

Job == [c \in Clients |-> IF cpc[c] = "done" THEN "done" ELSE IF Linking(c) THEN "linking" ELSE "idle"]

ServiceStep == Service!Next \/ UNCHANGED <<Job, last, exit>>

LEMMA ServiceActions ==
    ASSUME NEW c \in Clients,
           \A x \in Clients : x # c => Job'[x] = Job[x],
           \/ Job[c] = "idle" /\ Job'[c] = "linking" /\ UNCHANGED <<last, exit>>
           \/ /\ Job[c] = "linking" /\ Job'[c] = "idle" /\ UNCHANGED exit
              /\ \E o \in Ends : last' = [last EXCEPT ![c] = o]
           \/ /\ Job[c] = "idle" /\ Job'[c] = "done" /\ UNCHANGED last
              /\ \E n \in 0 .. 255 : /\ n = 0 => last[c] = "ok"
                                     /\ c \in HasFallback /\ last[c] = "ok" => n = 0
                                     /\ exit' = [exit EXCEPT ![c] = n]
    PROVE  Service!Next
<1>1. \A v : Job'[c] = v => Job' = [Job EXCEPT ![c] = v] BY DEF Job
<1>2. CASE Job[c] = "idle" /\ Job'[c] = "linking" /\ UNCHANGED <<last, exit>>
  <2>1. Service!Begin(c) BY <1>1, <1>2 DEF Service!Begin, Job
  <2> QED BY <2>1 DEF Service!Next
<1>3. CASE /\ Job[c] = "linking" /\ Job'[c] = "idle" /\ UNCHANGED exit
           /\ \E o \in Ends : last' = [last EXCEPT ![c] = o]
  <2>1. Service!End(c) BY <1>1, <1>3 DEF Service!End, Job, Ends, Outcome
  <2> QED BY <2>1 DEF Service!Next
<1>4. CASE /\ Job[c] = "idle" /\ Job'[c] = "done" /\ UNCHANGED last
           /\ \E n \in 0 .. 255 : /\ n = 0 => last[c] = "ok"
                                  /\ c \in HasFallback /\ last[c] = "ok" => n = 0
                                  /\ exit' = [exit EXCEPT ![c] = n]
  <2>1. Service!Exit(c) BY <1>1, <1>4 DEF Service!Exit, Job
  <2> QED BY <2>1 DEF Service!Next
<1> QED BY <1>2, <1>3, <1>4

\* Commands and running links as before: nothing happens to the service.
LEMMA Stutters ==
    ASSUME UNCHANGED <<cpc, last, exit>>,
           \A d \in Daemons : /\ Running(d)' <=> Running(d)
                              /\ Running(d) => link'[d].for = link[d].for
    PROVE  ServiceStep
<1>1. \A c : Linking(c)' <=> Linking(c) BY DEF Linking
<1> QED BY <1>1 DEF Job, ServiceStep

LEMMA DaemonStepServes ==
    ASSUME IInv, NEW d \in Daemons, Exists(d) \/ DaemonStep(d) \/ Drain(d)
    PROVE  ServiceStep
<1>0. link[d] \in Link BY DEF IInv, Types
<1>1. CASE Exists(d) \/ Probe(d) \/ RemoveStale(d) \/ Bind(d) \/ Accept(d) \/ ConnectionError(d) \/ LinkReturned(d)
  <2>1. UNCHANGED <<link, cpc, last, exit>>
    BY <1>1 DEF Exists, Probe, RemoveStale, Bind, Accept, ConnectionError, LinkReturned, clientVars
  <2> QED BY <2>1, Stutters DEF Running
<1>2. CASE Drain(d)
  <2>1. UNCHANGED <<cpc, last, exit>> BY <1>2 DEF Drain, clientVars
  <2>2. \A e \in Daemons : link'[e].for = link[e].for /\ link'[e].end = link[e].end
    BY <1>2 DEF Drain, IInv, Types, Link
  <2> QED BY <2>1, <2>2, Stutters DEF Running
<1>3. CASE write_response(d)
  <2>1. UNCHANGED <<cpc, last, exit>> /\ link' = [link EXCEPT ![d] = NoLink] /\ dpc[d] = "respond"
    BY <1>3 DEF write_response
  <2>2. link[d].end # None BY <2>1 DEF IInv, LinkInv
  <2>3. ASSUME NEW e \in Daemons PROVE (Running(e)' <=> Running(e)) /\ (Running(e) => link'[e].for = link[e].for)
    <3>1. CASE e = d
      <4>1. link'[e] = NoLink BY <2>1, <3>1 DEF IInv, Types
      <4>2. link'[e].for = None BY <4>1 DEF NoLink
      <4>3. ~Running(e)' BY <4>2 DEF Running
      <4>4. ~Running(e) BY <2>2, <3>1 DEF Running
      <4> QED BY <4>3, <4>4
    <3>2. CASE e # d
      <4>1. link'[e] = link[e] BY <2>1, <3>2 DEF IInv, Types
      <4> QED BY <4>1 DEF Running
    <3> QED BY <3>1, <3>2
  <2> QED BY <2>1, <2>3, Stutters
<1>4. CASE run_link_in_child(d) \/ run_link_in_process(d)
  <2>0. PICK c \in Clients : c # None /\ Started(d, c) BY <1>4, Starts, DaemonAssumption
  <2>1. cpc[c] = "sent" /\ dpc[d] = "read" /\ UNCHANGED <<cpc, last, exit>> BY <2>0 DEF Started, clientVars
  <2>2. /\ link'[d].for = c /\ link'[d].end = None
        /\ \A e \in Daemons : e # d => link'[e] = link[e]
    <3>1. PICK n, forked : link' = [link EXCEPT ![d] = [for |-> c, forked |-> forked, left |-> n, pipe |-> 0, end |-> None]]
      BY <2>0 DEF Started
    <3> QED BY <3>1 DEF IInv, Types
  <2>3. link[d].for = None BY <2>1 DEF IInv, LinkInv
  <2>4. \A e \in Daemons : link[e].for # c
    <3>1. \A e \in Daemons : link[e].for = c => cur[e] = c BY <2>0 DEF IInv, LinkInv
    <3>2. \A e \in Daemons : cur[e] = c => e = d BY <2>0, Served DEF Started
    <3> QED BY <2>0, <2>3, <3>1, <3>2
  <2>5. ~Linking(c) /\ Linking(c)' BY <2>0, <2>1, <2>2, <2>4 DEF Linking, Running
  <2>6. ASSUME NEW x \in Clients, x # c PROVE Linking(x)' <=> Linking(x)
    BY <2>1, <2>2, <2>3, <2>6, DaemonAssumption DEF Linking, Running
  <2>7. Job[c] = "idle" /\ Job'[c] = "linking" /\ \A x \in Clients : x # c => Job'[x] = Job[x]
    BY <2>0, <2>1, <2>5, <2>6 DEF Job
  <2> QED BY <2>0, <2>1, <2>7, ServiceActions DEF ServiceStep
<1> QED BY <1>1, <1>2, <1>3, <1>4 DEF DaemonStep

LEMMA LinkStepServes ==
    ASSUME IInv, NEW d \in Daemons, LinkStep(d) \/ KillLink(d) \/ KillDaemon(d)
    PROVE  ServiceStep
<1>1. CASE LinkWrites(d) /\ Alive(d)
  <2>1. UNCHANGED <<cpc, last, exit>> BY <1>1 DEF LinkWrites
  <2>0. link' = [link EXCEPT ![d].left = @ - 1, ![d].pipe = @ + 1] BY <1>1 DEF LinkWrites
  <2>3. link \in [Daemons -> Link] BY DEF IInv, Types
  <2>4. \A l \in Link : \A a, b : /\ [l EXCEPT !.left = a, !.pipe = b].for = l.for
                              /\ [l EXCEPT !.left = a, !.pipe = b].end = l.end
    BY DEF Link
  <2>2. \A e \in Daemons : link'[e].for = link[e].for /\ link'[e].end = link[e].end
    BY <2>0, <2>3, <2>4
  <2> QED BY <2>1, <2>2, Stutters DEF Running
<1>2. ASSUME NEW how, EndStep(d, how) PROVE ServiceStep
  <2>0. PICK c : c = link[d].for OBVIOUS
  <2>a. /\ c # None /\ link[d].end = None /\ how \in Ends /\ how # None
        /\ link' = [link EXCEPT ![d].end = how] /\ last' = [last EXCEPT ![c] = how] /\ UNCHANGED <<cpc, exit>>
    BY <1>2, <2>0, DaemonAssumption DEF EndStep, LinkEnds, Ends
  <2>1. c \in Clients /\ cpc[c] = "sent" BY <2>0, <2>a DEF IInv, Types, Link, LinkInv
  <2>2. /\ link'[d].for = c /\ link'[d].end = how
        /\ \A e \in Daemons : e # d => link'[e] = link[e] /\ link[e].for # c
    BY <2>0, <2>a, OneLink DEF IInv, Types, Link
  <2>3. Linking(c) /\ ~Linking(c)' BY <2>0, <2>a, <2>1, <2>2 DEF Linking, Running
  <2>4. ASSUME NEW x \in Clients, x # c PROVE Linking(x)' <=> Linking(x)
    BY <2>0, <2>a, <2>2, <2>4 DEF Linking, Running
  <2>5. Job[c] = "linking" /\ Job'[c] = "idle" /\ \A x \in Clients : x # c => Job'[x] = Job[x]
    BY <2>0, <2>a, <2>1, <2>3, <2>4 DEF Job
  <2> QED BY <2>0, <2>a, <2>1, <2>5, ServiceActions DEF ServiceStep
<1>3. CASE (LinkWrites(d) /\ ~Alive(d)) \/ LinkFinishes(d) \/ KillLink(d)
  <2>1. \E how : EndStep(d, how)
    BY <1>3, DaemonAssumption DEF LinkWrites, LinkFinishes, KillLink, EndStep, Running, Ends
  <2> QED BY <1>2, <2>1
<1>4. CASE KillDaemon(d) /\ Running(d) /\ ~link[d].forked
  <2>1. EndStep(d, "signal") BY <1>4 DEF KillDaemon, EndStep, Running, Ends
  <2> QED BY <1>2, <2>1
<1>5. CASE KillDaemon(d) /\ ~(Running(d) /\ ~link[d].forked)
  BY <1>5, Stutters DEF KillDaemon, Running
<1> QED BY <1>1, <1>3, <1>4, <1>5 DEF LinkStep

\* A client that moves has no running link at a daemon, so its job is told by
\* where it is itself.
LEMMA JobOfMoving ==
    ASSUME IInv, NEW c \in Clients, ClientMoves(c)
    PROVE  /\ Job[c] = IF cpc[c] = "done" THEN "done" ELSE IF cpc[c] = "linking" THEN "linking" ELSE "idle"
           /\ Job'[c] = IF cpc'[c] = "done" THEN "done" ELSE IF cpc'[c] = "linking" THEN "linking" ELSE "idle"
           /\ \A x \in Clients : x # c => Job'[x] = Job[x]
<1>1. /\ UNCHANGED link
      /\ \A d \in Daemons : link[d].for = c => link[d].end # None
      /\ \E p : cpc' = [cpc EXCEPT ![c] = p]
  BY DEF ClientMoves
<1>2. /\ Linking(c) <=> cpc[c] = "linking"
      /\ Linking(c)' <=> cpc'[c] = "linking"
  BY <1>1 DEF Linking, Running
<1>3. \A x \in Clients : x # c => cpc'[x] = cpc[x] BY <1>1 DEF IInv, Types
<1>4. \A x \in Clients : x # c => (Linking(x)' <=> Linking(x)) BY <1>1, <1>3 DEF Linking, Running
<1> QED BY <1>2, <1>3, <1>4 DEF Job

LEMMA Unmoved ==
    ASSUME IInv, NEW c \in Clients, Job'[c] = Job[c], UNCHANGED <<last, exit>>,
           \A x \in Clients : x # c => Job'[x] = Job[x]
    PROVE  ServiceStep
<1>1. Job' = Job BY DEF Job
<1> QED BY <1>1 DEF ServiceStep

LEMMA NoAnswerServes ==
    ASSUME IInv, NEW c \in Clients, ClientMoves(c), NoAnswer(c), cpc[c] \in {"start", "connected", "sent"},
           UNCHANGED last
    PROVE  ServiceStep
<1>0. cpc \in [Clients -> {"start", "connected", "sent", "direct", "linking", "ended", "done"}] BY DEF IInv, Types
<1>1. Job[c] = "idle" BY JobOfMoving
<1>2. CASE c \in HasFallback
  <2>1. cpc'[c] = "direct" /\ UNCHANGED exit BY <1>0, <1>2 DEF NoAnswer
  <2>2. Job'[c] = "idle" BY <2>1, JobOfMoving
  <2> QED BY <1>1, <2>1, <2>2, JobOfMoving, Unmoved
<1>3. CASE c \notin HasFallback
  <2>1. cpc'[c] = "done" /\ exit' = [exit EXCEPT ![c] = 1] BY <1>0, <1>3 DEF NoAnswer
  <2>2. Job'[c] = "done" BY <2>1, JobOfMoving
  <2>3. \E n \in 0 .. 255 : /\ n = 0 => last[c] = "ok"
                            /\ c \in HasFallback /\ last[c] = "ok" => n = 0
                            /\ exit' = [exit EXCEPT ![c] = n]
    <3>1. 1 \in 0 .. 255 /\ 1 # 0 OBVIOUS
    <3> QED BY <1>3, <2>1, <3>1
  <2> QED BY <1>1, <2>2, <2>3, JobOfMoving, ServiceActions DEF ServiceStep
<1> QED BY <1>2, <1>3

LEMMA ClientStepServes ==
    ASSUME IInv, NEW c \in Clients, ClientStep(c), "crash" \notin Faults
    PROVE  ServiceStep
<1>0. /\ ClientMoves(c) /\ AnswerInv(c)
      /\ cpc \in [Clients -> {"start", "connected", "sent", "direct", "linking", "ended", "done"}]
  BY ClientStepMoves DEF IInv, Types
<1>1. CASE Connect(c)
  <2>1. cpc[c] = "start" /\ UNCHANGED last BY <1>1 DEF Connect
  <2>2. CASE NoAnswer(c) BY <1>0, <2>1, <2>2, NoAnswerServes
  <2>3. CASE cpc' = [cpc EXCEPT ![c] = "connected"] /\ UNCHANGED exit
    <3>1. cpc'[c] = "connected" BY <1>0, <2>3
    <3>2. Job'[c] = Job[c] BY <1>0, <2>1, <3>1, JobOfMoving
    <3> QED BY <1>0, <2>1, <2>3, <3>2, JobOfMoving, Unmoved
  <2> QED BY <1>1, <2>2, <2>3 DEF Connect
<1>2. CASE write_request(c)
  <2>1. cpc[c] = "connected" /\ UNCHANGED last BY <1>2 DEF write_request
  <2>2. CASE NoAnswer(c) BY <1>0, <2>1, <2>2, NoAnswerServes
  <2>3. CASE cpc' = [cpc EXCEPT ![c] = "sent"] /\ UNCHANGED exit
    <3>1. cpc'[c] = "sent" BY <1>0, <2>3
    <3>2. Job'[c] = Job[c] BY <1>0, <2>1, <3>1, JobOfMoving
    <3> QED BY <1>0, <2>1, <2>3, <3>2, JobOfMoving, Unmoved
  <2> QED BY <1>2, <2>2, <2>3 DEF write_request
<1>3. CASE read_response(c)
  <2>1. cpc[c] = "sent" /\ UNCHANGED last BY <1>3 DEF read_response
  <2>2. CASE NoAnswer(c) BY <1>0, <2>1, <2>2, NoAnswerServes
  <2>3. CASE /\ reply[c] # None /\ cpc' = [cpc EXCEPT ![c] = "done"]
             /\ exit' = [exit EXCEPT ![c] = reply[c].code]
    <3>1. last[c] \in Ends /\ reply[c].code = exit_code(last[c]) BY <1>0, <2>1, <2>3 DEF AnswerInv
    <3>2. exit_code(last[c]) \in 0 .. 255 /\ (exit_code(last[c]) = 0 <=> last[c] = "ok")
      BY <3>1 DEF exit_code, Ends
    <3>3. cpc'[c] = "done" BY <1>0, <2>3
    <3>4. Job[c] = "idle" /\ Job'[c] = "done" BY <1>0, <2>1, <3>3, JobOfMoving
    <3>5. \E n \in 0 .. 255 : /\ n = 0 => last[c] = "ok"
                              /\ c \in HasFallback /\ last[c] = "ok" => n = 0
                              /\ exit' = [exit EXCEPT ![c] = n]
      BY <2>3, <3>1, <3>2
    <3> QED BY <1>0, <2>1, <3>4, <3>5, JobOfMoving, ServiceActions DEF ServiceStep
  <2> QED BY <1>3, <2>2, <2>3 DEF read_response
<1>4. CASE DirectLink(c)
  <2>1. cpc[c] = "direct" /\ UNCHANGED <<last, exit>> /\ cpc'[c] = "linking" BY <1>0, <1>4 DEF DirectLink
  <2>2. Job[c] = "idle" /\ Job'[c] = "linking" BY <1>0, <2>1, JobOfMoving
  <2> QED BY <1>0, <2>1, <2>2, JobOfMoving, ServiceActions DEF ServiceStep
<1>5. CASE subprocess_result(c)
  <2>1. cpc[c] = "linking" /\ UNCHANGED exit /\ cpc'[c] = "ended" BY <1>0, <1>5 DEF subprocess_result
  <2>2. Job[c] = "linking" /\ Job'[c] = "idle" BY <1>0, <2>1, JobOfMoving
  <2>3. \E how \in Ends : last' = [last EXCEPT ![c] = how]
    BY <1>5, DaemonAssumption DEF subprocess_result, Ends
  <2> QED BY <1>0, <2>1, <2>2, <2>3, JobOfMoving, ServiceActions DEF ServiceStep
<1>6. CASE wait_for_child_done(c)
  <2>1. /\ cpc[c] = "ended" /\ UNCHANGED last /\ cpc'[c] = "done"
        /\ exit' = [exit EXCEPT ![c] = WEXITSTATUS(last[c])]
    BY <1>0, <1>6 DEF wait_for_child_done
  <2>2. last[c] \in Ends /\ last[c] # "signal" BY <1>0, <2>1 DEF AnswerInv
  <2>3. WEXITSTATUS(last[c]) \in 0 .. 255 /\ (WEXITSTATUS(last[c]) = 0 <=> last[c] = "ok")
    BY <2>2 DEF WEXITSTATUS, Ends
  <2>4. Job[c] = "idle" /\ Job'[c] = "done" BY <1>0, <2>1, JobOfMoving
  <2>5. \E n \in 0 .. 255 : /\ n = 0 => last[c] = "ok"
                            /\ c \in HasFallback /\ last[c] = "ok" => n = 0
                            /\ exit' = [exit EXCEPT ![c] = n]
    BY <2>1, <2>3
  <2> QED BY <1>0, <2>1, <2>4, <2>5, JobOfMoving, ServiceActions DEF ServiceStep
<1> QED BY <1>1, <1>2, <1>3, <1>4, <1>5, <1>6 DEF ClientStep

\* The invariant of all behaviours.
LEMMA Invariant == Spec => []IInv
<1>1. IInv /\ [Next]_vars => IInv' BY NextInv
<1> QED BY InitInv, <1>1, PTL DEF Spec

(* Service is implemented: however daemons and links are killed, whatever      *)
(* fork does and however long the queues are, the links of a command never     *)
(* overlap and its exit code is 0 exactly when the last one succeeded (for a    *)
(* command without a fallback, 0 only then).  Excluded is the one fault for     *)
(* which it fails, a signal that kills a directly run linker: WEXITSTATUS       *)
(* reports it as 0.                                                            *)
THEOREM ServiceIsImplemented == "crash" \notin Faults => (Spec => ImplementsService)
<1> SUFFICES ASSUME "crash" \notin Faults PROVE Spec => ImplementsService OBVIOUS
<1>1. Init => Service!Init
  <2> SUFFICES ASSUME Init PROVE Service!Init OBVIOUS
  <2>1. \A c \in Clients : ~Linking(c) /\ cpc[c] = "start"
    BY DEF Init, Linking, Running, NoLink
  <2>2. [c \in Clients |-> IF cpc[c] = "done" THEN "done" ELSE IF Linking(c) THEN "linking" ELSE "idle"]
            = [c \in Clients |-> "idle"]
    BY <2>1
  <2> QED BY <2>2 DEF Service!Init, Init
<1>2. IInv /\ [Next]_vars => [Service!Next]_(Service!vars)
  <2> SUFFICES ASSUME IInv, [Next]_vars PROVE ServiceStep BY DEF ServiceStep, Job, Service!vars
  <2>1. ASSUME NEW d \in Daemons, Exists(d) \/ DaemonStep(d) \/ Drain(d) \/ LinkStep(d) \/ KillLink(d) \/ KillDaemon(d)
        PROVE  ServiceStep
    BY <2>1, DaemonStepServes, LinkStepServes
  <2>2. ASSUME NEW c \in Clients, ClientStep(c) PROVE ServiceStep BY <2>2, ClientStepServes
  <2>3. CASE Finished \/ UNCHANGED vars
    <3>1. UNCHANGED <<cpc, last, exit, link>> BY <2>3 DEF Finished, vars
    <3> QED BY <3>1, Stutters DEF Running
  <2> QED BY <2>1, <2>2, <2>3 DEF Next
<1> QED BY <1>1, <1>2, Invariant, PTL DEF Spec, ImplementsService, Service!Spec

-----------------------------------------------------------------------------
(* The socket path.                                                         *)

\* Steps that leave the path alone and take no daemon to a state of serve's
\* start-up: the rest of a daemon's work, the links, the commands.
PathUnused ==
    /\ UNCHANGED sock
    /\ \A e \in Daemons : \/ dpc'[e] = dpc[e]
                          \/ Bound(e) /\ Bound(e)'
                          \/ dpc'[e] = "killed"
                          \/ dpc'[e] \in {"refused", "failed"} /\ ~Bound(e)

LEMMA UnusedPath ==
    ASSUME Types, OwnerInv, PathUnused, \A e \in Daemons : dpc[e] = "killed" => dpc'[e] = "killed"
    PROVE  OwnerInv'
<1> SUFFICES ASSUME \A e \in Daemons : dpc'[e] # "killed"
             PROVE  /\ sock' # None => Bound(sock)'
                    /\ \A d \in Daemons : /\ Bound(d)' => sock' = d
                                          /\ dpc'[d] # "remove"
                                          /\ dpc'[d] = "probe" => sock' # None
  BY DEF OwnerInv
<1>0. \A e \in Daemons : dpc[e] # "killed" OBVIOUS
<1>1. /\ sock # None => Bound(sock)
      /\ \A d \in Daemons : /\ Bound(d) => sock = d
                            /\ dpc[d] # "remove"
                            /\ dpc[d] = "probe" => sock # None
  BY <1>0 DEF OwnerInv
<1>2. \A e \in Daemons : /\ Bound(e)' <=> Bound(e)
                         /\ dpc'[e] \in {"remove", "probe"} => dpc'[e] = dpc[e]
  BY DEF PathUnused, Bound
<1>3. sock' = sock /\ (sock # None => sock \in Daemons) BY DEF Types, PathUnused
<1>4. sock' # None => Bound(sock)'
  <2>1. sock # None => \E d \in Daemons : d = sock /\ d = sock' /\ Bound(d)' BY <1>1, <1>2, <1>3
  <2> QED BY <1>3, <2>1 DEF Bound
<1> QED BY <1>1, <1>2, <1>3, <1>4

LEMMA OwnerStep ==
    ASSUME IInv, OwnerInv, [Next]_vars
    PROVE  OwnerInv'
<1>0. Types /\ \A d \in Daemons : LinkInv(d) /\ dpc[d] \in DaemonStates BY DEF IInv, Types
<1>1. ASSUME NEW d \in Daemons, Exists(d) PROVE OwnerInv'
  <2>1. /\ UNCHANGED sock /\ dpc[d] = "off" /\ dpc'[d] = (IF sock = None THEN "bind" ELSE "probe")
        /\ \A e \in Daemons : e # d => dpc'[e] = dpc[e]
    BY <1>0, <1>1 DEF Exists, Types
  <2> QED BY <1>0, <2>1 DEF OwnerInv, Bound, Types
<1>2. ASSUME NEW d \in Daemons, Probe(d) PROVE OwnerInv'
  <2>1. /\ UNCHANGED sock /\ dpc[d] = "probe" /\ (CanConnect => dpc'[d] = "refused") /\ (~CanConnect => dpc'[d] = "remove")
        /\ \A e \in Daemons : e # d => dpc'[e] = dpc[e]
    BY <1>0, <1>2 DEF Probe, Types
  <2>2. (\A e \in Daemons : dpc[e] # "killed") => CanConnect
    BY <2>1 DEF OwnerInv, CanConnect, ListenerOpen
  <2> QED BY <1>0, <2>1, <2>2 DEF OwnerInv, Bound, Types
<1>3. ASSUME NEW d \in Daemons, RemoveStale(d) PROVE OwnerInv'
  <2>1. dpc[d] = "remove" /\ \A e \in Daemons : dpc[e] = "killed" => dpc'[e] = "killed"
    BY <1>0, <1>3 DEF RemoveStale, Types
  <2> QED BY <2>1 DEF OwnerInv
<1>4. ASSUME NEW d \in Daemons, Bind(d) PROVE OwnerInv'
  <2>1. /\ dpc[d] = "bind" /\ \A e \in Daemons : e # d => dpc'[e] = dpc[e]
        /\ sock = None => sock' = d /\ dpc'[d] = "accept"
        /\ sock # None => sock' = sock /\ dpc'[d] = "failed"
    BY <1>0, <1>4 DEF Bind, Types
  <2>2. CASE sock = None
    <3>1. (\A e \in Daemons : dpc[e] # "killed") => \A e \in Daemons : ~Bound(e) /\ dpc[e] # "remove"
      BY <2>2, DaemonAssumption DEF OwnerInv
    <3> QED BY <2>1, <2>2, <3>1, DaemonAssumption DEF OwnerInv, Bound
  <2>3. CASE sock # None BY <1>0, <2>1, <2>3 DEF OwnerInv, Bound, Types
  <2> QED BY <2>2, <2>3
<1>5. ASSUME NEW d \in Daemons, Accept(d) \/ ConnectionError(d) \/ run_link_in_child(d) \/ run_link_in_process(d)
                                \/ LinkReturned(d) \/ write_response(d)
      PROVE  OwnerInv'
  <2>1. /\ UNCHANGED sock /\ Bound(d) /\ Bound(d)' /\ \A e \in Daemons : e # d => dpc'[e] = dpc[e]
    BY <1>0, <1>5 DEF Accept, ConnectionError, run_link_in_child, run_link_in_process, LinkReturned, write_response,
                      NextConnection, Bound, Types
  <2>2. PathUnused /\ \A e \in Daemons : dpc[e] = "killed" => dpc'[e] = "killed"
    BY <2>1 DEF PathUnused, Bound
  <2> QED BY <1>0, <2>2, UnusedPath
<1>6. ASSUME NEW d \in Daemons, KillDaemon(d) PROVE OwnerInv'
  <2>1. dpc'[d] = "killed" BY <1>0, <1>6 DEF KillDaemon, Types
  <2> QED BY <2>1 DEF OwnerInv
<1>7. CASE UNCHANGED <<sock, dpc>> BY <1>0, <1>7, UnusedPath DEF PathUnused
<1>8. ASSUME NEW d \in Daemons, Drain(d) \/ LinkStep(d) \/ KillLink(d) PROVE UNCHANGED <<sock, dpc>>
  BY <1>8 DEF Drain, LinkStep, LinkWrites, LinkFinishes, KillLink
<1>9. ASSUME NEW c \in Clients, ClientStep(c) PROVE UNCHANGED <<sock, dpc>>
  BY <1>9, ClientStepMoves DEF ClientMoves
<1> QED BY <1>1, <1>2, <1>3, <1>4, <1>5, <1>6, <1>7, <1>8, <1>9 DEF Next, DaemonStep, Finished, vars

(* One daemon owns the path: as long as no daemon has been killed, any daemon  *)
(* that has bound its socket is the one the path leads to (so there is at most  *)
(* one), however many start together and in whatever order they look at the     *)
(* file, probe it, remove it and bind.                                          *)
THEOREM PathHasOneOwner == Spec => []OneOwner
<1>1. Init => OwnerInv BY DEF Init, OwnerInv, Bound
<1>2. IInv /\ OwnerInv /\ [Next]_vars => OwnerInv' BY OwnerStep
<1>3. OwnerInv => OneOwner BY DEF OwnerInv, OneOwner
<1> QED BY <1>1, <1>2, <1>3, Invariant, PTL DEF Spec

=============================================================================
