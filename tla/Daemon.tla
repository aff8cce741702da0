------------------------------- MODULE Daemon -------------------------------
(***************************************************************************)
(* The linker daemon: `wild --serve` processes that compete for one socket *)
(* path, the `wild` and `wild-client` commands that hand their link to it, *)
(* and the forked (or in-process) links.  File descriptors are part of the *)
(* model: a forked link inherits the listening socket and the connection   *)
(* it serves, so both outlive a daemon that is killed.                     *)
(***************************************************************************)
EXTENDS Integers, Sequences, Functions

CONSTANTS
    Daemons,      \* the `wild --serve` processes
    Clients,      \* the link commands, with WILD_SERVER set to the socket path
    HasFallback,  \* those that are `wild` and not `wild-client`
    Stalled,      \* those that connect and then never send a request
    InProcess,    \* possible values of WILD_DAEMON_INPROCESS in a daemon's environment
    ClientEnv,    \* clients whose own environment has WILD_DAEMON_INPROCESS=1
    Outputs,      \* how much a link may write to stderr and stdout
    PipeCap,      \* capacity of a pipe
    MaxStream,    \* MAX_STREAM_BYTES
    Backlog,      \* length of the listen queue
    Outcomes,     \* how a link may end by itself: "ok", "error", "panic"
    Faults,       \* which of "kill", "signal", "fork", "crash" may happen
    None

ASSUME DaemonAssumption ==
    /\ Daemons \cap Clients = {} /\ None \notin Daemons \cup Clients
    /\ HasFallback \subseteq Clients /\ Stalled \subseteq Clients /\ ClientEnv \subseteq Clients
    /\ InProcess \subseteq BOOLEAN
    /\ Outputs \subseteq Nat /\ {PipeCap, MaxStream, Backlog} \subseteq Nat
    /\ Outcomes \subseteq {"ok", "error", "panic"}
    /\ Faults \subseteq {"kill", "signal", "fork", "crash"}
    /\ None \notin {"ok", "error", "panic", "signal"}

VARIABLES
    sock,     \* the socket file: the daemon that bound it, or None
    dpc,      \* what each daemon is doing
    inproc,   \* WILD_DAEMON_INPROCESS in the daemon's environment
    backlog,  \* the listen queue of each daemon's socket
    cur,      \* the connection a daemon is serving
    link,     \* the link a daemon started
    got,      \* captured output, of the answer being prepared
    cpc,      \* what each client is doing
    con,      \* the daemon whose socket a client is connected to
    reply,    \* the answer in the connection
    exit,     \* exit code
    last      \* how the last link of each client ended

daemonVars == <<sock, dpc, inproc, backlog, cur, link, got>>
clientVars == <<cpc, con, reply, exit, last>>
vars == <<sock, dpc, inproc, backlog, cur, link, got, cpc, con, reply, exit, last>>

NoLink == [for |-> None, forked |-> FALSE, left |-> 0, pipe |-> 0, end |-> None]

Alive(d) == dpc[d] \notin {"off", "refused", "failed", "killed"}
Bound(d) == dpc[d] \in {"accept", "read", "wait", "inproc", "respond"}
Running(d) == link[d].for # None /\ link[d].end = None

\* A forked link shares the listening socket and the connection it serves.
ListenerOpen(d) == Bound(d) \/ (Running(d) /\ link[d].forked)

\* (mutant) the forked link closes the connection it inherited
ServerEndOpen_closed(c) ==
    LET d == con[c]
    IN  \/ c \in Range(backlog[d]) /\ ListenerOpen(d)
        \/ cur[d] = c /\ Alive(d)

ServerEndOpen(c) ==
    LET d == con[c]
    IN  \/ c \in Range(backlog[d]) /\ ListenerOpen(d)
        \/ cur[d] = c /\ Alive(d)
        \/ link[d].for = c /\ link[d].forked /\ Running(d)

CanConnect == sock # None /\ ListenerOpen(sock)

Init ==
    /\ sock = None
    /\ dpc = [d \in Daemons |-> "off"]
    /\ inproc \in [Daemons -> InProcess]
    /\ backlog = [d \in Daemons |-> <<>>]
    /\ cur = [d \in Daemons |-> None]
    /\ link = [d \in Daemons |-> NoLink]
    /\ got = [d \in Daemons |-> 0]
    /\ cpc = [c \in Clients |-> "start"]
    /\ con = [c \in Clients |-> None]
    /\ reply = [c \in Clients |-> None]
    /\ exit = [c \in Clients |-> -1]
    /\ last = [c \in Clients |-> "none"]

-----------------------------------------------------------------------------
(* serve: one action per system call on the socket path.                   *)

Exists(d) ==
    /\ dpc[d] = "off"
    /\ dpc' = [dpc EXCEPT ![d] = IF sock = None THEN "bind" ELSE "probe"]
    /\ UNCHANGED <<sock, inproc, backlog, cur, link, got, clientVars>>

\* A successful connect leaves a closed connection in the other queue.
Probe(d) ==
    /\ dpc[d] = "probe"
    /\ IF CanConnect
       THEN /\ Len(backlog[sock]) < Backlog
            /\ backlog' = [backlog EXCEPT ![sock] = Append(@, d)]
            /\ dpc' = [dpc EXCEPT ![d] = "refused"]
       ELSE dpc' = [dpc EXCEPT ![d] = "remove"] /\ UNCHANGED backlog
    /\ UNCHANGED <<sock, inproc, cur, link, got, clientVars>>

RemoveStale(d) ==
    /\ dpc[d] = "remove"
    /\ sock' = None
    /\ dpc' = [dpc EXCEPT ![d] = "bind"]
    /\ UNCHANGED <<inproc, backlog, cur, link, got, clientVars>>

\* (mutant) binds over an existing file
Bind_over(d) ==
    /\ dpc[d] = "bind"
    /\ sock' = d /\ dpc' = [dpc EXCEPT ![d] = "accept"]
    /\ UNCHANGED <<inproc, backlog, cur, link, got, clientVars>>

Bind(d) ==
    /\ dpc[d] = "bind"
    /\ IF sock = None
       THEN sock' = d /\ dpc' = [dpc EXCEPT ![d] = "accept"]
       ELSE dpc' = [dpc EXCEPT ![d] = "failed"] /\ UNCHANGED sock
    /\ UNCHANGED <<inproc, backlog, cur, link, got, clientVars>>

Accept(d) ==
    /\ dpc[d] = "accept" /\ backlog[d] # <<>>
    /\ cur' = [cur EXCEPT ![d] = Head(backlog[d])]
    /\ backlog' = [backlog EXCEPT ![d] = Tail(@)]
    /\ dpc' = [dpc EXCEPT ![d] = "read"]
    /\ UNCHANGED <<sock, inproc, link, got, clientVars>>

(* handle_one.                                                             *)

NextConnection(d) == /\ dpc' = [dpc EXCEPT ![d] = "accept"]
                     /\ cur' = [cur EXCEPT ![d] = None]

\* (mutant) reads the closed connection again
ConnectionError_again(d) == dpc[d] = "read" /\ cur[d] \in Daemons /\ UNCHANGED vars

\* The peer closed the connection before a whole request, or fork failed:
\* logged, and the connection is dropped.
ConnectionError(d) ==
    /\ dpc[d] = "read"
    /\ \/ cur[d] \in Daemons
       \/ "fork" \in Faults /\ cur[d] \in Clients /\ cpc[cur[d]] = "sent"
    /\ NextConnection(d)
    /\ UNCHANGED <<sock, inproc, backlog, link, got, clientVars>>

StartLink(d, forked) ==
    \E n \in Outputs :
        link' = [link EXCEPT ![d] = [for |-> cur[d], forked |-> forked, left |-> n,
                                     pipe |-> 0, end |-> None]]

run_link_in_child(d) ==
    /\ dpc[d] = "read" /\ cur[d] \in Clients /\ cpc[cur[d]] = "sent" /\ ~inproc[d]
    /\ StartLink(d, TRUE)
    /\ dpc' = [dpc EXCEPT ![d] = "wait"]
    /\ UNCHANGED <<sock, inproc, backlog, cur, got, clientVars>>

\* run_link_directly replaces the daemon's environment by the client's.
run_link_in_process(d) ==
    /\ dpc[d] = "read" /\ cur[d] \in Clients /\ cpc[cur[d]] = "sent" /\ inproc[d]
    /\ StartLink(d, FALSE)
    /\ inproc' = [inproc EXCEPT ![d] = cur[d] \in ClientEnv]
    /\ dpc' = [dpc EXCEPT ![d] = "inproc"]
    /\ UNCHANGED <<sock, backlog, cur, got, clientVars>>

\* The two reader threads of a forked link.
Drain(d) ==
    /\ dpc[d] = "wait" /\ link[d].pipe > 0
    /\ link' = [link EXCEPT ![d].pipe = @ - 1]
    /\ got' = [got EXCEPT ![d] = @ + 1]
    /\ UNCHANGED <<sock, dpc, inproc, backlog, cur, clientVars>>

\* waitpid and join; or the return of an in-process link, drained only now.
LinkReturned(d) ==
    /\ dpc[d] \in {"wait", "inproc"} /\ link[d].end # None
    /\ dpc[d] = "wait" => link[d].pipe = 0
    /\ got' = [got EXCEPT ![d] = @ + link[d].pipe]
    /\ dpc' = [dpc EXCEPT ![d] = "respond"]
    /\ UNCHANGED <<sock, inproc, backlog, cur, link, clientVars>>

exit_code(end) == CASE end = "ok" -> 0
                    [] end = "error" -> 1
                    [] end = "panic" -> 101
                    [] end = "signal" -> 128 + 9

\* The message of an in-process link that failed goes to the daemon's stderr,
\* which has been restored by then.
write_response(d) ==
    /\ dpc[d] = "respond"
    /\ reply' = [reply EXCEPT ![cur[d]] =
                    [code |-> exit_code(link[d].end), size |-> got[d],
                     message |-> link[d].forked /\ link[d].end = "error"]]
    /\ link' = [link EXCEPT ![d] = NoLink]
    /\ got' = [got EXCEPT ![d] = 0]
    /\ NextConnection(d)
    /\ UNCHANGED <<sock, inproc, backlog, cpc, con, exit, last>>

-----------------------------------------------------------------------------
(* The link itself.                                                        *)

LinkEnds(d, how) ==
    /\ link' = [link EXCEPT ![d].end = how]
    /\ last' = [last EXCEPT ![link[d].for] = how]

\* A write blocks while the pipe is full; without a reader it fails.
LinkWrites(d) ==
    /\ Running(d) /\ link[d].left > 0
    /\ \/ /\ Alive(d) /\ link[d].pipe < PipeCap
          /\ link' = [link EXCEPT ![d].left = @ - 1, ![d].pipe = @ + 1]
          /\ UNCHANGED last
       \/ ~Alive(d) /\ LinkEnds(d, "panic")
    /\ UNCHANGED <<sock, dpc, inproc, backlog, cur, got, cpc, con, reply, exit>>

LinkFinishes(d) ==
    /\ Running(d) /\ link[d].left = 0
    /\ \E how \in Outcomes : LinkEnds(d, how)
    /\ UNCHANGED <<sock, dpc, inproc, backlog, cur, got, cpc, con, reply, exit>>

KillLink(d) ==
    /\ "signal" \in Faults /\ Running(d) /\ link[d].forked
    /\ LinkEnds(d, "signal")
    /\ UNCHANGED <<sock, dpc, inproc, backlog, cur, got, cpc, con, reply, exit>>

\* The socket file stays; a forked link goes on, an in-process one does not.
KillDaemon(d) ==
    /\ "kill" \in Faults /\ Alive(d)
    /\ dpc' = [dpc EXCEPT ![d] = "killed"]
    /\ IF Running(d) /\ ~link[d].forked THEN LinkEnds(d, "signal") ELSE UNCHANGED <<link, last>>
    /\ UNCHANGED <<sock, inproc, backlog, cur, got, cpc, con, reply, exit>>

-----------------------------------------------------------------------------
(* The commands: dispatch_to_daemon in `wild`, main in `wild-client`.      *)

\* Any failure to get an answer: `wild` links directly, `wild-client` gives up.
NoAnswer(c) ==
    IF c \in HasFallback
    THEN cpc' = [cpc EXCEPT ![c] = "direct"] /\ UNCHANGED exit
    ELSE cpc' = [cpc EXCEPT ![c] = "done"] /\ exit' = [exit EXCEPT ![c] = 1]

Connect(c) ==
    /\ cpc[c] = "start"
    /\ IF CanConnect
       THEN /\ Len(backlog[sock]) < Backlog
            /\ backlog' = [backlog EXCEPT ![sock] = Append(@, c)]
            /\ con' = [con EXCEPT ![c] = sock]
            /\ cpc' = [cpc EXCEPT ![c] = "connected"]
            /\ UNCHANGED exit
       ELSE NoAnswer(c) /\ UNCHANGED <<backlog, con>>
    /\ UNCHANGED <<sock, dpc, inproc, cur, link, got, reply, last>>

write_request(c) ==
    /\ cpc[c] = "connected" /\ c \notin Stalled
    /\ IF ServerEndOpen(c)
       THEN cpc' = [cpc EXCEPT ![c] = "sent"] /\ UNCHANGED exit
       ELSE NoAnswer(c)
    /\ UNCHANGED <<daemonVars, con, reply, last>>

read_response(c) ==
    /\ cpc[c] = "sent"
    /\ \/ /\ reply[c] # None /\ reply[c].size <= MaxStream
          /\ cpc' = [cpc EXCEPT ![c] = "done"]
          /\ exit' = [exit EXCEPT ![c] = reply[c].code]
       \/ reply[c] # None /\ reply[c].size > MaxStream /\ NoAnswer(c)
       \/ reply[c] = None /\ ~ServerEndOpen(c) /\ NoAnswer(c)
    /\ UNCHANGED <<daemonVars, con, reply, last>>

DirectLink(c) ==
    /\ cpc[c] = "direct"
    /\ cpc' = [cpc EXCEPT ![c] = "linking"]
    /\ UNCHANGED <<daemonVars, con, reply, exit, last>>

\* The forked linker of run_in_subprocess: it tells its parent that it is
\* done, fails, or is killed.
subprocess_result(c) ==
    /\ cpc[c] = "linking"
    /\ \E how \in Outcomes \cup (IF "crash" \in Faults THEN {"signal"} ELSE {}) :
           last' = [last EXCEPT ![c] = how]
    /\ cpc' = [cpc EXCEPT ![c] = "ended"]
    /\ UNCHANGED <<daemonVars, con, reply, exit>>

\* WEXITSTATUS of the status waitpid returned, which is 0 for a signal.
WEXITSTATUS(end) == CASE end \in {"ok", "signal"} -> 0
                      [] end = "error" -> 255
                      [] end = "panic" -> 101

wait_for_child_done(c) ==
    /\ cpc[c] = "ended"
    /\ cpc' = [cpc EXCEPT ![c] = "done"]
    /\ exit' = [exit EXCEPT ![c] = WEXITSTATUS(last[c])]
    /\ UNCHANGED <<daemonVars, con, reply, last>>

-----------------------------------------------------------------------------
DaemonStep(d) ==
    \/ Probe(d) \/ RemoveStale(d) \/ Bind(d) \/ Accept(d) \/ ConnectionError(d)
    \/ run_link_in_child(d) \/ run_link_in_process(d) \/ LinkReturned(d) \/ write_response(d)

LinkStep(d) == LinkWrites(d) \/ LinkFinishes(d)

ClientStep(c) ==
    \/ Connect(c) \/ write_request(c) \/ read_response(c)
    \/ DirectLink(c) \/ subprocess_result(c) \/ wait_for_child_done(c)

Finished == /\ \A d \in Daemons : dpc[d] \in {"off", "refused", "failed", "killed", "accept"}
            /\ \A c \in Clients : cpc[c] = "done"
            /\ UNCHANGED vars

Next ==
    \/ \E d \in Daemons : Exists(d) \/ DaemonStep(d) \/ Drain(d) \/ LinkStep(d)
                          \/ KillLink(d) \/ KillDaemon(d)
    \/ \E c \in Clients : ClientStep(c)
    \/ Finished

Spec == Init /\ [][Next]_vars

\* Processes and threads run; nobody has to start, kill or be killed.
FairSpec == /\ Spec
            /\ \A d \in Daemons : /\ WF_vars(DaemonStep(d))
                                  /\ WF_vars(Drain(d))
                                  /\ WF_vars(LinkStep(d))
            /\ \A c \in Clients : WF_vars(ClientStep(c))

-----------------------------------------------------------------------------
(* Properties.                                                             *)

Outcome == {"none", "ok", "error", "panic", "signal"}

Linking(c) == cpc[c] = "linking" \/ \E d \in Daemons : link[d].for = c /\ Running(d)

Service == INSTANCE LinkService WITH
    Outcomes <- Outcome \ {"none"}, code <- exit,
    job <- [c \in Clients |-> IF cpc[c] = "done" THEN "done" ELSE IF Linking(c) THEN "linking" ELSE "idle"]

\* However daemons and links are killed, a command's links never overlap (a
\* fallback starts only when the link it replaces is over) and its exit code
\* is 0 exactly when its last link succeeded.
ImplementsService == Service!Spec

\* No command waits for ever: every one exits, whether its daemon answers,
\* fails to fork, or is killed while it serves or queues the connection.
EveryClientExits == \A c \in Clients : <>(cpc[c] = "done")

\* Of daemons that start while no socket file is left over, one serves; it
\* is the one the path leads to, and the probes of the others do not stop it.
OneOwner == \A d \in Daemons : Bound(d) /\ (\A e \in Daemons : dpc[e] # "killed") => sock = d

(* Statements of the repository that its code does not live up to.         *)

\* serve: when the probe succeeds, "another live daemon owns the path and we
\* refuse to clobber it".
NoClobber == [][sock # None /\ Bound(sock) => sock' = sock]_vars

\* serve: a probe that succeeds means that "another live daemon owns the path".
RefusedByLiveDaemon ==
    [][\A d \in Daemons : dpc'[d] = "refused" /\ dpc[d] = "probe" => Alive(sock)]_vars

\* serve: connection errors are non-fatal, "so a buggy client can't take down
\* the daemon": every other client is served.
BuggyClientHarmless == \A c \in Clients \ Stalled : <>(cpc[c] = "done")

\* handle_one: WILD_DAEMON_INPROCESS=1 "keeps each link in the daemon's own process".
EachLinkInProcess == \A d \in Daemons : Running(d) => ~link[d].forked

\* run_link_in_process: a link error is written to stderr "so the caller
\* (rustc -> cargo) can show it".
ErrorReachesCaller ==
    \A c \in Clients : reply[c] # None /\ reply[c].code = 1 => reply[c].message

\* drain_fd_nonblocking: "drains everything immediately and never blocks",
\* since "anything the link produced is already in the pipe buffer".
InProcessAnswers == \A d \in Daemons : dpc[d] = "inproc" ~> dpc[d] # "inproc"

\* wait_for_child_done: a child that crashes closes the pipe, and the parent
\* waits for it, "returning its exit code"; only the byte means that it succeeded.
CrashIsReported == \A c \in Clients : cpc[c] = "done" /\ exit[c] = 0 => last[c] = "ok"
=============================================================================
