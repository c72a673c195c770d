------------------------------- MODULE Daemon -------------------------------
(***************************************************************************)
(* gidmd processes that contend for one control socket: how one is         *)
(* started, guards against another, binds, accepts, and is stopped.        *)
(*                                                                         *)
(* cmd/gidmd/main.go starts the manager and then Serve in a goroutine of   *)
(* its own (internal/apiserver/server.go, socket.go); a signal, or the     *)
(* return of Serve, makes main close the server, shut the manager down and *)
(* wait for Serve.  A client, the desktop application among them, may      *)
(* start a daemon at any time.                                             *)
(*                                                                         *)
(* The socket file is the process whose listener it names, or that it      *)
(* named before that process died.  Its permissions are those of POSIX: on *)
(* Windows secureSocket does nothing (socket_windows.go).                  *)
(***************************************************************************)
EXTENDS Naturals, FiniteSets

CONSTANTS
    Procs,      \* the daemon processes that may be started: numbers
    Conns,      \* the connections that clients make, one request each: numbers too
    NoProc,     \* no process: no socket file, no connection
    MaxEvents   \* bound: starts, connections, signals and faults (kills, late answers,
                \* errors, a file system without permissions) in one behaviour

ASSUME DaemonAssumption ==
    /\ IsFiniteSet(Procs) /\ Procs \subseteq Nat \ {0} /\ Conns \subseteq Nat /\ IsFiniteSet(Conns)
    /\ NoProc \notin Procs
    /\ MaxEvents \in Nat

VARIABLES
    main,       \* main[p]: where serve() of p is
    accept,     \* accept[p]: where Serve's goroutine is
    listener,   \* listener[p]: the listening socket itself
    known,      \* known[p]: Server.listener is set, so Close can find it
    closing,    \* closing[p]: Server.closing
    signalled,  \* signalled[p]: the signal context is cancelled
    socket,     \* the process the socket file belongs to, or NoProc
    private,    \* the socket file has mode 0600
    found,      \* history: what p's guard took for stale: a socket that nobody answered
                \* on, or a live daemon that answered too late
    conn,       \* conn[c]: a connection's handler, and its daemon
    events      \* starts, connections, signals and faults so far

procVars   == <<main, accept, listener, known, closing, signalled, found>>
file       == <<socket, private>>
daemonVars == <<procVars, file, conn, events>>

NoConn == [pc |-> "none", at |-> NoProc]

DaemonInit ==
    /\ main = [p \in Procs |-> "down"] /\ accept = [p \in Procs |-> "none"]
    /\ listener = [p \in Procs |-> "none"] /\ known = [p \in Procs |-> FALSE]
    /\ closing = [p \in Procs |-> FALSE] /\ signalled = [p \in Procs |-> FALSE]
    /\ found = [p \in Procs |-> "nothing"]
    /\ socket = NoProc /\ private = FALSE /\ conn = [c \in Conns |-> NoConn]
    /\ events = 0

Events(n) == events + n <= MaxEvents /\ events' = events + n
Event == Events(1)

Main(p, from, to)   == main[p] = from /\ main' = [main EXCEPT ![p] = to]
Accept(p, from, to) == accept[p] = from /\ accept' = [accept EXCEPT ![p] = to]

\* What is removed is whatever the path names by now.
Unlink == socket' = NoProc /\ private' = FALSE

\* The handlers that conns counts.
Handled(p) == {c \in Conns : conn[c].at = p /\ conn[c].pc \in {"reading", "dispatch"}}

-----------------------------------------------------------------------------
(* Start, and the guard of Serve's listen.                                 *)

\* The manager has loaded the settings and started before Serve looks at the socket.  The
\* processes are interchangeable: the least one that is down goes next.
Boot(p) ==
    /\ \A q \in Procs : main[q] = "down" => p <= q
    /\ Main(p, "down", "serve") /\ Accept(p, "none", "ask")
    /\ UNCHANGED <<listener, known, closing, signalled, found, file, conn>>

\* A ping is answered once the daemon accepts, and until it closes.
Answers(q) == q # NoProc /\ accept[q] \in {"loop", "register"} /\ ~closing[q]

\* It is bound, and answers or is about to.
Alive(q) ==
    q # NoProc /\ listener[q] = "open" /\ ~closing[q] /\ accept[q] \notin {"abandon", "returned"}

\* Defect: the guard takes every socket it finds for a stale one.
GuardSingleInstance_NoPing(p) ==
    /\ Accept(p, "ask", IF socket = NoProc THEN "bind" ELSE "unlink")
    /\ found' = [found EXCEPT ![p] = IF Alive(socket) THEN "live" ELSE "stale"]
    /\ UNCHANGED <<main, listener, known, closing, signalled, file, conn, events>>

(***************************************************************************)
(* The guard.  Nothing is in the way, or it pings: a daemon that answers   *)
(* makes Serve refuse, where none does the socket is taken for stale; the  *)
(* answer of a live daemon may also come later than the guard waits.       *)
(***************************************************************************)
GuardSingleInstance(p) ==
    /\ \/ /\ socket = NoProc
          /\ Accept(p, "ask", "bind") /\ UNCHANGED <<found, events>>
       \/ /\ Answers(socket)
          /\ Accept(p, "ask", "returned") /\ UNCHANGED <<found, events>>
       \/ /\ socket # NoProc
          /\ Accept(p, "ask", "unlink")
          /\ found' = [found EXCEPT ![p] = IF Alive(socket) THEN "late" ELSE "stale"]
          /\ IF Alive(socket) THEN Event ELSE UNCHANGED events
    /\ UNCHANGED <<main, listener, known, closing, signalled, file, conn>>

\* Nothing there to remove is an error.
RemoveStale(p) ==
    /\ Accept(p, "unlink", IF socket = NoProc THEN "returned" ELSE "bind")
    /\ Unlink
    /\ UNCHANGED <<main, listener, known, closing, signalled, found, conn, events>>

\* The new file has the mode that the umask leaves it.
Bind(p) ==
    /\ IF socket = NoProc
         THEN /\ Accept(p, "bind", "chmod") /\ socket' = p /\ private' = FALSE
              /\ listener' = [listener EXCEPT ![p] = "open"]
         ELSE Accept(p, "bind", "returned") /\ UNCHANGED <<file, listener>>
    /\ UNCHANGED <<main, known, closing, signalled, found, conn, events>>

\* By the path: another daemon's file is made private as well, and none is an error.
Chmod(p) ==
    /\ Accept(p, "chmod", IF socket = NoProc THEN "abandon" ELSE "verify")
    /\ private' = (socket # NoProc)
    /\ UNCHANGED <<main, listener, known, closing, signalled, socket, found, conn, events>>

\* The file at the path is there and private.  Serve stores the listener where Close finds it.
Publish(p) ==
    /\ private
    /\ Accept(p, "verify", "loop") /\ known' = [known EXCEPT ![p] = TRUE]
    /\ UNCHANGED <<main, listener, closing, signalled, found, file, conn, events>>

\* It is gone, or another daemon's and not private yet; or the file system keeps no modes.
VerifyFails(p) ==
    /\ Accept(p, "verify", "abandon")
    /\ IF private THEN Event ELSE UNCHANGED events
    /\ UNCHANGED <<main, listener, known, closing, signalled, found, file, conn>>

\* Closing a UnixListener unlinks its path, whatever the path names by now.
Unbind(p) == listener' = [listener EXCEPT ![p] = "closed"] /\ Unlink

\* listen gives the socket up that it could not secure.
Abandon(p) ==
    /\ Accept(p, "abandon", "returned")
    /\ Unbind(p)
    /\ UNCHANGED <<main, known, closing, signalled, found, conn, events>>

-----------------------------------------------------------------------------
(* The accept loop and the handlers.                                       *)

AcceptConn(p, c) ==
    /\ socket = p /\ listener[p] = "open"
    /\ conn[c] = NoConn /\ \A d \in Conns : conn[d] = NoConn => c <= d
    /\ Accept(p, "loop", "register")
    /\ conn' = [conn EXCEPT ![c] = [pc |-> "accepted", at |-> p]] /\ Event
    /\ UNCHANGED <<main, listener, known, closing, signalled, found, file>>

\* Defect: the connection is registered without a look at closing.
Register_Unchecked(p, c) ==
    /\ conn[c] = [pc |-> "accepted", at |-> p]
    /\ Accept(p, "register", "loop")
    /\ conn' = [conn EXCEPT ![c].pc = "reading"]
    /\ UNCHANGED <<main, listener, known, closing, signalled, found, file, events>>

\* Under mu: a connection that comes after closing is dropped.
Register(p, c) ==
    /\ conn[c] = [pc |-> "accepted", at |-> p]
    /\ Accept(p, "register", "loop")
    /\ conn' = [conn EXCEPT ![c].pc = IF closing[p] THEN "done" ELSE "reading"]
    /\ UNCHANGED <<main, listener, known, closing, signalled, found, file, events>>

\* Accept's error ends the loop when the listener is closed; any other error does so only
\* when the context is cancelled, and is retried otherwise.
AcceptFails(p) ==
    /\ Accept(p, "loop", "returned")
    /\ IF listener[p] = "closed" THEN UNCHANGED events ELSE (signalled[p] \/ closing[p]) /\ Event
    /\ UNCHANGED <<main, listener, known, closing, signalled, found, file, conn>>

Handles(c, from, to) ==
    /\ conn[c].pc = from /\ conn' = [conn EXCEPT ![c].pc = to]
    /\ UNCHANGED <<procVars, file, events>>

\* A whole frame arrived, and the connection was not closed by closeActive.
Decode(c) == Handles(c, "reading", "dispatch") /\ main[conn[c].at] # "force"

\* No frame within the limits: answered as malformed.
DecodeFails(c) == Handles(c, "reading", "done")

\* Defect: the handler returns without counting itself out.
Respond_NoDone(c) == Handles(c, "dispatch", "dispatch")

\* The request is served and the response written or lost; the handler is done.
Respond(c) == Handles(c, "dispatch", "done")

-----------------------------------------------------------------------------
(* The stop: Close in its steps, then the manager, then Serve.             *)

Signal(p) ==
    /\ main[p] = "serve" /\ ~signalled[p] /\ Event
    /\ signalled' = [signalled EXCEPT ![p] = TRUE]
    /\ UNCHANGED <<main, accept, listener, known, closing, found, file, conn>>

\* serve()'s select: the signal, or Serve returned by itself.  Close's locked section comes
\* next; a server without a listener is left at that.
BeginClose(p) ==
    /\ signalled[p] \/ accept[p] = "returned"
    /\ Main(p, "serve", IF known[p] THEN "unbind" ELSE "drain")
    /\ closing' = [closing EXCEPT ![p] = TRUE]
    /\ UNCHANGED <<accept, listener, known, signalled, found, file, conn, events>>

CloseListener(p) ==
    /\ Main(p, "unbind", "wait")
    /\ Unbind(p)
    /\ UNCHANGED <<accept, known, closing, signalled, found, conn, events>>

\* The shutdown timeout: every open connection is closed under its handler.
CloseActive(p) ==
    /\ Handled(p) # {}
    /\ Main(p, "wait", "force")
    /\ UNCHANGED <<accept, listener, known, closing, signalled, found, file, conn, events>>

\* Defect: the timeout ends the wait.
ConnsDrained_TimesOut(p) ==
    /\ Main(p, "force", "remove") \/ (Handled(p) = {} /\ Main(p, "wait", "remove"))
    /\ UNCHANGED <<accept, listener, known, closing, signalled, found, file, conn, events>>

ConnsDrained(p) ==
    /\ Handled(p) = {}
    /\ Main(p, "wait", "remove") \/ Main(p, "force", "remove")
    /\ UNCHANGED <<accept, listener, known, closing, signalled, found, file, conn, events>>

\* By the path again: the backstop after the drain.
RemoveSocket(p) ==
    /\ Main(p, "remove", "drain")
    /\ Unlink
    /\ UNCHANGED <<accept, listener, known, closing, signalled, found, conn, events>>

Gone(p) ==
    /\ main' = [main EXCEPT ![p] = "down"] /\ accept' = [accept EXCEPT ![p] = "none"]
    /\ listener' = [listener EXCEPT ![p] = "none"] /\ known' = [known EXCEPT ![p] = FALSE]
    /\ closing' = [closing EXCEPT ![p] = FALSE] /\ signalled' = [signalled EXCEPT ![p] = FALSE]
    /\ found' = [found EXCEPT ![p] = "nothing"]
    /\ conn' = [c \in Conns |-> IF conn[c].at = p THEN [conn[c] EXCEPT !.pc = "done"] ELSE conn[c]]
    /\ UNCHANGED file

\* Manager.Shutdown returns, within its timeout; serve() returns once Serve's goroutine has.
Exit(p) == main[p] = "drain" /\ accept[p] = "returned" /\ Gone(p) /\ UNCHANGED events

\* The process dies, by a second signal for one; its socket file stays.
Kill(p) == main[p] # "down" /\ Event /\ Gone(p)
=============================================================================
