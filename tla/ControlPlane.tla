---------------------------- MODULE ControlPlane ----------------------------
(***************************************************************************)
(* Daemon processes, the handlers of their connections, and the settings   *)
(* that those handlers change: Daemon and Settings composed.  A handler    *)
(* that has decoded a set-config runs it (Settings) before it responds     *)
(* (Daemon); a server that closes cancels the store calls of its handlers; *)
(* a start loads what earlier processes persisted.                         *)
(***************************************************************************)
EXTENDS Daemon, Settings

ASSUME SameNamesAssumption == Holders = Procs /\ Callers = Conns

vars == <<daemonVars, settingsVars>>

Init == DaemonInit /\ SettingsInit

Server(step) == step /\ UNCHANGED settingsVars

-----------------------------------------------------------------------------
\* A key that cannot be read keeps its configured value; that is logged, not fatal.  Each is
\* read on its own, and each that cannot be is an event.
StartDaemon(p) ==
    /\ Boot(p)
    /\ \E config \in {c \in Configs : ValidConfig(c)}, unread \in SUBSET KeySet :
          /\ Events(1 + Cardinality(unread))
          /\ LoadSettings(p, config, KeySet \ unread)
    /\ UNCHANGED <<rows, call, told>>

Listen(p) == Server(GuardSingleInstance(p) \/ RemoveStale(p) \/ Bind(p)
                    \/ Chmod(p) \/ Publish(p) \/ VerifyFails(p) \/ Abandon(p))

AcceptLoop(p) == Server((\E c \in Conns : Register(p, c)) \/ AcceptFails(p))

\* Any other request leaves the settings alone, as a set-config that is refused does.
Request(c) == Decode(c) /\ \E patch \in Patches[c] : BeginSet(c, conn[c].at, patch)

\* The context of a handler's store calls.
Cancelled(p) == signalled[p] \/ closing[p]

SetStep(c) ==
    \/ ApplySettings(c) /\ UNCHANGED daemonVars
    \/ PersistField(c) /\ ~Cancelled(call[c].p) /\ UNCHANGED daemonVars
    \/ PersistFails(c) /\ Cancelled(call[c].p) /\ UNCHANGED daemonVars

StoreFails(c) ==
    /\ PersistFails(c) /\ ~Cancelled(call[c].p)
    /\ Event /\ UNCHANGED <<procVars, file, conn>>

Handler(c) == SetStep(c) \/ (Respond(c) /\ Answer(c)) \/ Server(DecodeFails(c))

Close(p) == Server(BeginClose(p) \/ CloseListener(p) \/ ConnsDrained(p) \/ RemoveSocket(p))

End(p) == (Exit(p) \/ Kill(p)) /\ Forget(p)

Next ==
    \/ \E p \in Procs :
          \/ StartDaemon(p) \/ Listen(p) \/ AcceptLoop(p) \/ Close(p) \/ End(p)
          \/ Server(Signal(p) \/ CloseActive(p) \/ \E c \in Conns : AcceptConn(p, c))
    \/ \E c \in Conns : Request(c) \/ Handler(c) \/ StoreFails(c)

(***************************************************************************)
(* Goroutines are scheduled, a read has its deadline, a store call and a   *)
(* write return.  No one has to connect, to send, to signal or to start,   *)
(* and no late answer or error has to happen (those are events).           *)
(***************************************************************************)
Runs(p) ==
    /\ Listen(p) \/ AcceptLoop(p) \/ Close(p) \/ (Exit(p) /\ Forget(p))
    /\ UNCHANGED events

Fairness ==
    /\ \A p \in Procs : WF_vars(Runs(p))
    /\ WF_vars(\E c \in Conns : Handler(c))

Spec == Init /\ [][Next]_vars /\ Fairness

-----------------------------------------------------------------------------
TypeOK ==
    /\ \A p \in Procs :
          /\ main[p] \in {"down", "serve", "unbind", "wait", "force", "remove", "drain"}
          /\ accept[p] \in {"none", "ask", "unlink", "bind", "chmod", "verify", "abandon",
                            "loop", "register", "returned"}
          /\ listener[p] \in {"none", "open", "closed"}
          /\ known[p] \in BOOLEAN /\ closing[p] \in BOOLEAN /\ signalled[p] \in BOOLEAN
          /\ found[p] \in {"nothing", "stale", "late"}
          /\ main[p] # "down" => \A k \in KeySet : Allowed(k, live[p][k])
    /\ socket \in Procs \cup {NoProc} /\ private \in BOOLEAN
    /\ \A c \in Conns :
          /\ conn[c].pc \in {"none", "accepted", "reading", "dispatch", "done"}
          /\ conn[c].at \in Procs \cup {NoProc}
          /\ call[c].pc \in {"none", "apply", "persist", "ok", "error", "done"}
    /\ \A k \in DOMAIN rows : k \in KeySet /\ Allowed(k, rows[k])
    /\ events \in 0..MaxEvents

(***************************************************************************)
(* Once Close waits for the handlers, no connection joins them: the wait   *)
(* group's Add never meets its Wait (server.go's use of closing).          *)
(***************************************************************************)
NoAddAfterWait ==
    [][\A p \in Procs : main[p] \in {"wait", "force"} /\ main'[p] # "down"
          => Handled(p)' \subseteq Handled(p)]_vars

(***************************************************************************)
(* No handler is left when Close returns, though it stops waiting politely *)
(* after a time: no request reaches a manager that shuts down.             *)
(***************************************************************************)
NoHandlerAfterClose ==
    \A p \in Procs : main[p] \in {"remove", "drain"} => Handled(p) = {}

(***************************************************************************)
(* A daemon that is bound loses its socket file in four ways only: another *)
(* one that was already shutting down removes it by its path; another one  *)
(* asked when nobody answered, and this one bound since; this one answered *)
(* the other's ping too late; or another one could not secure the socket   *)
(* it had bound, and gives up a path that is this one's by now.            *)
(***************************************************************************)
SocketTakenOnlyBy ==
    [][\A p \in Procs :
          Alive(p) /\ socket = p /\ socket' # p =>
             \E q \in Procs \ {p} :
                \/ main[q] \in {"unbind", "remove"} /\ closing[q]
                \/ accept[q] = "unlink" /\ found[q] \in {"stale", "late"}
                \/ accept[q] = "abandon"]_vars

\* Close came before Serve had published its listener: nothing will end the accept loop.
Wedged(p) == main[p] = "drain" /\ listener[p] = "open" /\ known[p] /\ closing[p]

(***************************************************************************)
(* A daemon that is told to stop, or that is refused the socket, ends.  It *)
(* does so whatever its handlers and clients do; not when Close found no   *)
(* listener yet.                                                           *)
(***************************************************************************)
StopEnds ==
    \A p \in Procs :
        signalled[p] \/ accept[p] = "returned" ~> main[p] = "down" \/ Wedged(p)

(***************************************************************************)
(* A set-config that ran alone and was answered with success is persisted  *)
(* as it was answered, whatever failed before or since, and although the   *)
(* values were stored and persisted one at a time.                         *)
(***************************************************************************)
AnsweredIsPersisted == told # NoSettings => rows = told

(***************************************************************************)
(* Such an answer survives a restart: the next daemon starts with it,      *)
(* whatever its configuration says by then, but for the rows it cannot     *)
(* read.                                                                   *)
(***************************************************************************)
AnsweredSurvives ==
    [][\A p \in Procs :
          main[p] = "down" /\ main'[p] = "serve" /\ told # NoSettings =>
             \E unread \in SUBSET KeySet :
                /\ events' = events + 1 + Cardinality(unread)
                /\ \A k \in KeySet \ unread : live'[p][k] = told[k]]_vars
=============================================================================
