------------------------- MODULE ControlPlaneProofs -------------------------
(***************************************************************************)
(* What a daemon promises when it starts and stops beside others, and what *)
(* an answered set-config promises: for any number of processes, clients,  *)
(* keys, configurations and patches.                                       *)
(***************************************************************************)
EXTENDS ControlPlane, TLAPS, FiniteSetTheorems

MainPcs == {"down", "serve", "unbind", "wait", "force", "remove", "drain"}
AcceptPcs == {"none", "ask", "unlink", "bind", "chmod", "verify", "abandon",
              "loop", "register", "returned"}
ConnPcs == {"none", "accepted", "reading", "dispatch", "done"}

DaemonTypes ==
    /\ main \in [Procs -> MainPcs] /\ accept \in [Procs -> AcceptPcs]
    /\ listener \in [Procs -> {"none", "open", "closed"}]
    /\ known \in [Procs -> BOOLEAN] /\ closing \in [Procs -> BOOLEAN]
    /\ signalled \in [Procs -> BOOLEAN]
    /\ found \in [Procs -> {"nothing", "stale", "late"}]
    /\ socket \in Procs \cup {NoProc} /\ private \in BOOLEAN
    /\ conn \in [Conns -> [pc : ConnPcs, at : Procs \cup {NoProc}]]
    /\ events \in 0 .. MaxEvents

\* Serve's goroutine publishes the listener before it accepts, and only a bound one is open.
ServeInv ==
    \A p \in Procs :
        /\ main[p] = "down" => accept[p] = "none" /\ ~known[p]
        /\ accept[p] \in {"loop", "register"} => known[p]
        /\ accept[p] \in {"none", "ask", "unlink", "bind"} => listener[p] = "none" /\ ~known[p]
        /\ main[p] = "unbind" => known[p]
        /\ accept[p] = "unlink" => found[p] \in {"stale", "late"}

\* closing is set from Close's locked section on.
ClosingInv ==
    \A p \in Procs : closing[p] <=> main[p] \in {"unbind", "wait", "force", "remove", "drain"}

\* A connection belongs to a daemon that Close can find, which registers one at a time.
ConnInv ==
    \A c \in Conns :
        /\ conn[c].pc = "accepted" =>
              /\ conn[c].at \in Procs /\ accept[conn[c].at] = "register"
              /\ \A d \in Conns : conn[d].pc = "accepted" /\ conn[d].at = conn[c].at => d = c
        /\ conn[c].pc \in {"reading", "dispatch"} => conn[c].at \in Procs /\ known[conn[c].at]

DaemonInv == DaemonTypes /\ ServeInv /\ ClosingInv /\ ConnInv /\ NoHandlerAfterClose

USE DaemonAssumption, SameNamesAssumption

-----------------------------------------------------------------------------
(* The daemons.                                                            *)

\* Before any daemon starts.
LEMMA DaemonStarts == DaemonInit => DaemonInv
<1> SUFFICES ASSUME DaemonInit  PROVE DaemonInv
  OBVIOUS
<1>1. DaemonTypes
  <2>1. conn \in [Conns -> [pc : ConnPcs, at : Procs \cup {NoProc}]]
    BY DEF DaemonInit, NoConn, ConnPcs
  <2>2. main \in [Procs -> MainPcs] /\ accept \in [Procs -> AcceptPcs]
    BY DEF DaemonInit, MainPcs, AcceptPcs
  <2>3. /\ listener \in [Procs -> {"none", "open", "closed"}]
        /\ found \in [Procs -> {"nothing", "stale", "late"}] /\ socket \in Procs \cup {NoProc}
        /\ events \in 0 .. MaxEvents
    BY DEF DaemonInit
  <2>4. /\ known \in [Procs -> BOOLEAN] /\ closing \in [Procs -> BOOLEAN]
        /\ signalled \in [Procs -> BOOLEAN] /\ private \in BOOLEAN
    BY DEF DaemonInit
  <2> QED BY <2>1, <2>2, <2>3, <2>4 DEF DaemonTypes
<1>2. ServeInv /\ ClosingInv /\ ConnInv /\ NoHandlerAfterClose
  BY DEF DaemonInit, ServeInv, ClosingInv, ConnInv, NoHandlerAfterClose, Handled, NoConn
<1> QED BY <1>1, <1>2 DEF DaemonInv

\* One disjunct per action of Daemon.
Starts(p) == Boot(p) /\ \E n \in Nat : Events(1 + n)
Listens(p) == GuardSingleInstance(p) \/ RemoveStale(p) \/ Bind(p)
              \/ Chmod(p) \/ Publish(p) \/ VerifyFails(p) \/ Abandon(p)
Accepts(p) == (\E c \in Conns : AcceptConn(p, c) \/ Register(p, c)) \/ AcceptFails(p)
Handlers == \E c \in Conns : Decode(c) \/ DecodeFails(c) \/ Respond(c)
Closes(p) ==
    BeginClose(p) \/ CloseListener(p) \/ CloseActive(p) \/ ConnsDrained(p) \/ RemoveSocket(p)
Ends(p) == Exit(p) \/ Kill(p)
Counts == (Event \/ UNCHANGED events) /\ UNCHANGED <<procVars, file, conn>>
DaemonStep ==
    \/ Handlers \/ Counts
    \/ \E p \in Procs : Starts(p) \/ Listens(p) \/ Accepts(p) \/ Signal(p) \/ Closes(p) \/ Ends(p)

\* Connections keep their daemon while their loop is where it was and the listener known.
LEMMA ConnKept ==
    ASSUME DaemonInv, conn' = conn,
           \A q \in Procs : /\ accept[q] = "register" => accept'[q] = "register"
                            /\ known[q] => known'[q]
    PROVE  ConnInv'
  BY DEF DaemonInv, ConnInv

\* Serve's guard, bind and publication of the listener.
LEMMA ListenStep ==
    ASSUME DaemonInv, NEW p \in Procs, Listens(p)  PROVE DaemonInv'
<1> USE DEF DaemonInv, DaemonTypes, ServeInv, ClosingInv, ConnInv, NoHandlerAfterClose, Handled,
            MainPcs, AcceptPcs, ConnPcs, Accept, Event, Events, file, Unlink, Unbind
<1>1. CASE GuardSingleInstance(p)
  <2> USE <1>1 DEF GuardSingleInstance
  <2>1. DaemonTypes'
    OBVIOUS
  <2>2. ServeInv'
    OBVIOUS
  <2>3. ClosingInv'
    OBVIOUS
  <2>4. ConnInv'
    <3> \A q \in Procs : /\ accept[q] = "register" => accept'[q] = "register"
                         /\ known[q] => known'[q]
      OBVIOUS
    <3> QED BY ConnKept
  <2>5. NoHandlerAfterClose'
    OBVIOUS
  <2> QED BY <2>1, <2>2, <2>3, <2>4, <2>5
<1>2. CASE RemoveStale(p)
  <2> USE <1>2 DEF RemoveStale
  <2>1. DaemonTypes'
    OBVIOUS
  <2>2. ServeInv'
    OBVIOUS
  <2>3. ClosingInv'
    OBVIOUS
  <2>4. ConnInv'
    <3> \A q \in Procs : /\ accept[q] = "register" => accept'[q] = "register"
                         /\ known[q] => known'[q]
      OBVIOUS
    <3> QED BY ConnKept
  <2>5. NoHandlerAfterClose'
    OBVIOUS
  <2> QED BY <2>1, <2>2, <2>3, <2>4, <2>5
<1>3. CASE Bind(p)
  <2> USE <1>3 DEF Bind
  <2>1. DaemonTypes'
    <3>1. CASE socket = NoProc
      <4>1. accept' \in [Procs -> AcceptPcs] /\ listener' \in [Procs -> {"none", "open", "closed"}]
        BY <3>1
      <4>2. socket' \in Procs \cup {NoProc} /\ private' \in BOOLEAN
        BY <3>1
      <4> QED BY <4>1, <4>2
    <3>2. CASE socket # NoProc
      BY <3>2
    <3> QED BY <3>1, <3>2
  <2>2. ServeInv'
    OBVIOUS
  <2>3. ClosingInv'
    OBVIOUS
  <2>4. ConnInv'
    <3> \A q \in Procs : /\ accept[q] = "register" => accept'[q] = "register"
                         /\ known[q] => known'[q]
      OBVIOUS
    <3> QED BY ConnKept
  <2>5. NoHandlerAfterClose'
    OBVIOUS
  <2> QED BY <2>1, <2>2, <2>3, <2>4, <2>5
<1>4. CASE Chmod(p)
  <2> USE <1>4 DEF Chmod
  <2>1. DaemonTypes'
    OBVIOUS
  <2>2. ServeInv'
    OBVIOUS
  <2>3. ClosingInv'
    OBVIOUS
  <2>4. ConnInv'
    <3> \A q \in Procs : /\ accept[q] = "register" => accept'[q] = "register"
                         /\ known[q] => known'[q]
      OBVIOUS
    <3> QED BY ConnKept
  <2>5. NoHandlerAfterClose'
    OBVIOUS
  <2> QED BY <2>1, <2>2, <2>3, <2>4, <2>5
<1>5. CASE Publish(p)
  <2> USE <1>5 DEF Publish
  <2>1. DaemonTypes'
    OBVIOUS
  <2>2. ServeInv'
    OBVIOUS
  <2>3. ClosingInv'
    OBVIOUS
  <2>4. ConnInv'
    <3> \A q \in Procs : /\ accept[q] = "register" => accept'[q] = "register"
                         /\ known[q] => known'[q]
      OBVIOUS
    <3> QED BY ConnKept
  <2>5. NoHandlerAfterClose'
    OBVIOUS
  <2> QED BY <2>1, <2>2, <2>3, <2>4, <2>5
<1>6. CASE VerifyFails(p)
  <2> USE <1>6 DEF VerifyFails
  <2>1. DaemonTypes'
    OBVIOUS
  <2>2. ServeInv'
    OBVIOUS
  <2>3. ClosingInv'
    OBVIOUS
  <2>4. ConnInv'
    <3> \A q \in Procs : /\ accept[q] = "register" => accept'[q] = "register"
                         /\ known[q] => known'[q]
      OBVIOUS
    <3> QED BY ConnKept
  <2>5. NoHandlerAfterClose'
    OBVIOUS
  <2> QED BY <2>1, <2>2, <2>3, <2>4, <2>5
<1>7. CASE Abandon(p)
  <2> USE <1>7 DEF Abandon
  <2>1. DaemonTypes'
    OBVIOUS
  <2>2. ServeInv'
    OBVIOUS
  <2>3. ClosingInv'
    OBVIOUS
  <2>4. ConnInv'
    <3> \A q \in Procs : /\ accept[q] = "register" => accept'[q] = "register"
                         /\ known[q] => known'[q]
      OBVIOUS
    <3> QED BY ConnKept
  <2>5. NoHandlerAfterClose'
    OBVIOUS
  <2> QED BY <2>1, <2>2, <2>3, <2>4, <2>5
<1> QED BY <1>1, <1>2, <1>3, <1>4, <1>5, <1>6, <1>7 DEF Listens

\* The accept loop: an accepted connection is the only one its daemon is registering.
LEMMA AcceptStep ==
    ASSUME DaemonInv, NEW p \in Procs, Accepts(p)  PROVE DaemonInv'
<1> USE DEF DaemonInv, DaemonTypes, ServeInv, ClosingInv, ConnInv, NoHandlerAfterClose, Handled,
            MainPcs, AcceptPcs, ConnPcs, Accept, Event, Events, file
<1>1. ASSUME NEW c \in Conns, AcceptConn(p, c)  PROVE DaemonInv'
  BY <1>1 DEF AcceptConn, NoConn
<1>2. ASSUME NEW c \in Conns, Register(p, c)  PROVE DaemonInv'
  <2> USE <1>2 DEF Register
  <2>1. DaemonTypes'
    OBVIOUS
  <2>2. ServeInv'
    OBVIOUS
  <2>3. ClosingInv'
    OBVIOUS
  <2>4. ConnInv'
    <3> SUFFICES ASSUME NEW d \in Conns
                 PROVE  /\ conn'[d].pc = "accepted" =>
                              /\ conn'[d].at \in Procs /\ accept'[conn'[d].at] = "register"
                              /\ \A e \in Conns :
                                    conn'[e].pc = "accepted" /\ conn'[e].at = conn'[d].at => e = d
                        /\ conn'[d].pc \in {"reading", "dispatch"} =>
                              conn'[d].at \in Procs /\ known'[conn'[d].at]
      OBVIOUS
    <3>1. CASE d = c
      BY <3>1
    <3>2. CASE d # c
      BY <3>2
    <3> QED BY <3>1, <3>2
  <2>5. NoHandlerAfterClose'
    OBVIOUS
  <2> QED BY <2>1, <2>2, <2>3, <2>4, <2>5
<1>3. CASE AcceptFails(p)
  BY <1>3 DEF AcceptFails
<1> QED BY <1>1, <1>2, <1>3 DEF Accepts

\* Close in its steps: a server without a listener has no handler to wait for.
LEMMA CloseStep ==
    ASSUME DaemonInv, NEW p \in Procs, Closes(p)  PROVE DaemonInv'
<1> USE DEF DaemonInv, DaemonTypes, ServeInv, ClosingInv, ConnInv, NoHandlerAfterClose, Handled,
            MainPcs, AcceptPcs, ConnPcs, Main, Event, Events, file, Unlink, Unbind
<1>1. CASE BeginClose(p)
  <2> USE <1>1 DEF BeginClose
  <2>1. DaemonTypes'
    OBVIOUS
  <2>2. ServeInv'
    OBVIOUS
  <2>3. ClosingInv'
    OBVIOUS
  <2>4. ConnInv'
    OBVIOUS
  <2>5. NoHandlerAfterClose'
    <3> SUFFICES ASSUME NEW q \in Procs, main'[q] \in {"remove", "drain"}, NEW c \in Conns,
                        conn[c].at = q, conn[c].pc \in {"reading", "dispatch"}
                 PROVE  FALSE
      OBVIOUS
    <3>1. CASE q = p
      BY <3>1
    <3>2. CASE q # p
      BY <3>2
    <3> QED BY <3>1, <3>2
  <2> QED BY <2>1, <2>2, <2>3, <2>4, <2>5
<1>2. CASE CloseListener(p)
  <2> USE <1>2 DEF CloseListener
  <2>1. DaemonTypes'
    OBVIOUS
  <2>2. ServeInv'
    <3>1. accept' = accept /\ known' = known /\ found' = found
      OBVIOUS
    <3>2. \A q \in Procs : main'[q] \in {"down", "unbind"} => main[q] = main'[q]
      OBVIOUS
    <3>3. \A q \in Procs : listener[q] = "none" /\ ~known[q] => listener'[q] = "none"
      OBVIOUS
    <3> QED BY <3>1, <3>2, <3>3
  <2>3. ClosingInv'
    OBVIOUS
  <2>4. ConnInv'
    OBVIOUS
  <2>5. NoHandlerAfterClose'
    OBVIOUS
  <2> QED BY <2>1, <2>2, <2>3, <2>4, <2>5
<1>3. CASE CloseActive(p)
  BY <1>3 DEF CloseActive
<1>4. CASE ConnsDrained(p)
  BY <1>4 DEF ConnsDrained
<1>5. CASE RemoveSocket(p)
  <2> USE <1>5 DEF RemoveSocket
  <2>1. DaemonTypes'
    OBVIOUS
  <2>2. ServeInv'
    OBVIOUS
  <2>3. ClosingInv'
    OBVIOUS
  <2>4. ConnInv'
    OBVIOUS
  <2>5. NoHandlerAfterClose'
    OBVIOUS
  <2> QED BY <2>1, <2>2, <2>3, <2>4, <2>5
<1> QED BY <1>1, <1>2, <1>3, <1>4, <1>5 DEF Closes

\* A start, a signal, and the end of a process, which takes its connections along.
LEMMA GoneStep ==
    ASSUME DaemonInv, NEW p \in Procs, Starts(p) \/ Signal(p) \/ Ends(p)  PROVE DaemonInv'
<1> USE DEF DaemonInv, DaemonTypes, ServeInv, ClosingInv, ConnInv, NoHandlerAfterClose, Handled,
            MainPcs, AcceptPcs, ConnPcs, Main, Accept, Event, Events, file
<1>1. CASE Starts(p)
  <2>1. events' \in 0 .. MaxEvents
    BY <1>1 DEF Starts
  <2>2. DaemonTypes'
    BY <1>1, <2>1 DEF Starts, Boot
  <2>3. ServeInv' /\ ClosingInv' /\ NoHandlerAfterClose'
    BY <1>1 DEF Starts, Boot
  <2>4. ConnInv'
    BY <1>1 DEF Starts, Boot
  <2> QED BY <2>2, <2>3, <2>4
<1>2. CASE Signal(p)
  BY <1>2 DEF Signal
<1>3. CASE Ends(p)
  <2> USE <1>3 DEF Ends, Exit, Kill, Gone
  <2>1. DaemonTypes'
    <3>1. conn' \in [Conns -> [pc : ConnPcs, at : Procs \cup {NoProc}]]
      OBVIOUS
    <3>2. events' \in 0 .. MaxEvents
      OBVIOUS
    <3>3. main' \in [Procs -> MainPcs]
      OBVIOUS
    <3>4. accept' \in [Procs -> AcceptPcs]
      OBVIOUS
    <3>5. listener' \in [Procs -> {"none", "open", "closed"}]
      OBVIOUS
    <3>6. /\ known' \in [Procs -> BOOLEAN] /\ closing' \in [Procs -> BOOLEAN]
          /\ signalled' \in [Procs -> BOOLEAN]
      OBVIOUS
    <3>7. found' \in [Procs -> {"nothing", "stale", "late"}] /\ socket' = socket
      OBVIOUS
    <3> QED BY <3>1, <3>2, <3>3, <3>4, <3>5, <3>6, <3>7
  <2>2. ServeInv'
    OBVIOUS
  <2>3. ClosingInv'
    OBVIOUS
  <2>4. ConnInv'
    OBVIOUS
  <2>5. NoHandlerAfterClose'
    OBVIOUS
  <2> QED BY <2>1, <2>2, <2>3, <2>4, <2>5
<1> QED BY <1>1, <1>2, <1>3

\* The handlers.
LEMMA HandlerStep == ASSUME DaemonInv, Handlers \/ Counts  PROVE DaemonInv'
<1> USE DEF DaemonInv, DaemonTypes, ServeInv, ClosingInv, ConnInv, NoHandlerAfterClose, Handled,
            MainPcs, AcceptPcs, ConnPcs, Handles, procVars, Event, Events, file
<1>1. ASSUME NEW c \in Conns, Decode(c)  PROVE DaemonInv'
  BY <1>1 DEF Decode
<1>2. ASSUME NEW c \in Conns, DecodeFails(c)  PROVE DaemonInv'
  BY <1>2 DEF DecodeFails
<1>3. ASSUME NEW c \in Conns, Respond(c)  PROVE DaemonInv'
  BY <1>3 DEF Respond
<1>4. CASE Counts
  BY <1>4 DEF Counts
<1> QED BY <1>1, <1>2, <1>3, <1>4 DEF Handlers

\* Every step of the daemons keeps what is known of them.
LEMMA DaemonKeeps == ASSUME DaemonInv, DaemonStep  PROVE DaemonInv'
  BY ListenStep, AcceptStep, CloseStep, GoneStep, HandlerStep DEF DaemonStep
-----------------------------------------------------------------------------
(* The settings.                                                           *)

Values == [KeySet -> Nat]
Good(f) == f \in Values /\ \A k \in KeySet : Allowed(k, f[k])
CallPcs == {"none", "apply", "persist", "ok", "error", "done"}
CallType == [pc : CallPcs, p : Procs \cup {0}, wanted : Values \cup {NoSettings},
             left : Seq(KeySet), solo : BOOLEAN]
At(h, pcs) == call[h].pc \in pcs

SettingsTypes ==
    /\ live \in [Procs -> Values \cup {NoSettings}]
    /\ DOMAIN rows \subseteq KeySet /\ rows = [k \in DOMAIN rows |-> rows[k]]
    /\ \A k \in DOMAIN rows : rows[k] \in Nat /\ Allowed(k, rows[k])
    /\ call \in [Conns -> CallType]
    /\ told \in Values \cup {NoSettings}

\* A daemon that runs has a value for every key.
LiveInv == \A p \in Procs : main[p] # "down" => Good(live[p])

\* A call in progress is served by a daemon that runs, and asks for values that have a meaning.
CallInv ==
    \A h \in Conns :
        /\ At(h, {"apply", "persist", "ok"}) =>
              call[h].p \in Procs /\ main[call[h].p] # "down" /\ Good(call[h].wanted)
        /\ At(h, {"apply"}) => call[h].left = Keys
        /\ At(h, {"persist"}) => call[h].left # <<>>

\* A call that runs alone has what it wants live, and the keys it is through with persisted.
SoloInv ==
    \A h \in Conns : call[h].solo =>
        /\ At(h, {"apply", "persist", "ok"}) => InProgress = {h}
        /\ At(h, {"persist", "ok"}) => live[call[h].p] = call[h].wanted
        /\ At(h, {"persist"}) => \A k \in KeySet \ Range(call[h].left) :
                                   k \in DOMAIN rows /\ rows[k] = call[h].wanted[k]
        /\ At(h, {"ok"}) => rows = call[h].wanted

\* What was answered is persisted, and nobody is changing it.
ToldInv == told # NoSettings => InProgress = {} /\ rows = told /\ Good(told)

SettingsInv == SettingsTypes /\ LiveInv /\ CallInv /\ SoloInv /\ ToldInv

IInv == DaemonInv /\ SettingsInv

\* There is a key, so values are never mistaken for no values.
LEMMA KeysThere == KeySet # {} /\ NoSettings \notin Values /\ Range(Keys) = KeySet
  BY SettingsAssumption DEF KeySet, Range, Values, NoSettings

\* The keys left to a call are its next one and those after it.
LEMMA TailRange ==
    ASSUME NEW s \in Seq(KeySet), s # <<>>
    PROVE  /\ Head(s) \in KeySet /\ Tail(s) \in Seq(KeySet)
           /\ Range(s) = {Head(s)} \cup Range(Tail(s))
           /\ Tail(s) = <<>> => Range(s) = {Head(s)}
<1>1. Len(s) \in Nat \ {0} /\ s = <<Head(s)>> \o Tail(s)
  OBVIOUS
<1>2. Head(s) = s[1] /\ Tail(s) \in Seq(KeySet) /\ Len(Tail(s)) = Len(s) - 1
  OBVIOUS
<1>3. \A i \in 1 .. Len(s) - 1 : Tail(s)[i] = s[i + 1]
  OBVIOUS
<1>4. \A j \in 1 .. Len(s) : j = 1 \/ (j - 1 \in 1 .. Len(s) - 1 /\ s[j] = Tail(s)[j - 1])
  BY <1>3
<1>5. DOMAIN s = 1 .. Len(s) /\ DOMAIN Tail(s) = 1 .. Len(s) - 1
  BY <1>2
<1>6. ASSUME NEW x \in Range(s)  PROVE x \in {Head(s)} \cup Range(Tail(s))
  <2>1. PICK j \in 1 .. Len(s) : x = s[j]
    BY <1>5, <1>6 DEF Range
  <2> QED BY <2>1, <1>2, <1>4, <1>5 DEF Range
<1>7. Head(s) \in Range(s)
  BY <1>1, <1>2, <1>5 DEF Range
<1>8. ASSUME NEW x \in Range(Tail(s))  PROVE x \in Range(s)
  <2>1. PICK i \in 1 .. Len(s) - 1 : x = Tail(s)[i]
    BY <1>5, <1>8 DEF Range
  <2>2. i + 1 \in 1 .. Len(s) /\ s[i + 1] = x
    BY <2>1, <1>1, <1>3
  <2> QED BY <2>2, <1>5 DEF Range
<1>9. Tail(s) = <<>> => Range(Tail(s)) = {}
  BY DEF Range
<1>10. Range(s) = {Head(s)} \cup Range(Tail(s))
  BY <1>6, <1>7, <1>8
<1>11. Head(s) \in KeySet
  BY <1>1, <1>2
<1> QED BY <1>2, <1>9, <1>10, <1>11

\* Before anything is set.
LEMMA SettingsStart == SettingsInit /\ DaemonInit => SettingsInv
  BY KeysThere DEF SettingsInit, DaemonInit, SettingsInv, SettingsTypes, LiveInv, CallInv,
         SoloInv, ToldInv, CallType, NoSettings, NoCall, At, CallPcs, InProgress
\* Steps that leave the settings alone, and start and end no daemon.
LEMMA AloneStep ==
    ASSUME IInv, UNCHANGED settingsVars, \A p \in Procs : main'[p] = "down" <=> main[p] = "down"
    PROVE  SettingsInv'
  BY DEF IInv, DaemonInv, DaemonTypes, SettingsInv, SettingsTypes, LiveInv, CallInv, SoloInv,
         ToldInv, settingsVars, At, InProgress, Good

LEMMA NoCallRecord == NoCall.pc = "none" /\ NoCall.solo = FALSE /\ NoCall.p = 0
  BY DEF NoCall

LEMMA SoloCleared ==
    ASSUME NEW r \in CallType  PROVE [r EXCEPT !.solo = FALSE] \in CallType
  BY DEF CallType

\* The keys are finite, and so are those that cannot be read.
LEMMA KeysFinite == ASSUME NEW ks \in SUBSET KeySet  PROVE Cardinality(ks) \in Nat
<1>1. Keys \in Surjection(1 .. Len(Keys), KeySet)
  BY SettingsAssumption DEF KeySet, Range, Surjection
<1>2. IsFiniteSet(1 .. Len(Keys))
  BY SettingsAssumption, FS_Interval
<1>3. IsFiniteSet(KeySet)
  BY <1>1, <1>2, FS_Surjection
<1> QED BY <1>3, FS_Subset, FS_CardinalityType

\* A start loads a value with a meaning for every key, and disturbs no call.
LEMMA StartStep == ASSUME IInv, NEW p \in Procs, StartDaemon(p)  PROVE SettingsInv'
<1> USE DEF IInv, DaemonInv, DaemonTypes, SettingsInv, SettingsTypes, LiveInv, CallInv, SoloInv,
            ToldInv, At, InProgress
<1>1. PICK config \in Configs, readable \in SUBSET KeySet :
         ValidConfig(config) /\ LoadSettings(p, config, readable)
  <2>1. PICK config \in Configs, unread \in SUBSET KeySet :
           ValidConfig(config) /\ LoadSettings(p, config, KeySet \ unread)
    BY DEF StartDaemon
  <2> QED BY <2>1
<1>2. UNCHANGED <<rows, call, told>> /\ main[p] = "down" /\ main' = [main EXCEPT ![p] = "serve"]
  BY DEF StartDaemon, Boot, Main
<1>3. PICK f : f = [k \in KeySet |-> IF k \in readable \cap DOMAIN rows /\ Allowed(k, rows[k])
                                       THEN rows[k] ELSE Layered(config)[k]]
  OBVIOUS
<1>4. live' = [live EXCEPT ![p] = f]
  BY <1>1, <1>3 DEF LoadSettings
<1>5. Good(f)
  BY <1>1, <1>3, LayersAssumption DEF Good, Values, ValidConfig
<1>6. SettingsTypes' /\ LiveInv'
  BY <1>2, <1>4, <1>5 DEF Good
<1>7. CallInv'
  BY <1>2 DEF Good
<1>8. \A h \in Conns : At(h, {"apply", "persist", "ok"}) => call[h].p # p
  BY <1>2
<1>9. SoloInv' /\ ToldInv'
  BY <1>2, <1>4, <1>8
<1> QED BY <1>6, <1>7, <1>9

\* A set-config begins: it runs alone if no other is in progress, and the others no longer do.
LEMMA RequestStep == ASSUME IInv, NEW c \in Conns, Request(c)  PROVE SettingsInv'
<1> USE DEF IInv, DaemonInv, DaemonTypes, SettingsInv, SettingsTypes, LiveInv, CallInv, SoloInv,
            ToldInv, At, InProgress
<1>1. PICK patch \in Patches[c] : BeginSet(c, conn[c].at, patch)
  BY DEF Request
<1>2. conn[c].pc = "reading" /\ main' = main /\ live' = live /\ rows' = rows /\ call[c] = NoCall
  BY <1>1 DEF Request, Decode, Handles, procVars, BeginSet
<1>3. PICK p \in Procs : p = conn[c].at /\ main[p] # "down" /\ Good(live[p])
  BY <1>2 DEF ServeInv, ConnInv
<1>4. CASE ValidateSetConfig(patch)
  <2>1. PICK f : f = Overlay(live[p], patch)
    OBVIOUS
  <2>2. Good(f)
    BY <1>3, <1>4, <2>1, SettingsAssumption DEF Good, Overlay, Values, ValidateSetConfig
  <2>3. PICK b \in BOOLEAN : b <=> InProgress = {}
    OBVIOUS
  <2>4. call' = [h \in Conns |-> IF h = c
                   THEN [pc |-> "apply", p |-> p, wanted |-> f, left |-> Keys, solo |-> b]
                   ELSE [call[h] EXCEPT !.solo = FALSE]]
    BY <1>1, <1>3, <1>4, <2>1, <2>3, SameNamesAssumption DEF BeginSet
  <2>5. told' = NoSettings
    BY <1>1, <1>4 DEF BeginSet
  <2>6. call' \in [Conns -> CallType]
    <3>1. f \in Values /\ Keys \in Seq(KeySet)
      BY <2>2, SettingsAssumption DEF Good
    <3>2. \A h \in Conns : [call[h] EXCEPT !.solo = FALSE] \in CallType
      BY SoloCleared
    <3>3. [pc |-> "apply", p |-> p, wanted |-> f, left |-> Keys, solo |-> b] \in CallType
      BY <3>1 DEF CallType, CallPcs
    <3> QED BY <2>4, <3>2, <3>3
  <2>7. SettingsTypes' /\ LiveInv' /\ ToldInv'
    BY <1>2, <2>5, <2>6
  <2>8. CallInv'
    BY <1>2, <1>3, <2>2, <2>4 DEF Good
  <2>9. SoloInv'
    <3> SUFFICES ASSUME NEW h \in Conns, call'[h].solo
                 PROVE  h = c /\ InProgress' = {c}
      BY <2>4
    <3>1. h = c /\ b
      BY <2>4
    <3> QED BY <2>3, <2>4, <3>1
  <2> QED BY <2>7, <2>8, <2>9
<1>5. CASE ~ValidateSetConfig(patch)
  <2>1. call' = [call EXCEPT ![c].pc = "error"] /\ told' = told
    BY <1>1, <1>5 DEF BeginSet
  <2>2. call[c] \in CallType /\ call[c].pc = "none" /\ ~call[c].solo
    BY <1>2, NoCallRecord
  <2>3. call'[c].pc = "error" /\ ~call'[c].solo /\ \A h \in Conns \ {c} : call'[h] = call[h]
    BY <2>1, <2>2
  <2>4. \A h \in Conns : /\ h \in InProgress => call'[h] = call[h]
                         /\ call'[h].pc \in {"apply", "persist", "ok"} => h \in InProgress
    BY <2>2, <2>3, SameNamesAssumption
  <2>5. InProgress' = InProgress
    BY <2>4, SameNamesAssumption
  <2>6. call' \in [Conns -> CallType]
    BY <2>1, <2>2 DEF CallPcs, CallType
  <2>7. SettingsTypes' /\ LiveInv' /\ ToldInv'
    BY <1>2, <2>1, <2>5, <2>6
  <2>8. CallInv'
    BY <1>2, <2>3, <2>4
  <2>9. SoloInv'
    <3> SUFFICES ASSUME NEW h \in Conns, call'[h].solo
                 PROVE  (At(h, {"apply", "persist", "ok"}) => InProgress = {h})'
                        /\ (At(h, {"persist", "ok"}) => live[call[h].p] = call[h].wanted)'
                        /\ (At(h, {"persist"}) => \A k \in KeySet \ Range(call[h].left) :
                                       k \in DOMAIN rows /\ rows[k] = call[h].wanted[k])'
                        /\ (At(h, {"ok"}) => rows = call[h].wanted)'
      OBVIOUS
    <3>1. h # c /\ call'[h] = call[h] /\ call[h].solo
      BY <2>3
    <3> QED BY <1>2, <2>5, <3>1
  <2> QED BY <2>7, <2>8, <2>9
<1> QED BY <1>4, <1>5
\* Only h's call moves, and no daemon starts or ends: what is left to show of the invariant.
LEMMA CallMoves ==
    ASSUME IInv, NEW h \in Conns, NEW r \in CallType, call' = [call EXCEPT ![h] = r],
           call[h].pc \in {"apply", "persist", "ok"},
           r.p = call[h].p /\ r.wanted = call[h].wanted /\ r.solo = call[h].solo,
           r.pc \in {"persist", "ok"}, r.pc = "persist" => r.left # <<>>,
           told' = told, \A p \in Procs : main'[p] = "down" <=> main[p] = "down"
    PROVE  /\ call' \in [Conns -> CallType] /\ CallInv' /\ InProgress' = InProgress
           /\ told = NoSettings
<1> USE DEF IInv, SettingsInv, SettingsTypes, CallInv, ToldInv, At, InProgress, Good
<1>1. \A g \in Conns : call'[g] = IF g = h THEN r ELSE call[g]
  OBVIOUS
<1>2. h \in InProgress
  BY SameNamesAssumption
<1>3. InProgress' = InProgress
  BY <1>1, SameNamesAssumption
<1>4. CallInv'
  BY <1>1
<1> QED BY <1>2, <1>3, <1>4

\* What a call that runs alone wants is live when all of its keys are stored.
LEMMA ApplyStep ==
    ASSUME IInv, NEW h \in Conns, ApplySettings(h), UNCHANGED daemonVars  PROVE SettingsInv'
<1> USE DEF IInv, SettingsInv, SettingsTypes, At
<1>1. /\ call[h].pc = "apply" /\ call' = [call EXCEPT ![h] = [call[h] EXCEPT !.pc = "persist"]]
      /\ UNCHANGED <<rows, told, main>>
  BY DEF ApplySettings, daemonVars, procVars
<1>2. PICK r : r = [call[h] EXCEPT !.pc = "persist"]
  OBVIOUS
<1>3. /\ r \in CallType /\ r.pc = "persist" /\ r.left = Keys
      /\ r.p = call[h].p /\ r.wanted = call[h].wanted /\ r.solo = call[h].solo
  BY <1>1, <1>2 DEF CallType, CallPcs, CallInv
<1>4. PICK p \in Procs : p = call[h].p /\ main[p] # "down" /\ Good(call[h].wanted) /\ Good(live[p])
  BY <1>1 DEF CallInv, LiveInv
<1>5. [k \in KeySet |-> Applied(live[p][k], k, call[h].wanted[k])] = call[h].wanted
  BY <1>4 DEF Good, Applied, Values
<1>6. live' = [live EXCEPT ![p] = call[h].wanted]
  BY <1>4, <1>5 DEF ApplySettings
<1>7. CallInv' /\ call' \in [Conns -> CallType] /\ InProgress' = InProgress /\ told = NoSettings
  BY <1>1, <1>2, <1>3, CallMoves, SettingsAssumption
<1>8. SettingsTypes' /\ LiveInv' /\ ToldInv'
  BY <1>1, <1>4, <1>6, <1>7 DEF LiveInv, ToldInv, Good
<1>9. SoloInv'
  <2> SUFFICES ASSUME NEW g \in Conns, call'[g].solo, call'[g].pc \in {"apply", "persist", "ok"}
               PROVE  InProgress' = {g} /\ g = h
                      /\ live'[p] = r.wanted /\ call'[h] = r
    BY <1>1, <1>2, <1>3, <1>4, KeysThere DEF SoloInv
  <2>1. h \in InProgress /\ (g # h => call'[g] = call[g]) /\ call'[h] = r
    BY <1>1, <1>2, SameNamesAssumption DEF InProgress
  <2>2. call[g].solo /\ call[g].pc \in {"apply", "persist", "ok"}
    BY <1>1, <1>3, <2>1
  <2>3. InProgress = {g}
    BY <2>2 DEF SoloInv
  <2> QED BY <1>3, <1>6, <1>7, <2>1, <2>3
<1> QED BY <1>7, <1>8, <1>9
\* Each upsert moves one key from those left to those persisted.
LEMMA PersistStep ==
    ASSUME IInv, NEW h \in Conns, PersistField(h), UNCHANGED daemonVars  PROVE SettingsInv'
<1> USE DEF IInv, SettingsInv, SettingsTypes, At
<1>1. PICK k, r, rest : /\ k = Head(call[h].left) /\ rest = Tail(call[h].left)
                        /\ r = [call[h] EXCEPT !.left = rest,
                                               !.pc = IF rest = <<>> THEN "ok" ELSE call[h].pc]
  OBVIOUS
<1>2. /\ call[h].pc = "persist" /\ call' = [call EXCEPT ![h] = r]
      /\ UNCHANGED <<live, told, main>>
  <2>1. call[h].pc = "persist" /\ UNCHANGED <<live, told>>
    BY DEF PersistField
  <2>2. main' = main
    BY DEF daemonVars, procVars
  <2>3. call' = [call EXCEPT ![h] = r]
    BY <1>1 DEF PersistField
  <2> QED BY <2>1, <2>2, <2>3
<1>3. rows' = [j \in {k} \cup DOMAIN rows |-> IF j = k THEN call[h].wanted[k] ELSE rows[j]]
  BY <1>1 DEF PersistField, SaveSetting
<1>4. call[h].left \in Seq(KeySet) /\ call[h].left # <<>> /\ Good(call[h].wanted)
  BY <1>2 DEF CallType, CallInv
<1>5. /\ r \in CallType /\ r.pc \in {"persist", "ok"} /\ (r.pc = "persist" => r.left # <<>>)
      /\ r.p = call[h].p /\ r.wanted = call[h].wanted /\ r.solo = call[h].solo
      /\ r.pc = "persist" => Range(call[h].left) = {k} \cup Range(r.left)
      /\ r.pc = "ok" => Range(call[h].left) = {k}
  BY <1>1, <1>2, <1>4, TailRange DEF CallType, CallPcs
<1>6. k \in KeySet /\ call[h].wanted[k] \in Nat /\ Allowed(k, call[h].wanted[k])
  BY <1>1, <1>4, TailRange DEF Good, Values
<1>7. DOMAIN rows' = {k} \cup DOMAIN rows
  BY <1>3
<1>8. CallInv' /\ call' \in [Conns -> CallType] /\ InProgress' = InProgress /\ told = NoSettings
  BY <1>2, <1>5, CallMoves
<1>9. SettingsTypes' /\ LiveInv' /\ ToldInv'
  BY <1>2, <1>3, <1>6, <1>7, <1>8 DEF LiveInv, ToldInv
<1>10. SoloInv'
  <2> SUFFICES ASSUME NEW g \in Conns, call'[g].solo, call'[g].pc \in {"apply", "persist", "ok"}
               PROVE  /\ InProgress' = {g} /\ g = h /\ call'[h] = r
                      /\ live[r.p] = r.wanted
                      /\ r.pc = "persist" => \A j \in KeySet \ Range(r.left) :
                            j \in DOMAIN rows' /\ rows'[j] = r.wanted[j]
                      /\ r.pc = "ok" => rows' = r.wanted
    BY <1>2, <1>5 DEF SoloInv
  <2>1. h \in InProgress /\ (g # h => call'[g] = call[g]) /\ call'[h] = r
    BY <1>2, SameNamesAssumption DEF InProgress
  <2>2. call[g].solo /\ call[g].pc \in {"apply", "persist", "ok"}
    BY <1>2, <1>5, <2>1
  <2>3. InProgress = {g} /\ g = h
    BY <2>1, <2>2 DEF SoloInv
  <2>4. \A j \in KeySet \ Range(call[h].left) : j \in DOMAIN rows /\ rows[j] = call[h].wanted[j]
    BY <1>2, <2>2, <2>3 DEF SoloInv
  <2>5. live[r.p] = r.wanted
    BY <1>2, <1>5, <2>2, <2>3 DEF SoloInv
  <2>6. r.pc = "persist" => \A j \in KeySet \ Range(r.left) :
            j \in DOMAIN rows' /\ rows'[j] = r.wanted[j]
    BY <1>3, <1>5, <1>7, <2>4
  <2>7. ASSUME r.pc = "ok"  PROVE rows' = r.wanted
    <3>1. \A j \in KeySet \ {k} : j \in DOMAIN rows /\ rows[j] = call[h].wanted[j]
      BY <1>5, <2>4, <2>7
    <3>2. {k} \cup DOMAIN rows = KeySet
      BY <1>6, <3>1
    <3>3. call[h].wanted \in [KeySet -> Nat]
      BY <1>4 DEF Good, Values
    <3> QED BY <1>3, <1>5, <1>7, <3>1, <3>2, <3>3
  <2> QED BY <1>8, <2>1, <2>3, <2>5, <2>6, <2>7
<1> QED BY <1>8, <1>9, <1>10

\* A call ends, with an answer or with its process.
LEMMA CallsEnd ==
    ASSUME IInv, call' \in [Conns -> CallType],
           \A h \in Conns : call'[h] = call[h] \/ call'[h].pc \in {"none", "error", "done"}
    PROVE  /\ InProgress' \subseteq InProgress
           /\ \A h \in InProgress' : call'[h] = call[h]
           /\ \A h \in Conns : call'[h].pc \in {"apply", "persist", "ok"} => h \in InProgress'
  BY SameNamesAssumption DEF InProgress

LEMMA EndsKeep ==
    ASSUME IInv, call' \in [Conns -> CallType],
           \A h \in Conns : call'[h] = call[h] \/ call'[h].pc \in {"none", "error", "done"},
           rows' = rows,
           \A h \in InProgress' : live'[call[h].p] = live[call[h].p]
    PROVE  SoloInv'
<1> SUFFICES ASSUME NEW g \in Conns, call'[g].solo, call'[g].pc \in {"apply", "persist", "ok"}
             PROVE  /\ InProgress' = {g} /\ call'[g] = call[g] /\ call[g].solo
                    /\ live'[call[g].p] = live[call[g].p]
  BY DEF IInv, SettingsInv, SoloInv, At
<1>1. /\ g \in InProgress' /\ call'[g] = call[g]
      /\ g \in InProgress /\ InProgress' \subseteq InProgress
  BY CallsEnd
<1>2. InProgress = {g}
  BY <1>1 DEF IInv, SettingsInv, SoloInv, At
<1> QED BY <1>1, <1>2

\* A call that fails promises nothing.
LEMMA FailStep ==
    ASSUME IInv, NEW h \in Conns, PersistFails(h), main' = main  PROVE SettingsInv'
<1> USE DEF IInv, SettingsInv, SettingsTypes, At
<1>1. call' = [call EXCEPT ![h] = [call[h] EXCEPT !.pc = "error"]] /\ UNCHANGED <<live, rows, told>>
  BY DEF PersistFails
<1>2. call' \in [Conns -> CallType] /\ \A g \in Conns : call'[g] = call[g] \/ call'[g].pc = "error"
  BY <1>1 DEF CallType, CallPcs
<1>3. SoloInv' /\ CallInv'
  BY <1>1, <1>2, EndsKeep, CallsEnd DEF CallInv, Good
<1>4. ToldInv'
  BY <1>1, <1>2, CallsEnd DEF ToldInv
<1> QED BY <1>1, <1>2, <1>3, <1>4 DEF LiveInv

LEMMA DoneRecord ==
    [NoCall EXCEPT !.pc = "done"] \in CallType /\ [NoCall EXCEPT !.pc = "done"].pc = "done"
<1>1. <<>> \in Seq(KeySet)
  OBVIOUS
<1>2. NoCall \in CallType
  BY <1>1 DEF NoCall, CallType, CallPcs
<1> QED BY <1>2 DEF CallType, CallPcs

\* The answer to a call that ran alone shows what is live, which is what is persisted.
LEMMA AnswerStep ==
    ASSUME IInv, NEW h \in Conns, Answer(h), main' = main  PROVE SettingsInv'
<1> USE DEF IInv, SettingsInv, SettingsTypes, At
<1>1. PICK r \in CallType : r = [NoCall EXCEPT !.pc = "done"] /\ r.pc = "done"
  BY DoneRecord
<1>2. call' = [call EXCEPT ![h] = r] /\ UNCHANGED <<live, rows>>
  BY <1>1 DEF Answer
<1>3. /\ call' \in [Conns -> CallType] /\ call'[h].pc = "done"
      /\ \A g \in Conns : call'[g] = call[g] \/ call'[g].pc = "done"
  BY <1>1, <1>2
<1>4. SoloInv' /\ CallInv'
  BY <1>2, <1>3, EndsKeep, CallsEnd DEF CallInv, Good
<1>5. CASE call[h].pc = "ok" /\ call[h].solo
  <2>1. /\ told' = live[call[h].p] /\ InProgress = {h} /\ rows = call[h].wanted
        /\ live[call[h].p] = call[h].wanted /\ Good(call[h].wanted)
    BY <1>5 DEF Answer, SoloInv, CallInv
  <2>2. InProgress' = {}
    BY <1>3, <2>1, CallsEnd, SameNamesAssumption DEF InProgress
  <2> QED BY <1>2, <1>3, <1>4, <2>1, <2>2 DEF ToldInv, LiveInv, Good
<1>6. CASE ~(call[h].pc = "ok" /\ call[h].solo)
  <2>1. told' = told
    BY <1>6 DEF Answer
  <2>2. ToldInv'
    BY <1>2, <1>3, <2>1, CallsEnd DEF ToldInv
  <2> QED BY <1>2, <1>3, <1>4, <2>1, <2>2 DEF LiveInv
<1> QED BY <1>5, <1>6

\* A process that ends takes its calls along.
LEMMA ForgetStep == ASSUME IInv, NEW p \in Procs, End(p)  PROVE SettingsInv'
<1> USE DEF IInv, DaemonInv, DaemonTypes, SettingsInv, SettingsTypes, At
<1>1. PICK r \in CallType : r = [NoCall EXCEPT !.pc = "done"] /\ r.pc = "done"
  BY DoneRecord
<1>2. /\ call' = [h \in Conns |-> IF call[h].p = p THEN r ELSE call[h]]
      /\ live' = [live EXCEPT ![p] = NoSettings] /\ UNCHANGED <<rows, told>>
      /\ main' = [main EXCEPT ![p] = "down"]
  BY <1>1, SameNamesAssumption DEF End, Forget, Exit, Kill, Gone
<1>3. call' \in [Conns -> CallType] /\ \A g \in Conns : call'[g] = call[g] \/ call'[g].pc = "done"
  BY <1>1, <1>2
<1>4. \A h \in Conns : call'[h].pc \in {"apply", "persist", "ok"} =>
          /\ call'[h] = call[h] /\ call[h].p \in Procs \ {p}
          /\ main'[call[h].p] = main[call[h].p] /\ live'[call[h].p] = live[call[h].p]
  BY <1>1, <1>2 DEF CallInv
<1>5. SoloInv'
  BY <1>2, <1>3, <1>4, EndsKeep, SameNamesAssumption DEF InProgress
<1>6. CallInv'
  BY <1>4 DEF CallInv, Good
<1>7. ToldInv'
  BY <1>2, <1>3, CallsEnd DEF ToldInv
<1>8. LiveInv' /\ SettingsTypes'
  BY <1>2, <1>3 DEF LiveInv
<1> QED BY <1>5, <1>6, <1>7, <1>8

-----------------------------------------------------------------------------
(* The composition, and its promises.                                      *)

\* A step of the daemons that changes no setting, and neither starts nor ends one.
Quiet(p) == Listen(p) \/ AcceptLoop(p) \/ Close(p) \/ Server(Signal(p) \/ CloseActive(p)
                                                         \/ \E c \in Conns : AcceptConn(p, c))

\* What such a step is, as the daemons see it.
LEMMA QuietStep ==
    ASSUME IInv, NEW p \in Procs, Quiet(p)
    PROVE  /\ Listens(p) \/ Accepts(p) \/ Signal(p) \/ Closes(p)
           /\ UNCHANGED settingsVars /\ \A q \in Procs : main'[q] = "down" <=> main[q] = "down"
<1> USE DEF IInv, DaemonInv, DaemonTypes, Quiet, Server
<1>1. /\ UNCHANGED settingsVars
      /\ Listens(p) \/ Accepts(p) \/ Signal(p) \/ Closes(p)
  BY DEF Listen, AcceptLoop, Close, Listens, Accepts, Closes
<1>2. CASE Listens(p)
  BY <1>1, <1>2 DEF Listens, GuardSingleInstance, RemoveStale, Bind, Chmod,
                Publish, VerifyFails, Abandon, Unbind
<1>3. CASE Accepts(p)
  BY <1>1, <1>3 DEF Accepts, AcceptConn, Register, AcceptFails
<1>4. CASE Signal(p)
  BY <1>1, <1>4 DEF Signal
<1>5. CASE Closes(p)
  BY <1>1, <1>5 DEF Closes, BeginClose, CloseListener, CloseActive, ConnsDrained, RemoveSocket, Main
<1> QED BY <1>1, <1>2, <1>3, <1>4, <1>5

\* What a handler does.
Serves(c) == Request(c) \/ Handler(c) \/ StoreFails(c)

\* What a handler does, as the daemons see it.
LEMMA ServesStep ==
    ASSUME IInv, NEW c \in Conns, Serves(c)
    PROVE  /\ Handlers \/ Counts
           /\ main' = main
<1> USE DEF Serves, Handlers, Counts
<1>1. CASE Request(c)
  BY <1>1 DEF Request, Decode, Handles, procVars
<1>2. CASE SetStep(c)
  BY <1>2 DEF SetStep, daemonVars, procVars
<1>3. CASE (Respond(c) /\ Answer(c)) \/ Server(DecodeFails(c))
  BY <1>3 DEF Respond, Server, DecodeFails, Handles, procVars
<1>4. CASE StoreFails(c)
  BY <1>4 DEF StoreFails, procVars
<1> QED BY <1>1, <1>2, <1>3, <1>4 DEF Handler

\* What a handler does to the settings.
LEMMA ServesKeeps == ASSUME IInv, NEW c \in Conns, Serves(c)  PROVE SettingsInv'
<1>1. main' = main
  BY ServesStep
<1>2. CASE Request(c)
  BY <1>2, RequestStep
<1>3. CASE SetStep(c)
  BY <1>1, <1>3, ApplyStep, PersistStep, FailStep DEF SetStep
<1>4. CASE Respond(c) /\ Answer(c)
  BY <1>1, <1>4, AnswerStep
<1>5. CASE Server(DecodeFails(c))
  BY <1>1, <1>5, AloneStep DEF Server
<1>6. CASE StoreFails(c)
  BY <1>1, <1>6, FailStep DEF StoreFails
<1> QED BY <1>2, <1>3, <1>4, <1>5, <1>6 DEF Serves, Handler

LEMMA Initially == Init => IInv
  BY DaemonStarts, SettingsStart DEF Init, IInv

\* Every step is one of these.
LEMMA Steps ==
    ASSUME IInv, [Next]_vars
    PROVE  \/ \E p \in Procs : StartDaemon(p) \/ Quiet(p) \/ End(p)
           \/ \E c \in Conns : Serves(c)
           \/ UNCHANGED vars
  BY DEF Next, Quiet, Serves, Server

\* The invariant is inductive.
LEMMA Inductive == IInv /\ [Next]_vars => IInv'
<1> SUFFICES ASSUME IInv, [Next]_vars  PROVE IInv'
  OBVIOUS
<1>1. ASSUME NEW p \in Procs, StartDaemon(p)  PROVE IInv'
  <2>1. Starts(p)
    BY <1>1, KeysFinite DEF StartDaemon, Starts
  <2> QED BY <1>1, <2>1, StartStep, DaemonKeeps DEF IInv, DaemonStep
<1>2. ASSUME NEW p \in Procs, Quiet(p)  PROVE IInv'
  <2>1. DaemonStep
    BY <1>2, QuietStep DEF DaemonStep
  <2>2. SettingsInv'
    BY <1>2, QuietStep, AloneStep
  <2> QED BY <2>1, <2>2, DaemonKeeps DEF IInv
<1>3. ASSUME NEW p \in Procs, End(p)  PROVE IInv'
  <2>1. Ends(p)
    BY <1>3 DEF End, Ends
  <2> QED BY <1>3, <2>1, ForgetStep, DaemonKeeps DEF IInv, DaemonStep
<1>4. ASSUME NEW c \in Conns, Serves(c)  PROVE IInv'
  BY <1>4, ServesStep, ServesKeeps, DaemonKeeps DEF IInv, DaemonStep
<1>5. CASE UNCHANGED vars
  <2>1. Counts /\ UNCHANGED settingsVars /\ main' = main
    BY <1>5 DEF vars, daemonVars, Counts, procVars
  <2>2. SettingsInv'
    BY <2>1, AloneStep
  <2> QED BY <2>1, <2>2, DaemonKeeps DEF IInv, DaemonStep
<1> QED BY <1>1, <1>2, <1>3, <1>4, <1>5, Steps

\* So it always holds.
LEMMA Invariance == Spec => []IInv
  BY Initially, Inductive, PTL DEF Spec

\* The whole state keeps its type: every value a daemon runs with, or that is persisted, has a
\* meaning for its key.
THEOREM TypeCorrect == Spec => []TypeOK
<1>1. IInv => TypeOK
  <2> SUFFICES ASSUME IInv  PROVE TypeOK
    OBVIOUS
  <2> USE DEF IInv, DaemonInv, DaemonTypes, SettingsInv, SettingsTypes
  <2>1. \A p \in Procs : main[p] # "down" => \A k \in KeySet : Allowed(k, live[p][k])
    BY DEF LiveInv, Good
  <2>2. \A c \in Conns : /\ conn[c].pc \in ConnPcs /\ conn[c].at \in Procs \cup {NoProc}
                         /\ call[c].pc \in CallPcs
    BY DEF CallType
  <2> QED BY <2>1, <2>2 DEF TypeOK, MainPcs, AcceptPcs, ConnPcs, CallPcs
<1> QED BY <1>1, Invariance, PTL

\* When Close has returned no handler of the daemon is left, for any number of clients.
THEOREM NoHandlerOutlivesClose == Spec => []NoHandlerAfterClose
<1>1. IInv => NoHandlerAfterClose
  BY DEF IInv, DaemonInv
<1> QED BY <1>1, Invariance, PTL

\* Once Close waits for the handlers, no connection joins those it waits for.
THEOREM WaitGroupIsClosed == Spec => NoAddAfterWait
<1>1. ASSUME IInv, [Next]_vars, NEW p \in Procs, main[p] \in {"wait", "force"}, main'[p] # "down"
      PROVE  Handled(p)' \subseteq Handled(p)
  <2> USE <1>1 DEF IInv, DaemonInv, DaemonTypes, Handled
  <2>1. closing[p]
    BY DEF ClosingInv
  <2>2. ASSUME NEW q \in Procs, StartDaemon(q) \/ End(q)  PROVE Handled(p)' \subseteq Handled(p)
    BY <2>2 DEF StartDaemon, Boot, End, Exit, Kill, Gone
  <2>3. ASSUME NEW q \in Procs, Quiet(q)  PROVE Handled(p)' \subseteq Handled(p)
    <3>1. Listens(q) \/ Accepts(q) \/ Signal(q) \/ Closes(q)
      BY <2>3, QuietStep
    <3>2. CASE conn' = conn
      BY <3>2
    <3>3. ASSUME NEW c \in Conns, AcceptConn(q, c)  PROVE Handled(p)' \subseteq Handled(p)
      BY <3>3 DEF AcceptConn
    <3>4. ASSUME NEW c \in Conns, Register(q, c)  PROVE Handled(p)' \subseteq Handled(p)
      BY <2>1, <3>4 DEF Register
    <3> QED BY <3>1, <3>2, <3>3, <3>4
            DEF Listens, Accepts, Closes, GuardSingleInstance, RemoveStale, Bind, Chmod,
                Publish, VerifyFails, Abandon,
                AcceptFails, Signal, BeginClose, CloseListener, CloseActive, ConnsDrained,
                RemoveSocket
  <2>4. ASSUME NEW c \in Conns, Serves(c)  PROVE Handled(p)' \subseteq Handled(p)
    BY <2>4, ServesStep DEF Handlers, Counts, Decode, DecodeFails, Respond, Handles
  <2>5. CASE UNCHANGED vars
    BY <2>5 DEF vars, daemonVars
  <2> QED BY <2>2, <2>3, <2>4, <2>5, Steps
<1>2. IInv /\ [Next]_vars =>
        [\A p \in Procs : main[p] \in {"wait", "force"} /\ main'[p] # "down"
            => Handled(p)' \subseteq Handled(p)]_vars
  BY <1>1
<1> QED BY <1>2, Invariance, PTL DEF Spec, NoAddAfterWait

\* A daemon that is bound loses its socket file only to one that is closing, to one that asked
\* and was not answered in time, or to one that gives up a socket it could not secure.
THEOREM SocketIsKept == Spec => SocketTakenOnlyBy
<1>1. ASSUME IInv, [Next]_vars, NEW p \in Procs,
             Alive(p) /\ socket = p /\ socket' # p
      PROVE  \E q \in Procs \ {p} :
                \/ main[q] \in {"unbind", "remove"} /\ closing[q]
                \/ accept[q] = "unlink" /\ found[q] \in {"stale", "late"}
                \/ accept[q] = "abandon"
  <2>10. \/ \E q \in Procs : StartDaemon(q) \/ Quiet(q) \/ End(q)
         \/ \E c \in Conns : Serves(c)
         \/ UNCHANGED vars
    BY <1>1, Steps
  <2> USE <1>1 DEF IInv, DaemonInv, DaemonTypes
  <2>1. ASSUME NEW q \in Procs, StartDaemon(q) \/ End(q)  PROVE socket' = socket
    BY <2>1 DEF StartDaemon, Boot, End, Exit, Kill, Gone, file
  <2>2. ASSUME NEW c \in Conns, Serves(c)  PROVE socket' = socket
    BY <2>2, ServesStep DEF Handlers, Counts, Decode, DecodeFails, Respond, Handles, file
  <2>3. ASSUME UNCHANGED vars  PROVE socket' = socket
    BY <2>3 DEF vars, daemonVars, file
  <2>4. PICK q \in Procs : Quiet(q)
    <3>1. socket' # socket
      OBVIOUS
    <3>2. \A q \in Procs : ~(StartDaemon(q) \/ End(q))
      BY <2>1, <3>1
    <3>3. (\A c \in Conns : ~Serves(c)) /\ ~UNCHANGED vars
      BY <2>2, <2>3, <3>1
    <3> HIDE <1>1
    <3> QED BY <2>10, <3>2, <3>3
  <2>5. Listens(q) \/ Accepts(q) \/ Signal(q) \/ Closes(q)
    BY <2>4, QuietStep
  <2>6. RemoveStale(q) \/ Abandon(q) \/ CloseListener(q) \/ RemoveSocket(q)
    BY <2>5 DEF Listens, Accepts, Closes, GuardSingleInstance, Bind, Chmod, Publish, VerifyFails,
                file, AcceptConn, Register, AcceptFails, Signal, BeginClose, CloseActive,
                ConnsDrained
  <2>7. CASE RemoveStale(q)
    BY <2>7 DEF RemoveStale, Accept, ServeInv, Alive
  <2>8. CASE CloseListener(q) \/ RemoveSocket(q)
    BY <2>8 DEF CloseListener, RemoveSocket, Main, ClosingInv, Alive
  <2>9. CASE Abandon(q)
    BY <2>9 DEF Abandon, Accept, Alive
  <2> QED BY <2>6, <2>7, <2>8, <2>9
<1>2. IInv /\ [Next]_vars =>
        [\A p \in Procs :
            Alive(p) /\ socket = p /\ socket' # p =>
             \E q \in Procs \ {p} :
                \/ main[q] \in {"unbind", "remove"} /\ closing[q]
                \/ accept[q] = "unlink" /\ found[q] \in {"stale", "late"}
                \/ accept[q] = "abandon"]_vars
  BY <1>1
<1> QED BY <1>2, Invariance, PTL DEF Spec, SocketTakenOnlyBy

\* A set-config that ran alone and was answered with success is persisted as answered.
THEOREM AnswersArePersisted == Spec => []AnsweredIsPersisted
<1>1. IInv => AnsweredIsPersisted
  BY DEF IInv, SettingsInv, ToldInv, AnsweredIsPersisted
<1> QED BY <1>1, Invariance, PTL

\* The daemon that starts next runs with that answer, but for the rows it cannot read.
THEOREM AnswersSurvive == Spec => AnsweredSurvives
<1>1. ASSUME IInv, [Next]_vars, NEW p \in Procs,
             main[p] = "down" /\ main'[p] = "serve" /\ told # NoSettings
      PROVE  \E unread \in SUBSET KeySet :
                /\ events' = events + 1 + Cardinality(unread)
                /\ \A k \in KeySet \ unread : live'[p][k] = told[k]
  <2>12. \/ \E q \in Procs : StartDaemon(q) \/ Quiet(q) \/ End(q)
         \/ \E c \in Conns : Serves(c)
         \/ UNCHANGED vars
    BY <1>1, Steps
  <2> USE <1>1 DEF IInv, DaemonInv, DaemonTypes
  <2>1. ASSUME NEW c \in Conns, Serves(c)  PROVE main' = main
    BY <2>1, ServesStep
  <2>2. ASSUME UNCHANGED vars  PROVE main' = main
    BY <2>2 DEF vars, daemonVars, procVars
  <2>3. ASSUME NEW q \in Procs, Quiet(q)  PROVE main'[p] = "down"
    BY <2>3, QuietStep
  <2>4. ASSUME NEW q \in Procs, End(q)  PROVE main'[p] = "down"
    BY <2>4 DEF End, Exit, Kill, Gone
  <2>5. PICK q \in Procs : StartDaemon(q)
    <3>1. main'[p] # "down" /\ main[p] = "down"
      OBVIOUS
    <3>2. \A q \in Procs : ~(Quiet(q) \/ End(q))
      BY <2>3, <2>4, <3>1
    <3>3. (\A c \in Conns : ~Serves(c)) /\ ~UNCHANGED vars
      BY <2>1, <2>2, <3>1
    <3> HIDE <1>1
    <3> QED BY <2>12, <3>2, <3>3
  <2>6. q = p
    BY <2>5 DEF StartDaemon, Boot, Main
  <2>7. rows = told /\ told \in Values /\ (\A k \in KeySet : Allowed(k, told[k]))
        /\ DOMAIN rows = KeySet /\ live \in [Procs -> Values \cup {NoSettings}]
    BY DEF SettingsInv, SettingsTypes, ToldInv, Good, Values
  <2>8. PICK config \in Configs, unread \in SUBSET KeySet :
           Events(1 + Cardinality(unread)) /\ LoadSettings(p, config, KeySet \ unread)
    BY <2>5, <2>6 DEF StartDaemon
  <2>9. events' = events + 1 + Cardinality(unread)
    BY <2>8, KeysFinite DEF Events
  <2>10. PICK f : f = [k \in KeySet |-> IF k \in (KeySet \ unread) \cap DOMAIN rows
                                             /\ Allowed(k, rows[k])
                                          THEN rows[k] ELSE Layered(config)[k]]
    OBVIOUS
  <2>11. live'[p] = f
    BY <2>7, <2>8, <2>10 DEF LoadSettings
  <2>13. \A k \in KeySet \ unread : live'[p][k] = told[k]
    BY <2>7, <2>10, <2>11
  <2> QED BY <2>9, <2>13
<1>2. IInv /\ [Next]_vars =>
        [\A p \in Procs :
          main[p] = "down" /\ main'[p] = "serve" /\ told # NoSettings =>
             \E unread \in SUBSET KeySet :
                /\ events' = events + 1 + Cardinality(unread)
                /\ \A k \in KeySet \ unread : live'[p][k] = told[k]]_vars
  BY <1>1
<1> QED BY <1>2, Invariance, PTL DEF Spec, AnsweredSurvives
=============================================================================
