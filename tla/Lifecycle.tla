----------------------------- MODULE Lifecycle -----------------------------
(***************************************************************************)
(* The life of a VPN connection in the agent: the one global session.Sess, *)
(* the ConnSessions that take turns in it, and the goroutines that set a   *)
(* connection up, watch it, tear it down and re-establish it.              *)
(*                                                                         *)
(*   - an RPC connection (rpc.Handle) runs its requests one after the      *)
(*     other; two RPC connections run concurrently;                        *)
(*   - the auto-reconnect goroutine (rpc.startAutoReconnect), at most one; *)
(*   - the main goroutine, which a signal or the service manager makes     *)
(*     call rpc.DisConnect before the process ends;                        *)
(*   - one rpc.monitor goroutine per established session;                  *)
(*   - per session vpn.payloadInToTun, and vpn.tlsChannel with its sender. *)
(*                                                                         *)
(* A step is the code between two points where a goroutine blocks, or      *)
(* re-reads a global another goroutine may have changed.  The bodies of    *)
(* NewConnSession and of ConnSession.Close are single steps, although no   *)
(* lock makes them so.                                                     *)
(***************************************************************************)
EXTENDS Naturals, FiniteSets

CONSTANTS
  Clients,        \* RPC connections
  Reconnector,    \* the auto-reconnect goroutine
  Signal,         \* the main goroutine, waiting for a signal
  Requests,       \* which requests arrive: a subset of AllRequests
  AutoReconnect,  \* base.Cfg.AutoReconnect
  SetupFails,     \* TRUE: setupTun and SetRoutes may return an error
  Timely,         \* TRUE: goroutines with nothing to wait for, a new monitor
                  \* and a closed session's cleanup, are done before the
                  \* server accepts any later tunnel
  MaxSessions     \* bound: how many ConnSessions are ever created

AllRequests == {"CONNECT", "RECONNECT", "DISCONNECT", "STOP"}

ASSUME ClientsAssumption ==
  Reconnector \notin Clients /\ Signal \notin Clients /\ Reconnector # Signal
ASSUME RequestsAssumption == Requests \subseteq AllRequests
ASSUME FlagsAssumption == /\ AutoReconnect \in BOOLEAN
                          /\ SetupFails \in BOOLEAN
                          /\ Timely \in BOOLEAN
ASSUME MaxSessionsAssumption == MaxSessions \in Nat

VARIABLES
  CSess,            \* Sess.CSess: nil or the current session
  ActiveClose,      \* Sess.ActiveClose
  CloseChan,        \* Sess.CloseChan, named by the session made with it
  chanClosed,       \* the Sess.CloseChan channels closed so far
  created,          \* how many ConnSessions exist; they are 1..created
  closed,           \* the sessions whose closeOnce has run
  autoReconnecting, \* rpc.autoReconnecting
  pc,               \* where each thread is
  my,               \* a thread's local cSess (nil when it has none)
  ret,              \* why a thread is inside DisConnect
  tunWriter,        \* payloadInToTun of each session
  tls,              \* the sessions whose tlsChannel runs
  mon,              \* the monitor goroutine of each session
  routes,           \* whose routes and DNS the system has: nil or a session
  asked,            \* clients that wait for the answer to a DISCONNECT
  intent,           \* what the user last asked for: "up" or "down"
  agent             \* the process: "runs", "crashed" or "stopped"

sessVars   == <<CSess, ActiveClose, CloseChan, chanClosed, created, closed>>
threadVars == <<autoReconnecting, pc, my, ret>>
goVars     == <<tunWriter, tls, mon>>
userVars   == <<asked, intent, agent>>
vars       == <<sessVars, threadVars, goVars, routes, userVars>>

nil      == 0
Sessions == 1..MaxSessions
Threads  == Clients \cup {Reconnector, Signal}

Labels == {"idle",       \* no handler runs (Reconnector: no goroutine)
           "dial",       \* authenticating, then sending the tunnel request
           "setupTun",   \* in vpn.SetupTunnel, after NewConnSession
           "setRoutes",  \* in vpn.SetupTunnel, after setupTun
           "up",         \* SetupTunnel returned nil
           "failed",     \* it, or the authentication before it, failed
           "disconnect", \* about to call DisConnect
           "resetRoutes", "close",  \* inside DisConnect
           "head", "sleep", "exit"} \* the auto-reconnect loop

Init ==
  /\ CSess = nil /\ ActiveClose = FALSE /\ CloseChan = nil
  /\ chanClosed = {} /\ created = 0 /\ closed = {}
  /\ autoReconnecting = FALSE
  /\ pc = [t \in Threads |-> "idle"]
  /\ my = [t \in Threads |-> nil]
  /\ ret = [t \in Threads |-> "none"]
  /\ tunWriter = [s \in Sessions |-> "none"]
  /\ tls = {}
  /\ mon = [s \in Sessions |-> [pc |-> "none", ch |-> nil]]
  /\ routes = nil
  /\ asked = {} /\ intent = "down" /\ agent = "runs"

\* Nothing runs any more once the process has crashed or was stopped.
Running == agent = "runs"

Goto(t, label) == pc' = [pc EXCEPT ![t] = label]

(***************************************************************************)
(* session.go                                                              *)
(***************************************************************************)

\* Mutant of NewConnSession: the channel of the previous session is reused.
NewConnSessionOldChannel(s) ==
  /\ created' = s
  /\ CSess' = s
  /\ ActiveClose' = FALSE
  /\ CloseChan' = IF CloseChan = nil THEN s ELSE CloseChan

\* A fresh session becomes the current one, with a fresh channel to announce
\* its end, and the mark of an active close is taken back.
NewConnSession(s) ==
  /\ created' = s
  /\ CSess' = s
  /\ ActiveClose' = FALSE
  /\ CloseChan' = s

\* Mutant of Close: the test Sess.CSess == cSess is missing.
CloseUnguarded(s) ==
  /\ closed' = closed \cup {s}
  /\ IF s \notin closed
       THEN CSess' = nil /\ chanClosed' = chanClosed \cup {CloseChan}
       ELSE UNCHANGED <<CSess, chanClosed>>
  /\ UNCHANGED <<ActiveClose, CloseChan, created>>

\* Mutant of Close: the channel closed is that of Sess.CSess, nil or not.
CloseOfCurrent(s) ==
  /\ closed' = closed \cup {s}
  /\ IF s \notin closed
       THEN CSess' = nil /\ chanClosed' = chanClosed \cup {CSess}
       ELSE UNCHANGED <<CSess, chanClosed>>
  /\ UNCHANGED <<ActiveClose, CloseChan, created>>

\* Mutant of Close: Sess.CSess = nil is missing.
CloseKeepsCurrent(s) ==
  /\ closed' = closed \cup {s}
  /\ chanClosed' = IF s \notin closed /\ CSess = s
                     THEN chanClosed \cup {CloseChan} ELSE chanClosed
  /\ UNCHANGED <<CSess, ActiveClose, CloseChan, created>>

\* ConnSession.Close under its sync.Once.  Only the session that is still the
\* current one clears the global state and wakes the monitors.
Close(s) ==
  /\ closed' = closed \cup {s}
  /\ IF s \notin closed /\ CSess = s
       THEN CSess' = nil /\ chanClosed' = chanClosed \cup {CloseChan}
       ELSE UNCHANGED <<CSess, chanClosed>>
  /\ UNCHANGED <<ActiveClose, CloseChan, created>>

(***************************************************************************)
(* vpnc: the host route to the server, the default route's priority and    *)
(* resolv.conf exist once per machine, so the last writer owns them and    *)
(* anybody's reset removes them.                                           *)
(***************************************************************************)

SetRoutes(s)   == routes' = s
ResetRoutes(s) == routes' = nil

(***************************************************************************)
(* rpc.Handle: the requests                                                *)
(***************************************************************************)

\* A client sends its next request once the answer to DISCONNECT is in.
Ready(c) == pc[c] = "idle" /\ c \notin asked

\* CONNECT: refused during an auto reconnect, answered at once when there is
\* a session; otherwise Connect() runs.
ConnectReq(c) ==
  /\ Running /\ "CONNECT" \in Requests /\ Ready(c)
  /\ ~autoReconnecting /\ CSess = nil
  /\ Goto(c, "dial")
  /\ intent' = "up"
  /\ UNCHANGED <<sessVars, autoReconnecting, my, ret, goVars, routes, asked, agent>>

\* RECONNECT: SetupTunnel without authentication, whatever autoReconnecting
\* says.
ReconnectReq(c) ==
  /\ Running /\ "RECONNECT" \in Requests /\ Ready(c)
  /\ CSess = nil
  /\ Goto(c, "dial")
  /\ intent' = "up"
  /\ UNCHANGED <<sessVars, autoReconnecting, my, ret, goVars, routes, asked, agent>>

\* DISCONNECT: cancels an auto reconnect and answers itself, or closes the
\* session and leaves the answer to the monitor.  With neither it only
\* reports an error.
DisconnectReq(c) ==
  /\ Running /\ "DISCONNECT" \in Requests /\ Ready(c)
  /\ autoReconnecting \/ CSess # nil
  /\ ret' = [ret EXCEPT ![c] = IF autoReconnecting THEN "cancel" ELSE "active"]
  /\ Goto(c, "disconnect")
  /\ asked' = asked \cup {c}
  /\ intent' = "down"
  /\ UNCHANGED <<sessVars, autoReconnecting, my, goVars, routes, agent>>

\* SIGINT, SIGTERM, SIGQUIT or the service manager's Stop.
StopReq ==
  /\ Running /\ "STOP" \in Requests /\ pc[Signal] = "idle"
  /\ Goto(Signal, "disconnect")
  /\ ret' = [ret EXCEPT ![Signal] = "stop"]
  /\ intent' = "down"
  /\ UNCHANGED <<sessVars, autoReconnecting, my, goVars, routes, asked, agent>>

(***************************************************************************)
(* rpc.Connect / rpc.SetupTunnel / vpn.SetupTunnel, run by a handler or by *)
(* the auto-reconnect goroutine                                            *)
(***************************************************************************)

\* What is done within the two round trips or more that Negotiate takes.
CaughtUp == /\ \A s \in closed : tunWriter[s] \in {"none", "done"}
            /\ \A s \in Sessions : mon[s].pc # "start"

\* No local interface, the server refused, the link broke: any error before
\* NewConnSession.
NegotiateFail(t) ==
  /\ Running /\ pc[t] = "dial"
  /\ Goto(t, "failed")
  /\ UNCHANGED <<sessVars, autoReconnecting, my, ret, goVars, routes, userVars>>

\* The server accepted the tunnel.
Negotiate(t) ==
  /\ Running /\ pc[t] = "dial" /\ (Timely => CaughtUp)
  /\ created < MaxSessions
  /\ NewConnSession(created + 1)
  /\ my' = [my EXCEPT ![t] = created + 1]
  /\ Goto(t, "setupTun")
  /\ UNCHANGED <<chanClosed, closed, autoReconnecting, ret, goVars, routes, userVars>>

\* setupTun: the device is configured and payloadInToTun starts.
SetupTun(t) ==
  /\ Running /\ pc[t] = "setupTun"
  /\ tunWriter' = [tunWriter EXCEPT ![my[t]] = "runs"]
  /\ Goto(t, "setRoutes")
  /\ UNCHANGED <<sessVars, autoReconnecting, my, ret, tls, mon, routes, userVars>>

\* setupTun fails: no goroutine was started; the session is closed.
SetupTunFail(t) ==
  /\ Running /\ pc[t] = "setupTun" /\ SetupFails
  /\ Close(my[t])
  /\ my' = [my EXCEPT ![t] = nil]
  /\ Goto(t, "failed")
  /\ UNCHANGED <<autoReconnecting, ret, goVars, routes, userVars>>

\* SetRoutes succeeds and the TLS channel starts, even when somebody closed
\* the session in the meantime.
RoutesSet(t) ==
  /\ Running /\ pc[t] = "setRoutes"
  /\ SetRoutes(my[t])
  /\ tls' = tls \cup {my[t]}
  /\ Goto(t, "up")
  /\ UNCHANGED <<sessVars, autoReconnecting, my, ret, tunWriter, mon, userVars>>

\* SetRoutes returns an error, before or after it has installed some routes.
RoutesFail(t) ==
  /\ Running /\ pc[t] = "setRoutes" /\ SetupFails
  /\ SetRoutes(my[t]) \/ UNCHANGED routes
  /\ Close(my[t])
  /\ my' = [my EXCEPT ![t] = nil]
  /\ Goto(t, "failed")
  /\ UNCHANGED <<autoReconnecting, ret, goVars, userVars>>

\* go monitor() for the session that t has just set up
StartMonitor(t) == mon' = [mon EXCEPT ![my[t]].pc = "start"]

\* CONNECT and RECONNECT: answer, and start the monitor.
ConnectDone(c) ==
  /\ Running /\ pc[c] = "up"
  /\ StartMonitor(c)
  /\ my' = [my EXCEPT ![c] = nil]
  /\ Goto(c, "idle")
  /\ UNCHANGED <<sessVars, autoReconnecting, ret, tunWriter, tls, routes, userVars>>

\* CONNECT and RECONNECT: answer with the error, then DisConnect().
ConnectError(c) ==
  /\ Running /\ pc[c] = "failed"
  /\ ret' = [ret EXCEPT ![c] = "failed"]
  /\ Goto(c, "disconnect")
  /\ intent' = "down"
  /\ UNCHANGED <<sessVars, autoReconnecting, my, goVars, routes, asked, agent>>

(***************************************************************************)
(* rpc.DisConnect: three reads of Sess.CSess                               *)
(***************************************************************************)

\* Where DisConnect's caller goes on: what the handler still does.
Return(t) ==
  /\ Goto(t, IF t = Reconnector THEN "exit" ELSE "idle")
  /\ asked' = IF ret[t] = "cancel" THEN asked \ {t} ELSE asked
  /\ agent' = IF ret[t] = "stop" THEN "stopped" ELSE agent
  /\ ret' = [ret EXCEPT ![t] = "none"]
  /\ UNCHANGED intent

\* Sess.CSess is nil where DisConnect uses it: rpc.Handle recovers and
\* never answers, in any other goroutine the process dies.
Panic(t) ==
  /\ Goto(t, "idle")
  /\ ret' = [ret EXCEPT ![t] = "none"]
  /\ agent' = IF t \in Clients THEN agent ELSE "crashed"
  /\ UNCHANGED <<asked, intent>>

DisConnect(t) ==
  /\ Running /\ pc[t] = "disconnect"
  /\ ActiveClose' = TRUE
  /\ IF CSess # nil
       THEN Goto(t, "resetRoutes") /\ UNCHANGED <<ret, userVars>>
       ELSE Return(t)
  /\ UNCHANGED <<CSess, CloseChan, chanClosed, created, closed,
                 autoReconnecting, my, goVars, routes>>

DisConnectReset(t) ==
  /\ Running /\ pc[t] = "resetRoutes"
  /\ IF CSess # nil
       THEN ResetRoutes(CSess) /\ Goto(t, "close") /\ UNCHANGED <<ret, userVars>>
       ELSE Panic(t) /\ UNCHANGED routes
  /\ UNCHANGED <<sessVars, autoReconnecting, my, goVars>>

DisConnectClose(t) ==
  /\ Running /\ pc[t] = "close"
  /\ IF CSess # nil
       THEN Close(CSess) /\ Return(t)
       ELSE Panic(t) /\ UNCHANGED sessVars
  /\ UNCHANGED <<autoReconnecting, my, goVars, routes>>

(***************************************************************************)
(* rpc.startAutoReconnect                                                  *)
(***************************************************************************)

\* The head of the loop, and the same test again after the sleep.
ReconnectLoop ==
  /\ Running
  /\ \/ pc[Reconnector] = "head" /\ Goto(Reconnector, IF ActiveClose THEN "exit" ELSE "sleep")
     \/ pc[Reconnector] = "sleep" /\ Goto(Reconnector, IF ActiveClose THEN "exit" ELSE "dial")
  /\ UNCHANGED <<sessVars, autoReconnecting, my, ret, goVars, routes, userVars>>

\* reconnectOnce failed: double the delay and try again.
ReconnectError ==
  /\ Running /\ pc[Reconnector] = "failed"
  /\ Goto(Reconnector, "head")
  /\ UNCHANGED <<sessVars, autoReconnecting, my, ret, goVars, routes, userVars>>

\* Mutant of ReconnectDone: go monitor() is missing.
ReconnectDoneUnwatched ==
  /\ Running /\ pc[Reconnector] = "up"
  /\ my' = [my EXCEPT ![Reconnector] = nil]
  /\ Goto(Reconnector, IF ActiveClose THEN "disconnect" ELSE "exit")
  /\ UNCHANGED <<sessVars, autoReconnecting, ret, goVars, routes, userVars>>

\* reconnectOnce succeeded: the user may have asked to disconnect meanwhile.
ReconnectDone ==
  /\ Running /\ pc[Reconnector] = "up"
  /\ my' = [my EXCEPT ![Reconnector] = nil]
  /\ IF ActiveClose
       THEN Goto(Reconnector, "disconnect") /\ UNCHANGED mon
       ELSE Goto(Reconnector, "exit") /\ StartMonitor(Reconnector)
  /\ UNCHANGED <<sessVars, autoReconnecting, ret, tunWriter, tls, routes, userVars>>

\* Mutant of ReconnectExit: the deferred Store(false) is missing.
ReconnectExitNoStore ==
  /\ Running /\ pc[Reconnector] = "exit"
  /\ Goto(Reconnector, "idle")
  /\ UNCHANGED <<sessVars, autoReconnecting, my, ret, goVars, routes, userVars>>

\* The deferred autoReconnecting.Store(false).
ReconnectExit ==
  /\ Running /\ pc[Reconnector] = "exit"
  /\ autoReconnecting' = FALSE
  /\ Goto(Reconnector, "idle")
  /\ UNCHANGED <<sessVars, my, ret, goVars, routes, userVars>>

(***************************************************************************)
(* rpc.monitor                                                             *)
(***************************************************************************)

\* The new goroutine evaluates Sess.CloseChan and blocks on it.
MonitorStart(s) ==
  /\ Running /\ mon[s].pc = "start"
  /\ mon' = [mon EXCEPT ![s] = [pc |-> "waits", ch |-> CloseChan]]
  /\ UNCHANGED <<sessVars, threadVars, tunWriter, tls, routes, userVars>>

\* Every client is told: DISCONNECT when the close was asked for, which also
\* answers the clients that asked, or ABORT.
MonitorNotify(s) ==
  /\ Running /\ mon[s].pc = "waits" /\ mon[s].ch \in chanClosed
  /\ mon' = [mon EXCEPT ![s].pc = "decides"]
  /\ asked' = IF ActiveClose THEN {} ELSE asked
  /\ UNCHANGED <<sessVars, threadVars, tunWriter, tls, routes, intent, agent>>

\* The end of monitor, with startAutoReconnect's CompareAndSwap.
MonitorDecide(s) ==
  /\ Running /\ mon[s].pc = "decides"
  /\ mon' = [mon EXCEPT ![s].pc = "done"]
  /\ IF ~ActiveClose /\ AutoReconnect /\ ~autoReconnecting
       THEN autoReconnecting' = TRUE /\ Goto(Reconnector, "head")
       ELSE UNCHANGED <<autoReconnecting, pc>>
  /\ UNCHANGED <<sessVars, my, ret, tunWriter, tls, routes, userVars>>

(***************************************************************************)
(* vpn.payloadInToTun and vpn.tlsChannel                                   *)
(***************************************************************************)

\* The session was closed, or a packet from the server could not be written
\* to the device: the deferred function resets the routes unless the close is
\* an active one.
TunWriterExit(s) ==
  /\ Running /\ tunWriter[s] = "runs"
  /\ s \in closed \cup tls
  /\ tunWriter' = [tunWriter EXCEPT ![s] = "closes"]
  /\ IF ActiveClose THEN UNCHANGED routes ELSE ResetRoutes(s)
  /\ UNCHANGED <<sessVars, threadVars, tls, mon, userVars>>

TunWriterClose(s) ==
  /\ Running /\ tunWriter[s] = "closes"
  /\ tunWriter' = [tunWriter EXCEPT ![s] = "done"]
  /\ Close(s)
  /\ UNCHANGED <<threadVars, tls, mon, routes, userVars>>

\* A read or write error, a dead peer, or the session was closed.
TlsExit(s) ==
  /\ Running /\ s \in tls
  /\ tls' = tls \ {s}
  /\ Close(s)
  /\ UNCHANGED <<threadVars, tunWriter, mon, routes, userVars>>

----------------------------------------------------------------------------

Request(c) == ConnectReq(c) \/ ReconnectReq(c) \/ DisconnectReq(c)

Setup(t) == \/ NegotiateFail(t) \/ Negotiate(t)
            \/ SetupTun(t) \/ SetupTunFail(t)
            \/ RoutesSet(t) \/ RoutesFail(t)

Disconnecting(t) == DisConnect(t) \/ DisConnectReset(t) \/ DisConnectClose(t)

Reconnecting == ReconnectLoop \/ ReconnectError \/ ReconnectDone \/ ReconnectExit

Monitor(s) == MonitorStart(s) \/ MonitorNotify(s) \/ MonitorDecide(s)

Channels(s) == TunWriterExit(s) \/ TunWriterClose(s) \/ TlsExit(s)

Next ==
  \/ \E c \in Clients : Request(c) \/ ConnectDone(c) \/ ConnectError(c)
  \/ StopReq
  \/ \E t \in Clients \cup {Reconnector} : Setup(t)
  \/ \E t \in Threads : Disconnecting(t)
  \/ Reconnecting
  \/ \E s \in Sessions : Monitor(s) \/ Channels(s)

Spec == Init /\ [][Next]_vars

----------------------------------------------------------------------------
(***************************************************************************)
(* Properties                                                              *)
(***************************************************************************)

MonitorState == [pc : {"none", "start", "waits", "decides", "done"},
                 ch : 0..MaxSessions]

\* The type invariant.
TypeOK ==
  /\ CSess \in 0..MaxSessions /\ CloseChan \in 0..MaxSessions
  /\ created \in 0..MaxSessions
  /\ ActiveClose \in BOOLEAN /\ autoReconnecting \in BOOLEAN
  /\ chanClosed \subseteq Sessions /\ closed \subseteq Sessions
  /\ tls \subseteq Sessions
  /\ pc \in [Threads -> Labels]
  /\ my \in [Threads -> 0..MaxSessions]
  /\ ret \in [Threads -> {"none", "failed", "cancel", "active", "stop"}]
  /\ tunWriter \in [Sessions -> {"none", "runs", "closes", "done"}]
  /\ mon \in [Sessions -> MonitorState]
  /\ routes \in 0..MaxSessions
  /\ asked \subseteq Clients
  /\ intent \in {"up", "down"}
  /\ agent \in {"runs", "crashed", "stopped"}

\* ConnSession.Close, session.go:328-335: the end of a session is announced
\* on Sess.CloseChan only when that session has really been closed, however
\* late the cleanup of an older session runs.
NoFalseAbort == chanClosed \subseteq closed

\* The session in Sess.CSess is the newest one, is open, and owns
\* Sess.CloseChan, which is still open: no handler uses a closed session as
\* the current one and close(Sess.CloseChan) finds an open channel, as long as
\* nothing comes between the lines of Close (session.go:332-334) and of
\* NewConnSession (session.go:149-152).
CurrentIsOpen ==
  CSess # nil => /\ CSess = created /\ CSess \notin closed
                 /\ CloseChan = CSess /\ CloseChan \notin chanClosed

\* rpc.go:178, 195 and 289: whoever holds Sess.CSess is being set up, is being
\* disconnected by the auto-reconnect goroutine, or is watched by a monitor
\* that will see its CloseChan, so that its end is always reported.
WatchedSession ==
  CSess # nil =>
    \/ \E t \in Clients \cup {Reconnector} : my[t] = CSess
    \/ pc[Reconnector] \in {"disconnect", "resetRoutes", "close"}
    \/ \E m \in Sessions : \/ mon[m].pc = "start"
                           \/ mon[m].pc = "waits" /\ mon[m].ch = CSess

\* The CompareAndSwap of startAutoReconnect and its deferred Store: the flag
\* that CONNECT and DISCONNECT test is up exactly while the goroutine lives
\* (a crash aside), the moment between its last go monitor() and the Store
\* included.
FlagMeansReconnecting ==
  agent # "crashed" => (autoReconnecting <=> pc[Reconnector] # "idle")

\* Nothing is left to do but wait for the user, the server or the network.
Settled ==
  /\ agent = "runs"
  /\ \A t \in Threads : pc[t] = "idle"
  /\ \A s \in Sessions :
       /\ \/ mon[s].pc \in {"none", "done"}
          \/ mon[s].pc = "waits" /\ mon[s].ch \notin chanClosed
       /\ s \in closed => tunWriter[s] \in {"none", "done"} /\ s \notin tls
       /\ tunWriter[s] # "closes"

\* rpc.go:199-200: DISCONNECT sets ActiveClose to cancel a reconnect, so once
\* every DISCONNECT was answered and everything has settled, there is no
\* session.
DisconnectWins == Settled /\ intent = "down" /\ asked = {} => CSess = nil

\* With auto_reconnect, a user who asked for the VPN and did not take it back
\* has it, once everything has settled (README: auto_reconnect).
UpWhenWanted == Settled /\ intent = "up" /\ AutoReconnect => CSess # nil

\* Two statements that do not hold, kept for the README, which tells how TLC
\* refutes them.  session.go:328-331: no session is open that is not the one in
\* Sess.CSess.
NoOrphan == \A s \in 1..created : s \in closed \/ s = CSess

\* connect.go:50-57 and tun.go:106-115: DisConnect and the deferred function of
\* payloadInToTun leave the routes to the current session.
RoutesFollowSession == Settled => routes = CSess

Register == INSTANCE SessionRegister WITH cur <- CSess, made <- created, ended <- chanClosed

\* session.go:130-153 and 321-337: with the body of NewConnSession and that of
\* Close taken as one step each, any order of those steps, whichever goroutine
\* takes them, implements the register of the current session.  In the code
\* another goroutine can come between session.go:332 and 334; that is outside
\* this statement.
ImplementsRegister == Register!Spec

=============================================================================
