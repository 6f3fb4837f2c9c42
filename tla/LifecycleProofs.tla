-------------------------- MODULE LifecycleProofs --------------------------
(***************************************************************************)
(* Proofs about Lifecycle, for any set of clients, any requests, any       *)
(* number of sessions, with and without auto_reconnect.                    *)
(***************************************************************************)
EXTENDS Lifecycle, TLAPS

USE MaxSessionsAssumption DEF Sessions, nil

(***************************************************************************)
(* The session state.  SessInv strengthens CurrentIsOpen and NoFalseAbort: *)
(* only sessions that exist are closed or named by Sess.CloseChan.         *)
(***************************************************************************)

SessInv ==
  /\ CSess \in 0..MaxSessions /\ created \in 0..MaxSessions
  /\ CloseChan \in 0..created
  /\ closed \subseteq 1..created
  /\ NoFalseAbort
  /\ CurrentIsOpen

\* Close keeps the session state consistent, whichever session is closed.
LEMMA CloseKeeps ==
  ASSUME SessInv, NEW s \in 1..created, Close(s)
  PROVE  /\ SessInv' /\ created' = created /\ CloseChan' = CloseChan
         /\ CSess' = IF CSess = s THEN 0 ELSE CSess
  <1> USE DEF SessInv, NoFalseAbort, CurrentIsOpen
  <1>1. CASE CSess = s
    <2>1. /\ closed' = closed \cup {s} /\ CSess' = 0
          /\ chanClosed' = chanClosed \cup {s}
          /\ CloseChan' = CloseChan /\ created' = created
      BY <1>1 DEF Close
    <2> QED
      BY <1>1, <2>1
  <1>2. CASE CSess # s
    <2>1. /\ closed' = closed \cup {s} /\ CSess' = CSess
          /\ chanClosed' = chanClosed
          /\ CloseChan' = CloseChan /\ created' = created
      BY <1>2 DEF Close
    <2> QED
      BY <1>2, <2>1
  <1> QED
    BY <1>1, <1>2

\* NewConnSession keeps it consistent.
LEMMA NewConnSessionKeeps ==
  ASSUME SessInv, created < MaxSessions, NewConnSession(created + 1),
         UNCHANGED <<closed, chanClosed>>
  PROVE  /\ SessInv' /\ created' = created + 1 /\ CSess' = created + 1
  BY DEF SessInv, NoFalseAbort, CurrentIsOpen, NewConnSession

(***************************************************************************)
(* The inductive invariant.                                                *)
(***************************************************************************)

\* Threads and goroutines only know sessions that exist, and a thread that
\* sets a connection up has one.
Known ==
  /\ tls \subseteq 1..created
  /\ \A s \in Sessions : tunWriter[s] # "none" => s \in 1..created
  /\ \A t \in Threads : my[t] \in 0..created
  /\ \A t \in Threads : pc[t] \in {"setupTun", "setRoutes", "up"} => my[t] # 0

IInv == TypeOK /\ SessInv /\ Known

\* Init establishes the invariant.
LEMMA InitIInv == Init => IInv
  <1> SUFFICES ASSUME Init PROVE IInv
    OBVIOUS
  <1> USE DEF Init
  <1>1. TypeOK
    <2>1. mon \in [Sessions -> MonitorState]
      BY DEF MonitorState
    <2>2. pc \in [Threads -> Labels]
      BY DEF Labels
    <2>3. /\ ActiveClose \in BOOLEAN /\ autoReconnecting \in BOOLEAN
          /\ asked \subseteq Clients
      OBVIOUS
    <2>4. /\ my \in [Threads -> 0..MaxSessions]
          /\ ret \in [Threads -> {"none", "failed", "cancel", "active", "stop"}]
          /\ tunWriter \in [Sessions -> {"none", "runs", "closes", "done"}]
      OBVIOUS
    <2>5. /\ CSess \in 0..MaxSessions /\ CloseChan \in 0..MaxSessions
          /\ created \in 0..MaxSessions /\ routes \in 0..MaxSessions
      OBVIOUS
    <2> QED
      BY <2>1, <2>2, <2>3, <2>4, <2>5 DEF TypeOK
  <1>2. SessInv
    BY DEF SessInv, NoFalseAbort, CurrentIsOpen
  <1>3. Known
    BY DEF Known
  <1> QED
    BY <1>1, <1>2, <1>3 DEF IInv

\* Every step preserves it.
LEMMA NextIInv == IInv /\ [Next]_vars => IInv'
  <1> SUFFICES ASSUME IInv, [Next]_vars PROVE IInv'
    OBVIOUS
  <1> USE DEF IInv, Goto, sessVars, goVars, userVars, threadVars
  <1>1. ASSUME NEW c \in Clients, ConnectReq(c) PROVE IInv'
    BY <1>1
       DEF ConnectReq, TypeOK, SessInv, Known, CurrentIsOpen, NoFalseAbort, MonitorState,
           Labels, Threads
  <1>2. ASSUME NEW c \in Clients, ReconnectReq(c) PROVE IInv'
    BY <1>2
       DEF ReconnectReq, TypeOK, SessInv, Known, CurrentIsOpen, NoFalseAbort,
           MonitorState, Labels, Threads
  <1>3. ASSUME NEW c \in Clients, DisconnectReq(c) PROVE IInv'
    BY <1>3
       DEF DisconnectReq, TypeOK, SessInv, Known, CurrentIsOpen, NoFalseAbort,
           MonitorState, Labels, Threads
  <1>4. ASSUME NEW c \in Clients, ConnectDone(c) PROVE IInv'
    <2>1. my[c] \in 1..created
      BY <1>4 DEF ConnectDone, TypeOK, Known, Threads
    <2>2. mon' \in [Sessions -> MonitorState]
      BY <1>4, <2>1 DEF ConnectDone, StartMonitor, TypeOK, SessInv, MonitorState
    <2>3. TypeOK'
      BY <1>4, <2>2 DEF ConnectDone, TypeOK, Labels, Threads
    <2>4. SessInv'
      BY <1>4 DEF ConnectDone, SessInv, NoFalseAbort, CurrentIsOpen
    <2>5. Known'
      BY <1>4 DEF ConnectDone, TypeOK, Known, Threads
    <2> QED
      BY <2>3, <2>4, <2>5
  <1>5. ASSUME NEW c \in Clients, ConnectError(c) PROVE IInv'
    BY <1>5
       DEF ConnectError, TypeOK, SessInv, Known, CurrentIsOpen, NoFalseAbort,
           MonitorState, Labels, Threads
  <1>6. CASE StopReq
    BY <1>6
       DEF StopReq, TypeOK, SessInv, Known, CurrentIsOpen, NoFalseAbort, MonitorState,
           Labels, Threads
  <1>7. ASSUME NEW t \in Clients \cup {Reconnector}, NegotiateFail(t) PROVE IInv'
    BY <1>7
       DEF NegotiateFail, TypeOK, SessInv, Known, CurrentIsOpen, NoFalseAbort,
           MonitorState, Labels, Threads
  <1>8. ASSUME NEW t \in Clients \cup {Reconnector}, Negotiate(t) PROVE IInv'
    <2>1. /\ SessInv' /\ created' = created + 1 /\ CSess' = created + 1
      BY <1>8, NewConnSessionKeeps DEF Negotiate
    <2>2. TypeOK'
      BY <1>8, <2>1
         DEF Negotiate, NewConnSession, TypeOK, SessInv, Known, CurrentIsOpen,
             NoFalseAbort, MonitorState, Labels, Threads
    <2>3. Known'
      BY <1>8, <2>1 DEF Negotiate, TypeOK, SessInv, Known, Threads
    <2> QED
      BY <2>1, <2>2, <2>3
  <1>9. ASSUME NEW t \in Clients \cup {Reconnector}, SetupTun(t) PROVE IInv'
    BY <1>9
       DEF SetupTun, TypeOK, SessInv, Known, CurrentIsOpen, NoFalseAbort, MonitorState,
           Labels, Threads
  <1>10. ASSUME NEW t \in Clients \cup {Reconnector}, SetupTunFail(t) PROVE IInv'
    <2>1. my[t] \in 1..created /\ Close(my[t])
      BY <1>10 DEF SetupTunFail, TypeOK, SessInv, Known, Threads
    <2>2. SessInv' /\ created' = created /\ CSess' = IF CSess = my[t] THEN 0 ELSE CSess
      BY <2>1, CloseKeeps
    <2>3. TypeOK'
      BY <1>10, <2>1, <2>2
         DEF SetupTunFail, Close, TypeOK, SessInv, Known, CurrentIsOpen, NoFalseAbort,
             MonitorState, Labels, Threads
    <2>4. Known'
      BY <1>10, <2>2 DEF SetupTunFail, TypeOK, Known, Threads
    <2> QED
      BY <2>2, <2>3, <2>4
  <1>11. ASSUME NEW t \in Clients \cup {Reconnector}, RoutesSet(t) PROVE IInv'
    <2>1. my[t] \in 1..created
      BY <1>11 DEF RoutesSet, TypeOK, Known, Threads
    <2>2. TypeOK'
      <3>1. tls' \subseteq Sessions /\ routes' \in 0..MaxSessions
        <4>1. my[t] \in Sessions /\ my[t] \in 0..MaxSessions /\ tls \subseteq Sessions
          BY <2>1 DEF TypeOK, SessInv
        <4>2. tls' = tls \cup {my[t]} /\ routes' = my[t]
          BY <1>11 DEF RoutesSet, SetRoutes
        <4> QED
          BY <4>1, <4>2
      <3>2. pc' \in [Threads -> Labels]
        BY <1>11 DEF RoutesSet, TypeOK, Labels
      <3> QED
        BY <1>11, <3>1, <3>2 DEF RoutesSet, TypeOK
    <2>3. SessInv'
      BY <1>11, <2>1 DEF RoutesSet, SessInv, NoFalseAbort, CurrentIsOpen
    <2>4. Known'
      BY <1>11, <2>1 DEF RoutesSet, TypeOK, Known, Threads
    <2> QED
      BY <2>2, <2>3, <2>4
  <1>12. ASSUME NEW t \in Clients \cup {Reconnector}, RoutesFail(t) PROVE IInv'
    <2>1. my[t] \in 1..created /\ Close(my[t])
      BY <1>12 DEF RoutesFail, TypeOK, SessInv, Known, Threads
    <2>2. SessInv' /\ created' = created /\ CSess' = IF CSess = my[t] THEN 0 ELSE CSess
      BY <2>1, CloseKeeps
    <2>3. TypeOK'
      BY <1>12, <2>1, <2>2
         DEF RoutesFail, Close, SetRoutes, TypeOK, SessInv, Known, CurrentIsOpen,
             NoFalseAbort, MonitorState, Labels, Threads
    <2>4. Known'
      BY <1>12, <2>2 DEF RoutesFail, TypeOK, Known, Threads
    <2> QED
      BY <2>2, <2>3, <2>4
  <1>13. ASSUME NEW t \in Threads, DisConnect(t) PROVE IInv'
    BY <1>13
       DEF DisConnect, Return, TypeOK, SessInv, Known, CurrentIsOpen, NoFalseAbort,
           MonitorState, Labels, Threads
  <1>14. ASSUME NEW t \in Threads, DisConnectReset(t) PROVE IInv'
    <2>1. CASE CSess = 0
      BY <1>14, <2>1
         DEF DisConnectReset, Panic, TypeOK, SessInv, Known, CurrentIsOpen, NoFalseAbort,
             MonitorState, Labels, Threads
    <2>2. CASE CSess # 0
      <3>1. TypeOK'
        BY <1>14, <2>2 DEF DisConnectReset, ResetRoutes, TypeOK, Labels, Threads
      <3>2. SessInv'
        BY <1>14, <2>2 DEF DisConnectReset, SessInv, NoFalseAbort, CurrentIsOpen
      <3>3. Known'
        BY <1>14, <2>2 DEF DisConnectReset, TypeOK, Known, Threads
      <3> QED
        BY <3>1, <3>2, <3>3
    <2> QED
      BY <2>1, <2>2
  <1>15. ASSUME NEW t \in Threads, DisConnectClose(t) PROVE IInv'
    <2>1. CASE CSess = 0
      BY <1>15, <2>1
         DEF DisConnectClose, Panic, TypeOK, SessInv, Known, CurrentIsOpen, NoFalseAbort,
             MonitorState, Labels, Threads
    <2>2. CASE CSess # 0
      <3>1. CSess \in 1..created /\ Close(CSess)
        BY <1>15, <2>2 DEF DisConnectClose, SessInv, CurrentIsOpen
      <3>2. SessInv' /\ created' = created /\ CSess' = 0
        BY <3>1, CloseKeeps
      <3>3. TypeOK'
        <4>1. /\ closed' \subseteq Sessions /\ chanClosed' \subseteq Sessions
              /\ ActiveClose' = ActiveClose /\ CloseChan' = CloseChan
          BY <3>1, <3>2 DEF Close, TypeOK, SessInv, NoFalseAbort
        <4>2. /\ pc' \in [Threads -> Labels] /\ asked' \subseteq Clients
              /\ ret' \in [Threads -> {"none", "failed", "cancel", "active", "stop"}]
              /\ agent' \in {"runs", "crashed", "stopped"} /\ intent' = intent
          BY <1>15, <2>2 DEF DisConnectClose, Return, TypeOK, Labels
        <4> QED
          BY <1>15, <2>2, <3>2, <4>1, <4>2 DEF DisConnectClose, TypeOK
      <3>4. Known'
        BY <1>15, <2>2, <3>2 DEF DisConnectClose, Return, TypeOK, Known, Threads
      <3> QED
        BY <3>2, <3>3, <3>4
    <2> QED
      BY <2>1, <2>2
  <1>16. CASE ReconnectLoop
    BY <1>16
       DEF ReconnectLoop, TypeOK, SessInv, Known, CurrentIsOpen, NoFalseAbort,
           MonitorState, Labels, Threads
  <1>17. CASE ReconnectError
    BY <1>17
       DEF ReconnectError, TypeOK, SessInv, Known, CurrentIsOpen, NoFalseAbort,
           MonitorState, Labels, Threads
  <1>18. CASE ReconnectDone
    <2>1. my[Reconnector] \in 1..created
      BY <1>18 DEF ReconnectDone, TypeOK, Known, Threads
    <2>2. mon' \in [Sessions -> MonitorState]
      <3>1. CASE ActiveClose
        BY <1>18, <3>1 DEF ReconnectDone, TypeOK
      <3>2. CASE ~ActiveClose
        <4>1. mon' = [mon EXCEPT ![my[Reconnector]].pc = "start"]
          BY <1>18, <3>2 DEF ReconnectDone, StartMonitor
        <4>2. my[Reconnector] \in Sessions /\ mon \in [Sessions -> MonitorState]
          BY <2>1 DEF SessInv, TypeOK
        <4> QED
          BY <4>1, <4>2 DEF MonitorState
      <3> QED
        BY <3>1, <3>2
    <2>3. TypeOK'
      BY <1>18, <2>2 DEF ReconnectDone, TypeOK, Labels, Threads
    <2>4. SessInv'
      BY <1>18 DEF ReconnectDone, SessInv, NoFalseAbort, CurrentIsOpen
    <2>5. Known'
      BY <1>18 DEF ReconnectDone, TypeOK, Known, Threads
    <2> QED
      BY <2>3, <2>4, <2>5
  <1>19. CASE ReconnectExit
    BY <1>19
       DEF ReconnectExit, TypeOK, SessInv, Known, CurrentIsOpen, NoFalseAbort,
           MonitorState, Labels, Threads
  <1>20. ASSUME NEW s \in Sessions, MonitorStart(s) PROVE IInv'
    BY <1>20
       DEF MonitorStart, TypeOK, SessInv, Known, CurrentIsOpen, NoFalseAbort,
           MonitorState, Labels, Threads
  <1>21. ASSUME NEW s \in Sessions, MonitorNotify(s) PROVE IInv'
    BY <1>21
       DEF MonitorNotify, TypeOK, SessInv, Known, CurrentIsOpen, NoFalseAbort,
           MonitorState, Labels, Threads
  <1>22. ASSUME NEW s \in Sessions, MonitorDecide(s) PROVE IInv'
    BY <1>22
       DEF MonitorDecide, TypeOK, SessInv, Known, CurrentIsOpen, NoFalseAbort,
           MonitorState, Labels, Threads
  <1>23. ASSUME NEW s \in Sessions, TunWriterExit(s) PROVE IInv'
    BY <1>23
       DEF TunWriterExit, ResetRoutes, TypeOK, SessInv, Known, CurrentIsOpen,
           NoFalseAbort, MonitorState, Labels, Threads
  <1>24. ASSUME NEW s \in Sessions, TunWriterClose(s) PROVE IInv'
    <2>1. s \in 1..created /\ Close(s)
      BY <1>24 DEF TunWriterClose, TypeOK, SessInv, Known, Threads
    <2>2. SessInv' /\ created' = created /\ CSess' = IF CSess = s THEN 0 ELSE CSess
      BY <2>1, CloseKeeps
    <2>3. TypeOK'
      BY <1>24, <2>1, <2>2
         DEF TunWriterClose, Close, TypeOK, SessInv, Known, CurrentIsOpen, NoFalseAbort,
             MonitorState, Labels, Threads
    <2>4. Known'
      BY <1>24, <2>2 DEF TunWriterClose, TypeOK, Known, Threads
    <2> QED
      BY <2>2, <2>3, <2>4
  <1>25. ASSUME NEW s \in Sessions, TlsExit(s) PROVE IInv'
    <2>1. s \in 1..created /\ Close(s)
      BY <1>25 DEF TlsExit, TypeOK, SessInv, Known, Threads
    <2>2. SessInv' /\ created' = created /\ CSess' = IF CSess = s THEN 0 ELSE CSess
      BY <2>1, CloseKeeps
    <2>3. TypeOK'
      BY <1>25, <2>1, <2>2
         DEF TlsExit, Close, TypeOK, SessInv, Known, CurrentIsOpen, NoFalseAbort,
             MonitorState, Labels, Threads
    <2>4. Known'
      BY <1>25, <2>2 DEF TlsExit, TypeOK, Known, Threads
    <2> QED
      BY <2>2, <2>3, <2>4
  <1>26. CASE UNCHANGED vars
    BY <1>26 DEF vars, TypeOK, SessInv, Known, CurrentIsOpen, NoFalseAbort
  <1> QED
    BY <1>1, <1>2, <1>3, <1>4, <1>5, <1>6, <1>7, <1>8, <1>9, <1>10, <1>11, <1>12,
       <1>13, <1>14, <1>15, <1>16, <1>17, <1>18, <1>19, <1>20, <1>21, <1>22, <1>23,
       <1>24, <1>25, <1>26
       DEF Next, Request, Setup, Disconnecting, Reconnecting, Monitor, Channels

\* The type invariant, and with it the consistency of the session state.
LEMMA Invariance == Spec => []IInv
  BY InitIInv, NextIInv, PTL DEF Spec

\* Every variable keeps its type.
THEOREM TypeCorrect == Spec => []TypeOK
  BY Invariance, PTL DEF IInv

\* The end of a session is announced only when that session was closed, for
\* any number of clients and in any interleaving (session.go:321-337).
THEOREM NeverFalseAbort == Spec => []NoFalseAbort
  BY Invariance, PTL DEF IInv, SessInv

\* The current session is open, is the newest and owns an open CloseChan, so
\* that close(Sess.CloseChan) finds it open; the bodies of NewConnSession and
\* Close are single steps (session.go:130-153, 332-335).
THEOREM CurrentAlwaysOpen == Spec => []CurrentIsOpen
  BY Invariance, PTL DEF IInv, SessInv

(***************************************************************************)
(* The flag autoReconnecting and the goroutine it stands for.              *)
(***************************************************************************)

\* A step keeps the flag and the auto-reconnect goroutine in agreement.
LEMMA FlagStep ==
  ASSUME IInv, FlagMeansReconnecting, [Next]_vars
  PROVE  FlagMeansReconnecting'
  <1> USE ClientsAssumption DEF IInv, FlagMeansReconnecting, Goto, Running
  <1>1. ASSUME NEW c \in Clients, ConnectReq(c) PROVE FlagMeansReconnecting'
    BY <1>1 DEF ConnectReq, TypeOK, Threads, userVars, threadVars
  <1>2. ASSUME NEW c \in Clients, ReconnectReq(c) PROVE FlagMeansReconnecting'
    BY <1>2 DEF ReconnectReq, TypeOK, Threads, userVars, threadVars
  <1>3. ASSUME NEW c \in Clients, DisconnectReq(c) PROVE FlagMeansReconnecting'
    BY <1>3 DEF DisconnectReq, TypeOK, Threads, userVars, threadVars
  <1>4. ASSUME NEW c \in Clients, ConnectDone(c) PROVE FlagMeansReconnecting'
    BY <1>4 DEF ConnectDone, StartMonitor, TypeOK, Threads, userVars, threadVars
  <1>5. ASSUME NEW c \in Clients, ConnectError(c) PROVE FlagMeansReconnecting'
    BY <1>5 DEF ConnectError, TypeOK, Threads, userVars, threadVars
  <1>6. CASE StopReq
    BY <1>6 DEF StopReq, TypeOK, Threads, userVars, threadVars
  <1>7. ASSUME NEW t \in Clients \cup {Reconnector}, NegotiateFail(t)
        PROVE  FlagMeansReconnecting'
    BY <1>7 DEF NegotiateFail, TypeOK, Threads, userVars, threadVars
  <1>8. ASSUME NEW t \in Clients \cup {Reconnector}, Negotiate(t) PROVE FlagMeansReconnecting'
    BY <1>8 DEF Negotiate, TypeOK, Threads, userVars, threadVars
  <1>9. ASSUME NEW t \in Clients \cup {Reconnector}, SetupTun(t) PROVE FlagMeansReconnecting'
    BY <1>9 DEF SetupTun, TypeOK, Threads, userVars, threadVars
  <1>10. ASSUME NEW t \in Clients \cup {Reconnector}, SetupTunFail(t)
        PROVE  FlagMeansReconnecting'
    BY <1>10 DEF SetupTunFail, TypeOK, Threads, userVars, threadVars
  <1>11. ASSUME NEW t \in Clients \cup {Reconnector}, RoutesSet(t) PROVE FlagMeansReconnecting'
    BY <1>11 DEF RoutesSet, TypeOK, Threads, userVars, threadVars
  <1>12. ASSUME NEW t \in Clients \cup {Reconnector}, RoutesFail(t)
        PROVE  FlagMeansReconnecting'
    BY <1>12 DEF RoutesFail, TypeOK, Threads, userVars, threadVars
  <1>13. ASSUME NEW t \in Threads, DisConnect(t) PROVE FlagMeansReconnecting'
    BY <1>13 DEF DisConnect, Return, TypeOK, Threads, userVars, threadVars
  <1>14. ASSUME NEW t \in Threads, DisConnectReset(t) PROVE FlagMeansReconnecting'
    BY <1>14 DEF DisConnectReset, Panic, TypeOK, Threads, userVars, threadVars
  <1>15. ASSUME NEW t \in Threads, DisConnectClose(t) PROVE FlagMeansReconnecting'
    BY <1>15 DEF DisConnectClose, Return, Panic, TypeOK, Threads, userVars, threadVars
  <1>16. CASE ReconnectLoop
    BY <1>16 DEF ReconnectLoop, TypeOK, Threads, userVars, threadVars
  <1>17. CASE ReconnectError
    BY <1>17 DEF ReconnectError, TypeOK, Threads, userVars, threadVars
  <1>18. CASE ReconnectDone
    BY <1>18 DEF ReconnectDone, StartMonitor, TypeOK, Threads, userVars, threadVars
  <1>19. CASE ReconnectExit
    BY <1>19 DEF ReconnectExit, TypeOK, Threads, userVars, threadVars
  <1>20. ASSUME NEW s \in Sessions, MonitorStart(s) PROVE FlagMeansReconnecting'
    BY <1>20 DEF MonitorStart, TypeOK, Threads, userVars, threadVars
  <1>21. ASSUME NEW s \in Sessions, MonitorNotify(s) PROVE FlagMeansReconnecting'
    BY <1>21 DEF MonitorNotify, TypeOK, Threads, userVars, threadVars
  <1>22. ASSUME NEW s \in Sessions, MonitorDecide(s) PROVE FlagMeansReconnecting'
    BY <1>22 DEF MonitorDecide, TypeOK, Threads, userVars, threadVars
  <1>23. ASSUME NEW s \in Sessions, TunWriterExit(s) PROVE FlagMeansReconnecting'
    BY <1>23 DEF TunWriterExit, TypeOK, Threads, userVars, threadVars
  <1>24. ASSUME NEW s \in Sessions, TunWriterClose(s) PROVE FlagMeansReconnecting'
    BY <1>24 DEF TunWriterClose, TypeOK, Threads, userVars, threadVars
  <1>25. ASSUME NEW s \in Sessions, TlsExit(s) PROVE FlagMeansReconnecting'
    BY <1>25 DEF TlsExit, TypeOK, Threads, userVars, threadVars
  <1>26. CASE UNCHANGED vars
    BY <1>26 DEF vars, TypeOK, Threads, userVars, threadVars
  <1> QED
    BY <1>1, <1>2, <1>3, <1>4, <1>5, <1>6, <1>7, <1>8, <1>9, <1>10, <1>11, <1>12,
       <1>13, <1>14, <1>15, <1>16, <1>17, <1>18, <1>19, <1>20, <1>21, <1>22, <1>23,
       <1>24, <1>25, <1>26
       DEF Next, Request, Setup, Disconnecting, Reconnecting, Monitor, Channels

\* The flag that CONNECT and DISCONNECT test is up exactly while the
\* auto-reconnect goroutine lives (rpc.go:151, 198, 258-262).
THEOREM FlagCorrect == Spec => []FlagMeansReconnecting
  <1>1. Init => FlagMeansReconnecting
    BY DEF Init, FlagMeansReconnecting, Threads
  <1> QED
    BY <1>1, FlagStep, Invariance, PTL DEF Spec

(***************************************************************************)
(* Somebody will notice the end of the current session.                    *)
(***************************************************************************)

\* A step never leaves the current session without a watcher.
LEMMA WatchedStep ==
  ASSUME IInv, FlagMeansReconnecting, WatchedSession, [Next]_vars
  PROVE  WatchedSession'
  <1> USE ClientsAssumption DEF IInv, FlagMeansReconnecting, WatchedSession, Goto, Running
  <1>1. ASSUME NEW c \in Clients, ConnectReq(c) PROVE WatchedSession'
    BY <1>1
       DEF ConnectReq, TypeOK, SessInv, Threads, sessVars, userVars, threadVars, goVars
  <1>2. ASSUME NEW c \in Clients, ReconnectReq(c) PROVE WatchedSession'
    BY <1>2
       DEF ReconnectReq, TypeOK, SessInv, Threads, sessVars, userVars, threadVars, goVars
  <1>3. ASSUME NEW c \in Clients, DisconnectReq(c) PROVE WatchedSession'
    BY <1>3
       DEF DisconnectReq, TypeOK, SessInv, Threads, sessVars, userVars, threadVars, goVars
  <1>4. ASSUME NEW c \in Clients, ConnectDone(c) PROVE WatchedSession'
    BY <1>4
       DEF ConnectDone, StartMonitor, Known, MonitorState, TypeOK, SessInv, Threads,
           sessVars, userVars, threadVars, goVars
  <1>5. ASSUME NEW c \in Clients, ConnectError(c) PROVE WatchedSession'
    BY <1>5
       DEF ConnectError, TypeOK, SessInv, Threads, sessVars, userVars, threadVars, goVars
  <1>6. CASE StopReq
    BY <1>6 DEF StopReq, TypeOK, SessInv, Threads, sessVars, userVars, threadVars, goVars
  <1>7. ASSUME NEW t \in Clients \cup {Reconnector}, NegotiateFail(t) PROVE WatchedSession'
    BY <1>7
       DEF NegotiateFail, TypeOK, SessInv, Threads, sessVars, userVars, threadVars, goVars
  <1>8. ASSUME NEW t \in Clients \cup {Reconnector}, Negotiate(t) PROVE WatchedSession'
    BY <1>8
       DEF Negotiate, NewConnSession, Known, TypeOK, SessInv, Threads, sessVars, userVars,
           threadVars, goVars
  <1>9. ASSUME NEW t \in Clients \cup {Reconnector}, SetupTun(t) PROVE WatchedSession'
    BY <1>9 DEF SetupTun, TypeOK, SessInv, Threads, sessVars, userVars, threadVars, goVars
  <1>10. ASSUME NEW t \in Clients \cup {Reconnector}, SetupTunFail(t) PROVE WatchedSession'
    BY <1>10
       DEF SetupTunFail, Close, CurrentIsOpen, TypeOK, SessInv, Threads, sessVars,
           userVars, threadVars, goVars
  <1>11. ASSUME NEW t \in Clients \cup {Reconnector}, RoutesSet(t) PROVE WatchedSession'
    BY <1>11
       DEF RoutesSet, TypeOK, SessInv, Threads, sessVars, userVars, threadVars, goVars
  <1>12. ASSUME NEW t \in Clients \cup {Reconnector}, RoutesFail(t) PROVE WatchedSession'
    BY <1>12
       DEF RoutesFail, Close, CurrentIsOpen, TypeOK, SessInv, Threads, sessVars, userVars,
           threadVars, goVars
  <1>13. ASSUME NEW t \in Threads, DisConnect(t) PROVE WatchedSession'
    BY <1>13
       DEF DisConnect, Return, TypeOK, SessInv, Threads, sessVars, userVars, threadVars,
           goVars
  <1>14. ASSUME NEW t \in Threads, DisConnectReset(t) PROVE WatchedSession'
    BY <1>14
       DEF DisConnectReset, Panic, TypeOK, SessInv, Threads, sessVars, userVars,
           threadVars, goVars
  <1>15. ASSUME NEW t \in Threads, DisConnectClose(t) PROVE WatchedSession'
    BY <1>15
       DEF DisConnectClose, Return, Panic, Close, CurrentIsOpen, TypeOK, SessInv, Threads,
           sessVars, userVars, threadVars, goVars
  <1>16. CASE ReconnectLoop
    BY <1>16
       DEF ReconnectLoop, TypeOK, SessInv, Threads, sessVars, userVars, threadVars, goVars
  <1>17. CASE ReconnectError
    BY <1>17
       DEF ReconnectError, TypeOK, SessInv, Threads, sessVars, userVars, threadVars,
           goVars
  <1>18. CASE ReconnectDone
    BY <1>18
       DEF ReconnectDone, StartMonitor, Known, MonitorState, TypeOK, SessInv, Threads,
           sessVars, userVars, threadVars, goVars
  <1>19. CASE ReconnectExit
    BY <1>19
       DEF ReconnectExit, TypeOK, SessInv, Threads, sessVars, userVars, threadVars, goVars
  <1>20. ASSUME NEW s \in Sessions, MonitorStart(s) PROVE WatchedSession'
    BY <1>20
       DEF MonitorStart, CurrentIsOpen, MonitorState, TypeOK, SessInv, Threads, sessVars,
           userVars, threadVars, goVars
  <1>21. ASSUME NEW s \in Sessions, MonitorNotify(s) PROVE WatchedSession'
    BY <1>21
       DEF MonitorNotify, CurrentIsOpen, MonitorState, TypeOK, SessInv, Threads, sessVars,
           userVars, threadVars, goVars
  <1>22. ASSUME NEW s \in Sessions, MonitorDecide(s) PROVE WatchedSession'
    BY <1>22
       DEF MonitorDecide, CurrentIsOpen, MonitorState, TypeOK, SessInv, Threads, sessVars,
           userVars, threadVars, goVars
  <1>23. ASSUME NEW s \in Sessions, TunWriterExit(s) PROVE WatchedSession'
    BY <1>23
       DEF TunWriterExit, TypeOK, SessInv, Threads, sessVars, userVars, threadVars, goVars
  <1>24. ASSUME NEW s \in Sessions, TunWriterClose(s) PROVE WatchedSession'
    BY <1>24
       DEF TunWriterClose, Close, CurrentIsOpen, TypeOK, SessInv, Threads, sessVars,
           userVars, threadVars, goVars
  <1>25. ASSUME NEW s \in Sessions, TlsExit(s) PROVE WatchedSession'
    BY <1>25
       DEF TlsExit, Close, CurrentIsOpen, TypeOK, SessInv, Threads, sessVars, userVars,
           threadVars, goVars
  <1>26. CASE UNCHANGED vars
    BY <1>26 DEF vars, TypeOK, SessInv, Threads, sessVars, userVars, threadVars, goVars
  <1> QED
    BY <1>1, <1>2, <1>3, <1>4, <1>5, <1>6, <1>7, <1>8, <1>9, <1>10, <1>11, <1>12,
       <1>13, <1>14, <1>15, <1>16, <1>17, <1>18, <1>19, <1>20, <1>21, <1>22, <1>23,
       <1>24, <1>25, <1>26
       DEF Next, Request, Setup, Disconnecting, Reconnecting, Monitor, Channels

\* In every interleaving the end of the current session is waited for by a
\* monitor, or the session is still in the hands of the goroutine that sets
\* it up or takes it down (rpc.go:178, 195, 283-289).
THEOREM AlwaysWatched == Spec => []WatchedSession
  <1>1. Init => WatchedSession
    BY DEF Init, WatchedSession
  <1> QED
    BY <1>1, WatchedStep, FlagCorrect, Invariance, PTL DEF Spec

(***************************************************************************)
(* Lifecycle implements SessionRegister.                                   *)
(***************************************************************************)

\* A step of the agent is a step of the register or leaves it alone.
LEMMA RegisterStep ==
  ASSUME IInv, [Next]_vars
  PROVE  [Register!Next]_<<CSess, created, chanClosed>>
  <1> USE DEF IInv, Register!Next, Register!Open, Register!End
  <1>1. ASSUME NEW c \in Clients, ConnectReq(c)
        PROVE  [Register!Next]_<<CSess, created, chanClosed>>
    BY <1>1 DEF ConnectReq, SessInv, sessVars
  <1>2. ASSUME NEW c \in Clients, ReconnectReq(c)
        PROVE  [Register!Next]_<<CSess, created, chanClosed>>
    BY <1>2 DEF ReconnectReq, SessInv, sessVars
  <1>3. ASSUME NEW c \in Clients, DisconnectReq(c)
        PROVE  [Register!Next]_<<CSess, created, chanClosed>>
    BY <1>3 DEF DisconnectReq, SessInv, sessVars
  <1>4. ASSUME NEW c \in Clients, ConnectDone(c)
        PROVE  [Register!Next]_<<CSess, created, chanClosed>>
    BY <1>4 DEF ConnectDone, SessInv, sessVars
  <1>5. ASSUME NEW c \in Clients, ConnectError(c)
        PROVE  [Register!Next]_<<CSess, created, chanClosed>>
    BY <1>5 DEF ConnectError, SessInv, sessVars
  <1>6. CASE StopReq
    BY <1>6 DEF StopReq, SessInv, sessVars
  <1>7. ASSUME NEW t \in Clients \cup {Reconnector}, NegotiateFail(t)
        PROVE  [Register!Next]_<<CSess, created, chanClosed>>
    BY <1>7 DEF NegotiateFail, SessInv, sessVars
  <1>8. ASSUME NEW t \in Clients \cup {Reconnector}, Negotiate(t)
        PROVE  [Register!Next]_<<CSess, created, chanClosed>>
    BY <1>8 DEF Negotiate, NewConnSession, SessInv, sessVars
  <1>9. ASSUME NEW t \in Clients \cup {Reconnector}, SetupTun(t)
        PROVE  [Register!Next]_<<CSess, created, chanClosed>>
    BY <1>9 DEF SetupTun, SessInv, sessVars
  <1>10. ASSUME NEW t \in Clients \cup {Reconnector}, SetupTunFail(t)
        PROVE  [Register!Next]_<<CSess, created, chanClosed>>
    <2>1. my[t] # 0
      BY <1>10 DEF SetupTunFail, Known, Threads
    <2> QED
      BY <1>10, <2>1 DEF SetupTunFail, Close, CurrentIsOpen, SessInv, sessVars
  <1>11. ASSUME NEW t \in Clients \cup {Reconnector}, RoutesSet(t)
        PROVE  [Register!Next]_<<CSess, created, chanClosed>>
    BY <1>11 DEF RoutesSet, SessInv, sessVars
  <1>12. ASSUME NEW t \in Clients \cup {Reconnector}, RoutesFail(t)
        PROVE  [Register!Next]_<<CSess, created, chanClosed>>
    <2>1. my[t] # 0
      BY <1>12 DEF RoutesFail, Known, Threads
    <2> QED
      BY <1>12, <2>1 DEF RoutesFail, Close, CurrentIsOpen, SessInv, sessVars
  <1>13. ASSUME NEW t \in Threads, DisConnect(t)
        PROVE  [Register!Next]_<<CSess, created, chanClosed>>
    BY <1>13 DEF DisConnect, SessInv, sessVars
  <1>14. ASSUME NEW t \in Threads, DisConnectReset(t)
        PROVE  [Register!Next]_<<CSess, created, chanClosed>>
    BY <1>14 DEF DisConnectReset, SessInv, sessVars
  <1>15. ASSUME NEW t \in Threads, DisConnectClose(t)
        PROVE  [Register!Next]_<<CSess, created, chanClosed>>
    BY <1>15 DEF DisConnectClose, Close, CurrentIsOpen, SessInv, sessVars
  <1>16. CASE ReconnectLoop
    BY <1>16 DEF ReconnectLoop, SessInv, sessVars
  <1>17. CASE ReconnectError
    BY <1>17 DEF ReconnectError, SessInv, sessVars
  <1>18. CASE ReconnectDone
    BY <1>18 DEF ReconnectDone, SessInv, sessVars
  <1>19. CASE ReconnectExit
    BY <1>19 DEF ReconnectExit, SessInv, sessVars
  <1>20. ASSUME NEW s \in Sessions, MonitorStart(s)
        PROVE  [Register!Next]_<<CSess, created, chanClosed>>
    BY <1>20 DEF MonitorStart, SessInv, sessVars
  <1>21. ASSUME NEW s \in Sessions, MonitorNotify(s)
        PROVE  [Register!Next]_<<CSess, created, chanClosed>>
    BY <1>21 DEF MonitorNotify, SessInv, sessVars
  <1>22. ASSUME NEW s \in Sessions, MonitorDecide(s)
        PROVE  [Register!Next]_<<CSess, created, chanClosed>>
    BY <1>22 DEF MonitorDecide, SessInv, sessVars
  <1>23. ASSUME NEW s \in Sessions, TunWriterExit(s)
        PROVE  [Register!Next]_<<CSess, created, chanClosed>>
    BY <1>23 DEF TunWriterExit, SessInv, sessVars
  <1>24. ASSUME NEW s \in Sessions, TunWriterClose(s)
        PROVE  [Register!Next]_<<CSess, created, chanClosed>>
    BY <1>24 DEF TunWriterClose, Close, CurrentIsOpen, SessInv, sessVars
  <1>25. ASSUME NEW s \in Sessions, TlsExit(s)
        PROVE  [Register!Next]_<<CSess, created, chanClosed>>
    BY <1>25 DEF TlsExit, Close, CurrentIsOpen, SessInv, sessVars
  <1>26. CASE UNCHANGED vars
    BY <1>26 DEF vars, SessInv, sessVars
  <1> QED
    BY <1>1, <1>2, <1>3, <1>4, <1>5, <1>6, <1>7, <1>8, <1>9, <1>10, <1>11, <1>12,
       <1>13, <1>14, <1>15, <1>16, <1>17, <1>18, <1>19, <1>20, <1>21, <1>22, <1>23,
       <1>24, <1>25, <1>26
       DEF Next, Request, Setup, Disconnecting, Reconnecting, Monitor, Channels

\* Whatever the clients, the server and the network do, session.Sess, whose
\* NewConnSession and Close are single steps here, behaves as the register: new
\* sessions only, and a session leaves it by its own end, announced once, or by
\* being replaced (session.go:130-153, 321-337).
THEOREM Refinement == Spec => ImplementsRegister
  <1>1. Init => Register!Init
    BY DEF Init, Register!Init
  <1> QED
    BY <1>1, RegisterStep, Invariance, PTL DEF Spec, ImplementsRegister, Register!Spec

=============================================================================
