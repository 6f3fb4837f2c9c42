--------------------------- MODULE TunDeviceProofs ---------------------------
(***************************************************************************)
(* Proofs about TunDevice, for any capacity of the events channel and any  *)
(* number of changes of the interface.                                     *)
(***************************************************************************)
EXTENDS TunDevice, TLAPS

USE EventsCapAssumption, MaxChangesAssumption

(***************************************************************************)
(* The inductive invariant.                                                *)
(***************************************************************************)

Labels ==
  {"none", "create", "mtu", "configure", "done", "failed", "probe", "send", "sleep", "recv",
   "poll", "check", "exit", "lock", "read", "blocked", "select", "dtls", "write", "use", "wait",
   "close", "c1", "c2", "c3"}

InClose == {"c1", "c2", "c3"}
InCall  == {"check", "use", "wait"}

Types ==
  /\ os \in {"linux", "darwin", "windows"}
  /\ pc \in [Procs -> Labels]
  /\ file \in {"none", "open", "closed"} /\ once \in {"free", "running", "done"}
  /\ closes \in Nat /\ evClosed \in Nat /\ running \in Nat

\* Who is where: the pumps run after the set-up, the listeners where there are
\* any, and only setupTun and the pumps close the device.
Places ==
  /\ pc["setup"] \in {"create", "mtu", "configure", "done", "failed", "close"} \cup InClose
  /\ pc["setup"] = "create" => \A p \in Procs \ {"setup"} : pc[p] = "none"
  /\ pc["setup"] # "done" => pc["reader"] = "none" /\ pc["writer"] = "none"
  /\ pc["hack"] \in {"none", "probe", "send", "sleep", "done"}
  /\ pc["route"] \in {"none", "recv", "poll", "check", "send", "exit", "lock", "done"}
  /\ os = "windows" => pc["route"] = "none" /\ pc["setup"] # "mtu" /\ ~mtuFailed
  /\ os # "windows" => \A p \in Pumps : pc[p] \notin InCall
  /\ pc["setup"] = "mtu" => pc["route"] # "none"
  /\ os # "linux" => pc["hack"] = "none"
  /\ os = "darwin" => pc["route"] \in {"none", "recv", "send", "done"}

\* closeOnce: one caller at most is inside, and nobody comes after it.
OneCloser ==
  /\ \A p, q \in Closers : pc[p] \in InClose /\ pc[q] \in InClose => p = q
  /\ (\E p \in Closers : pc[p] \in InClose) <=> once = "running"
  /\ pc["setup"] = "create" => once = "free"

\* Who closes the events channel: a listener when it ends, with the other one
\* gone; on Windows Close, or a CreateTUN that fails.
EventsClosed ==
  /\ os # "windows" => evClosed = IF pc["route"] = "done" THEN 1 ELSE 0
  /\ os = "linux" /\ pc["route"] = "done" => pc["hack"] = "done"
  /\ os = "windows" => /\ evClosed <= 1
                       /\ once # "done" /\ pc["setup"] # "failed" => evClosed = 0

\* Who closes the socket: its listener on Linux, Close on macOS.
SocketClosed ==
  /\ pc["setup"] = "create" => closes = 0 /\ sock = "none"
  /\ os = "linux" /\ ~mtuFailed /\ pc["route"] # "none" =>
       closes = IF pc["route"] \in {"lock", "done"} THEN 1 ELSE 0
  /\ os = "linux" /\ pc["route"] = "none" => closes <= 1
  /\ os = "darwin" => /\ closes <= 1
                      /\ once # "done" => closes = 0
  /\ os = "windows" => closes = 0

\* Windows: running counts the calls of Read and Write, and once Close has seen
\* it at zero nobody gets past the test of tun.close.
Counted ==
  os = "windows" =>
    /\ running = (IF pc["reader"] \in InCall THEN 1 ELSE 0)
                   + (IF pc["writer"] \in InCall THEN 1 ELSE 0)
    /\ \A p \in Closers : pc[p] \in {"c2", "c3"} => shutdown
    /\ once = "done" => shutdown
    /\ file = "closed" => once = "done" \/ pc["setup"] = "failed"
    /\ once = "done" \/ (\E p \in Closers : pc[p] = "c3") =>
         \A p \in Pumps : pc[p] \notin {"use", "wait"}

Inv == Types /\ Places /\ OneCloser /\ EventsClosed /\ SocketClosed /\ Counted

\* Init establishes the invariant.
LEMMA InitInv == Init => Inv
  BY DEF Init, Inv, Types, Labels, Places, InClose, OneCloser, EventsClosed, SocketClosed,
         Counted, InCall, Procs, Pumps, Closers

\* Every step preserves it.
LEMMA NextInv == Inv /\ [Next]_vars => Inv'
  <1> SUFFICES ASSUME Inv, [Next]_vars PROVE Inv'
    OBVIOUS
  <1> USE DEF Inv, Types, Labels, Places, InClose, OneCloser, EventsClosed, SocketClosed,
              Counted, InCall, Procs, Pumps, Closers, Unix, Goto, chans, socket, link
  <1>1. CASE CreateFails
    <2>1. Types'
      BY <1>1 DEF CreateFails
    <2>2. Places'
      BY <1>1 DEF CreateFails
    <2>3. OneCloser'
      BY <1>1 DEF CreateFails
    <2>4. EventsClosed'
      BY <1>1 DEF CreateFails
    <2>5. SocketClosed'
      BY <1>1 DEF CreateFails
    <2>6. Counted'
      BY <1>1 DEF CreateFails
    <2> QED
      BY <2>1, <2>2, <2>3, <2>4, <2>5, <2>6
  <1>2. CASE Create
    BY <1>2 DEF Create
  <1>3. CASE SetMTU
    BY <1>3 DEF SetMTU
  <1>4. CASE SetMTUFails
    <2>1. Types'
      BY <1>4 DEF SetMTUFails
    <2>2. Places'
      BY <1>4 DEF SetMTUFails
    <2>3. OneCloser'
      BY <1>4 DEF SetMTUFails
    <2>4. EventsClosed'
      BY <1>4 DEF SetMTUFails
    <2>5. SocketClosed'
      BY <1>4 DEF SetMTUFails
    <2>6. Counted'
      BY <1>4 DEF SetMTUFails
    <2> QED
      BY <2>1, <2>2, <2>3, <2>4, <2>5, <2>6
  <1>5. CASE Configure
    BY <1>5 DEF Configure
  <1>6. CASE HackProbe
    BY <1>6 DEF HackProbe
  <1>7. CASE HackSend
    BY <1>7 DEF HackSend, Send
  <1>8. CASE HackSleep
    BY <1>8 DEF HackSleep
  <1>9. CASE NetlinkPoll
    BY <1>9 DEF NetlinkPoll
  <1>10. CASE NetlinkRecv
    BY <1>10 DEF NetlinkRecv
  <1>11. CASE NetlinkCheck
    BY <1>11 DEF NetlinkCheck, Emits
  <1>12. CASE RouteSend
    BY <1>12 DEF RouteSend, Send
  <1>13. CASE NetlinkExits
    BY <1>13 DEF NetlinkExits
  <1>14. CASE NetlinkCloses
    BY <1>14 DEF NetlinkCloses
  <1>15. CASE RouteRecv
    BY <1>15 DEF RouteRecv
  <1>16. CASE RouteExits
    BY <1>16 DEF RouteExits
  <1>17. CASE ReadUnix
    BY <1>17 DEF ReadUnix
  <1>18. CASE ReadReturns
    BY <1>18 DEF ReadReturns, ReaderHasPacket
  <1>19. CASE ReaderSends
    BY <1>19 DEF ReaderSends
  <1>38. CASE ReaderReleased
    BY <1>38 DEF ReaderReleased
  <1>20. CASE Wait
    BY <1>20 DEF Wait
  <1>21. CASE WriterTakes
    BY <1>21 DEF WriterTakes
  <1>22. CASE WriterEnds
    BY <1>22 DEF WriterEnds
  <1>23. CASE WriteUnix
    BY <1>23 DEF WriteUnix
  <1>24. CASE SessionEnds
    BY <1>24 DEF SessionEnds
  <1>25. CASE Signal
    BY <1>25 DEF Signal
  <1>26. CASE LinkChanges
    BY <1>26 DEF LinkChanges
  <1>27. ASSUME NEW p \in Pumps, Enter(p) PROVE Inv'
    BY <1>27 DEF Enter
  <1>28. ASSUME NEW p \in Pumps, Check(p) PROVE Inv'
    <2>1. Types'
      BY <1>28 DEF Check, Fails
    <2>2. Places'
      BY <1>28 DEF Check, Fails
    <2>3. OneCloser'
      BY <1>28 DEF Check, Fails
    <2>4. EventsClosed'
      BY <1>28 DEF Check, Fails
    <2>5. SocketClosed'
      BY <1>28 DEF Check, Fails
    <2>6. Counted'
      BY <1>28 DEF Check, Fails
    <2> QED
      BY <2>1, <2>2, <2>3, <2>4, <2>5, <2>6
  <1>29. ASSUME NEW p \in Pumps, Use(p) PROVE Inv'
    <2>1. Types'
      BY <1>29 DEF Use, Fails, ReaderHasPacket
    <2>2. Places'
      BY <1>29 DEF Use, Fails, ReaderHasPacket
    <2>3. OneCloser'
      BY <1>29 DEF Use, Fails, ReaderHasPacket
    <2>4. EventsClosed'
      BY <1>29 DEF Use, Fails, ReaderHasPacket
    <2>5. SocketClosed'
      BY <1>29 DEF Use, Fails, ReaderHasPacket
    <2>6. Counted'
      BY <1>29 DEF Use, Fails, ReaderHasPacket
    <2> QED
      BY <2>1, <2>2, <2>3, <2>4, <2>5, <2>6
  <1>30. ASSUME NEW p \in Closers, CloseBegins(p) PROVE Inv'
    BY <1>30 DEF CloseBegins, Finished
  <1>31. ASSUME NEW p \in Closers, CloseLinux1(p) PROVE Inv'
    BY <1>31 DEF CloseLinux1, Finished
  <1>32. ASSUME NEW p \in Closers, CloseLinux2(p) PROVE Inv'
    BY <1>32 DEF CloseLinux2, Finished
  <1>33. ASSUME NEW p \in Closers, CloseLinux3(p) PROVE Inv'
    BY <1>33 DEF CloseLinux3, Finished
  <1>34. ASSUME NEW p \in Closers, CloseDarwin(p) PROVE Inv'
    BY <1>34 DEF CloseDarwin, Finished
  <1>35. ASSUME NEW p \in Closers, CloseWindows1(p) PROVE Inv'
    BY <1>35 DEF CloseWindows1, Finished
  <1>36. ASSUME NEW p \in Closers, CloseWindows2(p) PROVE Inv'
    BY <1>36 DEF CloseWindows2, Finished
  <1>37. CASE UNCHANGED vars
    BY <1>37 DEF vars
  <1> QED
    BY <1>1, <1>2, <1>3, <1>4, <1>5, <1>6, <1>7, <1>8, <1>9, <1>10, <1>11, <1>12,
       <1>13, <1>14, <1>15, <1>16, <1>17, <1>18, <1>19, <1>20, <1>21, <1>22, <1>23,
       <1>24, <1>25, <1>26, <1>27, <1>28, <1>29, <1>30, <1>31, <1>32, <1>33, <1>34,
       <1>35, <1>36, <1>37, <1>38
       DEF Next, Listeners, Reader, Writer, CloseSteps

\* The invariant holds throughout.
LEMMA Invariant == Spec => []Inv
  BY InitInv, NextInv, PTL DEF Spec

(***************************************************************************)
(* The properties.                                                         *)
(***************************************************************************)

\* tun_linux.go:117-122, tun_darwin.go, tun_windows.go: however the listeners,
\* the two pumps and the set-up interleave, the events channel is closed at most
\* once and no listener is about to send on it then.
THEOREM SendsSafe == Spec => []SendsAreSafe
  <1>1. Inv => SendsAreSafe
    BY DEF Inv, Types, Places, EventsClosed, SendsAreSafe
  <1> QED
    BY <1>1, Invariant, PTL

\* The listener's socket is closed at most once, except after setMTU failed on
\* Linux.
THEOREM ClosedOnce == Spec => []SocketClosedOnce
  <1>1. Inv => SocketClosedOnce
    BY DEF Inv, Types, SocketClosed, SocketClosedOnce
  <1> QED
    BY <1>1, Invariant, PTL

\* tun_windows.go:114-127: Close ends the wintun session only when no Read and no
\* Write is inside it, and none gets in afterwards.
THEOREM NobodyInWintun == Spec => []WintunAlive
  <1>1. Inv => WintunAlive
    BY DEF Inv, Types, Places, Counted, Pumps, Procs, WintunAlive
  <1> QED
    BY <1>1, Invariant, PTL

=============================================================================
