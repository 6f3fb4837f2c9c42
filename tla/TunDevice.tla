------------------------------ MODULE TunDevice ------------------------------
(***************************************************************************)
(* The tun device (tun/tun.go) on Linux, macOS and Windows, from CreateTUN *)
(* to the end of the goroutines that use it: the listeners that follow the *)
(* interface's state, tunToPayloadOut, which reads packets, and            *)
(* payloadInToTun, which writes them.  Both of these, and setupTun when it *)
(* fails, call Close.                                                      *)
(*                                                                         *)
(* One device per behaviour.  Packets are not told apart, and of the       *)
(* events channel only the number of buffered events is kept: no code of   *)
(* the repository receives from it.                                        *)
(***************************************************************************)
EXTENDS Naturals

CONSTANTS
  EventsCap,        \* capacity of tun.events (5 on Linux, 10 elsewhere)
  MaxChanges        \* bound: changes of the interface's state
ASSUME EventsCapAssumption == EventsCap \in Nat \ {0}
ASSUME MaxChangesAssumption == MaxChanges \in Nat

Pumps == {"reader", "writer"}
Procs == Pumps \cup {"setup", "hack", "route"}

VARIABLES
  os,         \* runtime.GOOS
  pc,         \* where each goroutine is
  file,       \* tunFile, or the wintun session and adapter: "none", "open", "closed"
  sock,       \* netlinkSock or routeSocket: "none", "open", "shut", "closed"
  closes,     \* how often the socket was closed
  cancel,     \* the pipe of netlinkCancel: "none", "open", "written", "closed"
  events,     \* events buffered
  evClosed,   \* how often tun.events was closed
  errors,     \* errors buffered
  shutdown,   \* statusListenersShutdown is closed; tun.close on Windows
  once,       \* closeOnce: "free", "running", "done"
  up,         \* the interface is up
  changes,    \* changes of the interface so far
  news,       \* messages about the interface waiting on the socket
  last,       \* what routineHackListener saw last
  pend,       \* events of one message the other listener has still to send
  running,    \* Windows: the WaitGroup
  readWait,   \* Windows: the event is signalled
  ended,      \* cSess.CloseChan is closed
  dsess,      \* cSess.DSess.CloseChan is closed
  mtuFailed   \* history: setMTU failed

chans == <<events, evClosed, errors>>
socket == <<sock, closes, cancel>>
link == <<up, changes, news>>
sess == <<ended, dsess>>
vars == <<os, pc, file, socket, chans, shutdown, once, link, last, pend, running,
          readWait, sess, mtuFailed>>

Unix == os \in {"linux", "darwin"}

Init ==
  /\ os \in {"linux", "darwin", "windows"}
  /\ pc = [p \in Procs |-> IF p = "setup" THEN "create" ELSE "none"]
  /\ file = "none" /\ sock = "none" /\ closes = 0 /\ cancel = "none"
  /\ events = 0 /\ evClosed = 0 /\ errors = 0
  /\ shutdown = FALSE /\ once = "free"
  /\ up = FALSE /\ changes = 0 /\ news = 0 /\ last = "none" /\ pend = 0
  /\ running = 0 /\ readWait = FALSE /\ ended = FALSE /\ dsess = FALSE
  /\ mtuFailed = FALSE

Goto(p, l) == pc' = [pc EXCEPT ![p] = l]

(***************************************************************************)
(* CreateTUN and setupTun                                                  *)
(***************************************************************************)

\* No device: the file is closed, or left to its finalizer; a netlink socket
\* that cannot be bound is left open.  On Windows the adapter is closed.
CreateFails ==
  /\ pc["setup"] = "create"
  /\ Goto("setup", "failed") /\ file' = "closed"
  /\ \/ os = "linux" /\ sock' \in {"none", "open", "closed"}
     \/ os # "linux" /\ UNCHANGED sock
  /\ closes' = IF sock' = "closed" THEN 1 ELSE 0
  /\ IF os = "windows" THEN evClosed' \in {0, 1} ELSE UNCHANGED evClosed
  /\ UNCHANGED <<os, cancel, events, errors, shutdown, once, link, last, pend, running,
                 readWait, sess, mtuFailed>>

\* The device is open and its listeners run; hackListenerClosed is locked.
Create ==
  /\ pc["setup"] = "create" /\ file' = "open"
  /\ pc' = [pc EXCEPT !["setup"] = IF Unix THEN "mtu" ELSE "configure",
                      !["hack"] = IF os = "linux" THEN "probe" ELSE "none",
                      !["route"] = IF Unix THEN "recv" ELSE "none"]
  /\ sock' = IF Unix THEN "open" ELSE "none"
  /\ cancel' = IF os = "linux" THEN "open" ELSE "none"
  /\ UNCHANGED <<os, closes, chans, shutdown, once, link, last, pend, running, readWait,
                 sess, mtuFailed>>

SetMTU ==
  /\ pc["setup"] = "mtu" /\ Goto("setup", "configure")
  /\ UNCHANGED <<os, file, socket, chans, shutdown, once, link, last, pend, running,
                 readWait, sess, mtuFailed>>

\* Linux closes the socket and drops the device; macOS closes the device.
SetMTUFails ==
  /\ pc["setup"] = "mtu" /\ mtuFailed' = TRUE
  /\ IF os = "linux"
       THEN Goto("setup", "failed") /\ sock' = "closed" /\ closes' = closes + 1
       ELSE Goto("setup", "close") /\ UNCHANGED <<sock, closes>>
  /\ UNCHANGED <<os, file, cancel, chans, shutdown, once, link, last, pend, running,
                 readWait, sess>>

\* ConfigInterface; then the two pumps start.
Configure ==
  /\ pc["setup"] = "configure"
  /\ \/ Goto("setup", "close")
     \/ pc' = [pc EXCEPT !["setup"] = "done", !["reader"] = "read", !["writer"] = "select"]
  /\ UNCHANGED <<os, file, socket, chans, shutdown, once, link, last, pend, running,
                 readWait, sess, mtuFailed>>

(***************************************************************************)
(* Listeners                                                               *)
(***************************************************************************)

\* One event into the channel; blocks while that is full.
Send == events < EventsCap /\ events' = events + 1

\* routineHackListener: an empty write tells whether the interface is up.  Any
\* other error, and a closed file, end it.
HackProbe ==
  /\ pc["hack"] = "probe"
  /\ \/ /\ file = "open"
        /\ LET seen == IF up THEN "up" ELSE "down"
           IN Goto("hack", IF last # seen THEN "send" ELSE "sleep") /\ last' = seen
     \/ Goto("hack", "done") /\ UNCHANGED last
  /\ UNCHANGED <<os, file, socket, chans, shutdown, once, link, pend, running, readWait,
                 sess, mtuFailed>>

HackSend ==
  /\ pc["hack"] = "send" /\ Send /\ Goto("hack", "sleep")
  /\ UNCHANGED <<os, file, socket, evClosed, errors, shutdown, once, link, last, pend,
                 running, readWait, sess, mtuFailed>>

HackSleep ==
  /\ pc["hack"] = "sleep"
  /\ \/ Goto("hack", "probe")
     \/ shutdown /\ Goto("hack", "done")
  /\ UNCHANGED <<os, file, socket, chans, shutdown, once, link, last, pend, running,
                 readWait, sess, mtuFailed>>

\* routineNetlinkListener waits in ReadyRead until there is a message, the
\* socket is gone, or Cancel was called, which ends the listener.
NetlinkPoll ==
  /\ pc["route"] = "poll"
  /\ \/ cancel = "written" /\ errors' = errors + 1 /\ Goto("route", "exit")
     \/ /\ cancel # "written" /\ (news > 0 \/ sock = "closed")
        /\ Goto("route", "recv") /\ UNCHANGED errors
  /\ UNCHANGED <<os, file, socket, events, evClosed, shutdown, once, link, last, pend,
                 running, readWait, sess, mtuFailed>>

\* Recvmsg: a message; none; or an error, which ends the listener.
NetlinkRecv ==
  /\ os = "linux" /\ pc["route"] = "recv"
  /\ \/ /\ sock = "open" /\ news > 0 /\ news' = news - 1
        /\ Goto("route", "check") /\ UNCHANGED errors
     \/ /\ sock = "open" /\ news = 0
        /\ Goto("route", "poll") /\ UNCHANGED <<news, errors>>
     \/ errors' = errors + 1 /\ Goto("route", "exit") /\ UNCHANGED news
  /\ UNCHANGED <<os, file, socket, events, evClosed, shutdown, once, up, changes, last,
                 pend, running, readWait, sess, mtuFailed>>

\* Events for the link messages of one datagram: a running link gives up and
\* MTU; one that is not gives MTU, and down only after an up in the same
\* datagram; no link message of this interface gives none.
Emits == {0, 1, 2, 4}

NetlinkCheck ==
  /\ pc["route"] = "check"
  /\ \/ shutdown /\ Goto("route", "exit") /\ UNCHANGED pend
     \/ ~shutdown /\ pend' \in Emits /\ Goto("route", "send")
  /\ UNCHANGED <<os, file, socket, chans, shutdown, once, link, last, running, readWait,
                 sess, mtuFailed>>

\* Both listeners: the events of the message, then the next message.
RouteSend ==
  /\ pc["route"] = "send"
  /\ \/ pend > 0 /\ Send /\ pend' = pend - 1 /\ UNCHANGED pc
     \/ pend = 0 /\ Goto("route", "recv") /\ UNCHANGED <<pend, events>>
  /\ UNCHANGED <<os, file, socket, evClosed, errors, shutdown, once, link, last, running,
                 readWait, sess, mtuFailed>>

\* The deferred function of routineNetlinkListener closes the socket ...
NetlinkExits ==
  /\ pc["route"] = "exit" /\ Goto("route", "lock")
  /\ sock' = "closed" /\ closes' = closes + 1
  /\ UNCHANGED <<os, file, cancel, chans, shutdown, once, link, last, pend, running,
                 readWait, sess, mtuFailed>>

\* Mutant of NetlinkCloses: it does not wait for the other listener.
NetlinkClosesAtOnce ==
  /\ pc["route"] = "lock" /\ Goto("route", "done")
  /\ evClosed' = evClosed + 1 /\ cancel' = "closed"
  /\ UNCHANGED <<os, file, sock, closes, events, errors, shutdown, once, link, last, pend,
                 running, readWait, sess, mtuFailed>>

\* ... waits for routineHackListener to unlock hackListenerClosed, and closes
\* the channel and the pipe.
NetlinkCloses ==
  /\ pc["route"] = "lock" /\ pc["hack"] = "done" /\ Goto("route", "done")
  /\ evClosed' = evClosed + 1 /\ cancel' = "closed"
  /\ UNCHANGED <<os, file, sock, closes, events, errors, shutdown, once, link, last, pend,
                 running, readWait, sess, mtuFailed>>

\* routineRouteListener (macOS): a message gives up or down, and MTU, if they
\* changed.  A socket that is shut down reads as empty, again and again.
RouteRecv ==
  /\ os = "darwin" /\ pc["route"] = "recv"
  /\ \/ sock = "open" /\ news > 0 /\ news' = news - 1 /\ pend' \in 0..2 /\ Goto("route", "send")
     \/ sock = "shut" /\ UNCHANGED <<news, pend, pc>>
  /\ UNCHANGED <<os, file, socket, chans, shutdown, once, up, changes, last, running,
                 readWait, sess, mtuFailed>>

\* Reading failed, or the interface is not found: the error goes to Read, and
\* the channel is closed.
RouteExits ==
  /\ os = "darwin" /\ pc["route"] = "recv"
  /\ errors' = errors + 1 /\ evClosed' = evClosed + 1 /\ Goto("route", "done")
  /\ UNCHANGED <<os, file, socket, events, shutdown, once, link, last, pend, running,
                 readWait, sess, mtuFailed>>

(***************************************************************************)
(* tunToPayloadOut and payloadInToTun                                      *)
(***************************************************************************)

\* cSess.Close, once.  DSess is closed with it only if DTLS is connected then.
EndSession == IF ended THEN UNCHANGED sess ELSE ended' = TRUE /\ dsess' \in BOOLEAN

\* A packet was read: it is for the TLS or for the DTLS channel.
ReaderHasPacket == Goto("reader", "select") \/ Goto("reader", "dtls")

\* Read: an error of a listener first; else the file is read, until there is
\* a packet or the file is closed.
ReadUnix ==
  /\ Unix /\ pc["reader"] = "read"
  /\ \/ errors > 0 /\ errors' = errors - 1 /\ Goto("reader", "close")
     \/ errors = 0 /\ UNCHANGED errors /\ Goto("reader", "blocked")
  /\ UNCHANGED <<os, file, socket, events, evClosed, shutdown, once, link, last, pend,
                 running, readWait, sess, mtuFailed>>

ReadReturns ==
  /\ pc["reader"] = "blocked"
  /\ \/ file = "open" /\ ReaderHasPacket
     \/ Goto("reader", "close")
  /\ UNCHANGED <<os, file, socket, chans, shutdown, once, link, last, pend, running,
                 readWait, sess, mtuFailed>>

\* There is room in PayloadOutTLS or PayloadOutDTLS.  That depends on the rest
\* of the session: nothing makes it happen.
ReaderSends ==
  /\ pc["reader"] \in {"select", "dtls"} /\ Goto("reader", "read")
  /\ UNCHANGED <<os, file, socket, chans, shutdown, once, link, last, pend, running,
                 readWait, sess, mtuFailed>>

\* Mutant of ReaderReleased: the send to PayloadOutTLS does not watch CloseChan.
ReaderReleasedDtls ==
  /\ pc["reader"] = "dtls" /\ dsess /\ Goto("reader", "read")
  /\ UNCHANGED <<os, file, socket, chans, shutdown, once, link, last, pend, running,
                 readWait, sess, mtuFailed>>

\* A full channel is given up when the session is closed, which ends the reader,
\* and in the case of PayloadOutDTLS only when DSess is, which does not.
ReaderReleased ==
  /\ \/ pc["reader"] = "select" /\ ended /\ Goto("reader", "close")
     \/ pc["reader"] = "dtls" /\ dsess /\ Goto("reader", "read")
  /\ UNCHANGED <<os, file, socket, chans, shutdown, once, link, last, pend, running,
                 readWait, sess, mtuFailed>>

\* A packet from the session.
WriterTakes ==
  /\ pc["writer"] = "select" /\ Goto("writer", "write")
  /\ UNCHANGED <<os, file, socket, chans, shutdown, once, link, last, pend, running,
                 readWait, sess, mtuFailed>>

WriterEnds ==
  /\ pc["writer"] = "select" /\ ended /\ Goto("writer", "close")
  /\ UNCHANGED <<os, file, socket, chans, shutdown, once, link, last, pend, running,
                 readWait, sess, mtuFailed>>

\* A write that fails closes the session.
WriteUnix ==
  /\ Unix /\ pc["writer"] = "write"
  /\ \/ file = "open" /\ Goto("writer", "select") /\ UNCHANGED sess
     \/ Goto("writer", "close") /\ EndSession
  /\ UNCHANGED <<os, file, socket, chans, shutdown, once, link, last, pend, running,
                 readWait, mtuFailed>>

\* cSess.Close elsewhere.
SessionEnds ==
  /\ pc["setup"] = "done" /\ EndSession
  /\ UNCHANGED <<os, pc, file, socket, chans, shutdown, once, link, last, pend, running,
                 readWait, mtuFailed>>

(***************************************************************************)
(* Read and Write on Windows                                               *)
(***************************************************************************)

\* Mutant of Enter: the call is not counted.
EnterUncounted(p) ==
  /\ os = "windows"
  /\ \/ p = "reader" /\ pc[p] = "read"
     \/ p = "writer" /\ pc[p] = "write"
  /\ Goto(p, "check")
  /\ UNCHANGED <<os, file, socket, chans, shutdown, once, link, last, pend, running,
                 readWait, sess, mtuFailed>>

\* running.Add(1) ...
Enter(p) ==
  /\ os = "windows"
  /\ \/ p = "reader" /\ pc[p] = "read"
     \/ p = "writer" /\ pc[p] = "write"
  /\ running' = running + 1 /\ Goto(p, "check")
  /\ UNCHANGED <<os, file, socket, chans, shutdown, once, link, last, pend, readWait,
                 sess, mtuFailed>>

\* The error of Read ends the reader, that of Write the session too.
Fails(p) == Goto(p, "close") /\ IF p = "writer" THEN EndSession ELSE UNCHANGED sess

\* ... then tun.close is looked at: Done, and the pump ends.
Check(p) ==
  /\ p \in Pumps /\ pc[p] = "check"
  /\ \/ shutdown /\ running' = running - 1 /\ Fails(p)
     \/ ~shutdown /\ Goto(p, "use") /\ UNCHANGED <<running, sess>>
  /\ UNCHANGED <<os, file, socket, chans, shutdown, once, link, last, pend, readWait,
                 mtuFailed>>

\* ReceivePacket or AllocateSendPacket, then ReleaseReceivePacket or SendPacket:
\* a packet (or, writing, a full ring: it is dropped), an error, or, reading, an
\* empty ring: spin or wait.
Use(p) ==
  /\ p \in Pumps /\ pc[p] = "use"
  /\ \/ /\ IF p = "reader" THEN ReaderHasPacket ELSE Goto(p, "select")
        /\ running' = running - 1 /\ UNCHANGED sess
     \/ Fails(p) /\ running' = running - 1
     \/ p = "reader" /\ (Goto(p, "check") \/ Goto(p, "wait")) /\ UNCHANGED <<running, sess>>
  /\ UNCHANGED <<os, file, socket, chans, shutdown, once, link, last, pend, readWait,
                 mtuFailed>>

\* WaitForSingleObject takes the signal.
Wait ==
  /\ pc["reader"] = "wait" /\ readWait
  /\ readWait' = FALSE /\ Goto("reader", "check")
  /\ UNCHANGED <<os, file, socket, chans, shutdown, once, link, last, pend, running, sess,
                 mtuFailed>>

\* The driver signals a packet.
Signal ==
  /\ os = "windows" /\ file = "open" /\ readWait' = TRUE
  /\ UNCHANGED <<os, pc, file, socket, chans, shutdown, once, link, last, pend, running,
                 sess, mtuFailed>>

(***************************************************************************)
(* Close                                                                   *)
(***************************************************************************)

Closers == Pumps \cup {"setup"}

Finished(p) == IF p = "setup" THEN "failed" ELSE "done"

\* closeOnce: the first caller runs the steps, others wait for it.
CloseBegins(p) ==
  /\ p \in Closers /\ pc[p] = "close"
  /\ \/ once = "free" /\ once' = "running" /\ Goto(p, "c1")
     \/ once = "done" /\ UNCHANGED once /\ Goto(p, Finished(p))
  /\ UNCHANGED <<os, file, socket, chans, shutdown, link, last, pend, running, readWait,
                 sess, mtuFailed>>

\* Linux: the listeners are told; netlinkCancel.Cancel (an error if the pipe
\* is closed); the file is closed.
CloseLinux1(p) ==
  /\ os = "linux" /\ pc[p] = "c1" /\ shutdown' = TRUE /\ Goto(p, "c2")
  /\ UNCHANGED <<os, file, socket, chans, once, link, last, pend, running, readWait, sess,
                 mtuFailed>>

CloseLinux2(p) ==
  /\ os = "linux" /\ pc[p] = "c2" /\ Goto(p, "c3")
  /\ cancel' = IF cancel = "open" THEN "written" ELSE cancel
  /\ UNCHANGED <<os, file, sock, closes, chans, shutdown, once, link, last, pend, running,
                 readWait, sess, mtuFailed>>

\* Mutant of CloseLinux3: the socket is closed here too, as on macOS.
CloseLinux3Socket(p) ==
  /\ os = "linux" /\ pc[p] = "c3" /\ Goto(p, Finished(p))
  /\ file' = "closed" /\ once' = "done" /\ sock' = "closed" /\ closes' = closes + 1
  /\ UNCHANGED <<os, cancel, chans, shutdown, link, last, pend, running, readWait, sess,
                 mtuFailed>>

CloseLinux3(p) ==
  /\ os = "linux" /\ pc[p] = "c3" /\ Goto(p, Finished(p))
  /\ file' = "closed" /\ once' = "done"
  /\ UNCHANGED <<os, socket, chans, shutdown, link, last, pend, running, readWait, sess,
                 mtuFailed>>

\* macOS: the file, then the socket: Shutdown, Close.
CloseDarwin(p) ==
  /\ os = "darwin"
  /\ \/ pc[p] = "c1" /\ file' = "closed" /\ Goto(p, "c2") /\ UNCHANGED <<sock, closes, once>>
     \/ pc[p] = "c2" /\ sock' = "shut" /\ Goto(p, "c3") /\ UNCHANGED <<file, closes, once>>
     \/ /\ pc[p] = "c3" /\ sock' = "closed" /\ closes' = closes + 1
        /\ once' = "done" /\ Goto(p, Finished(p)) /\ UNCHANGED file
  /\ UNCHANGED <<os, cancel, chans, shutdown, link, last, pend, running, readWait, sess,
                 mtuFailed>>

\* Mutant of CloseWindows1: the waiting reader is not woken.
CloseWindows1Silent(p) ==
  /\ os = "windows" /\ pc[p] = "c1" /\ shutdown' = TRUE /\ Goto(p, "c2")
  /\ UNCHANGED <<os, file, socket, chans, once, link, last, pend, running, readWait, sess,
                 mtuFailed>>

\* Windows: tun.close is set, then the event (no step of another goroutine
\* between the two can tell them apart); when nobody is in Read or Write the
\* session ends, the adapter and the channel are closed.
CloseWindows1(p) ==
  /\ os = "windows" /\ pc[p] = "c1" /\ shutdown' = TRUE /\ readWait' = TRUE /\ Goto(p, "c2")
  /\ UNCHANGED <<os, file, socket, chans, once, link, last, pend, running, sess, mtuFailed>>

CloseWindows2(p) ==
  /\ os = "windows"
  /\ \/ pc[p] = "c2" /\ running = 0 /\ Goto(p, "c3") /\ UNCHANGED <<file, evClosed, once>>
     \/ /\ pc[p] = "c3" /\ file' = "closed" /\ evClosed' = evClosed + 1
        /\ once' = "done" /\ Goto(p, Finished(p))
  /\ UNCHANGED <<os, socket, events, errors, shutdown, link, last, pend, running, readWait,
                 sess, mtuFailed>>

CloseSteps(p) ==
  \/ CloseBegins(p) \/ CloseLinux1(p) \/ CloseLinux2(p) \/ CloseLinux3(p)
  \/ CloseDarwin(p) \/ CloseWindows1(p) \/ CloseWindows2(p)

(***************************************************************************)
(* The interface, the specification                                        *)
(***************************************************************************)

\* The interface goes up or down, or something else of it changes; the socket
\* hears of it.
LinkChanges ==
  /\ Unix /\ file = "open" /\ changes < MaxChanges /\ changes' = changes + 1
  /\ up' \in BOOLEAN /\ news' = news + 1
  /\ UNCHANGED <<os, pc, file, socket, chans, shutdown, once, last, pend, running, readWait,
                 sess, mtuFailed>>

Listeners ==
  \/ HackProbe \/ HackSend \/ HackSleep
  \/ NetlinkPoll \/ NetlinkRecv \/ NetlinkCheck \/ RouteSend
  \/ NetlinkExits \/ NetlinkCloses \/ RouteRecv \/ RouteExits

Reader ==
  \/ ReadUnix \/ ReadReturns \/ ReaderSends \/ ReaderReleased
  \/ Enter("reader") \/ Check("reader") \/ Use("reader") \/ Wait

Writer == WriterTakes \/ WriterEnds \/ WriteUnix
            \/ Enter("writer") \/ Check("writer") \/ Use("writer")

Next ==
  \/ CreateFails \/ Create \/ SetMTU \/ SetMTUFails \/ Configure
  \/ Listeners \/ Reader \/ Writer
  \/ SessionEnds \/ Signal \/ LinkChanges
  \/ \E p \in Closers : CloseSteps(p)

Spec == Init /\ [][Next]_vars

\* The pumps and the callers of Close run when they can.  The writer's select,
\* which has CloseChan ready again and again, takes it some time, and a file that
\* is closed ends the read.  Nothing is assumed of the listeners, nor that there
\* is ever room for a packet.
FairSpec ==
  /\ Spec
  /\ WF_vars(ReadUnix) /\ WF_vars(file = "closed" /\ ReadReturns) /\ WF_vars(ReaderReleased)
  /\ WF_vars(Enter("reader")) /\ WF_vars(Check("reader")) /\ WF_vars(Use("reader"))
  /\ WF_vars(Wait)
  /\ SF_vars(WriterEnds) /\ WF_vars(WriteUnix)
  /\ WF_vars(Enter("writer")) /\ WF_vars(Check("writer")) /\ WF_vars(Use("writer"))
  /\ \A p \in Closers : WF_vars(CloseSteps(p))

(***************************************************************************)
(* Properties                                                              *)
(***************************************************************************)

\* tun_linux.go:117-122: the events channel is closed at most once, and never
\* under a listener that has still an event for it (that would be a panic).
SendsAreSafe ==
  /\ evClosed <= 1
  /\ evClosed = 1 => pc["hack"] # "send" /\ pc["route"] # "send"

\* The socket of the listener is closed once, whoever closes it and whenever
\* the listener ends, so that no descriptor of somebody else's is closed: except
\* after setMTU failed on Linux, where CreateTUN closes it under the listener.
SocketClosedOnce == closes <= 1 \/ (os = "linux" /\ mtuFailed)

\* tun_windows.go:114-127: nobody is inside the wintun session, or waits for
\* its event, once it has ended.
WintunAlive ==
  os = "windows" /\ file = "closed" => \A p \in Pumps : pc[p] \notin {"use", "wait"}

\* tun_windows.go:114-127 and closeOnce: a Close that has begun comes to its end
\* and the device is closed, also when a pump is inside the wintun session or
\* waits for a packet; the other callers do not wait for ever.
CloseReturns == once # "free" ~> once = "done" /\ file = "closed"

\* tun.go:86-98 and 103-115: once the session is closed the writer ends, the
\* device is closed and the reader ends too, wherever in the device they are,
\* except for a reader that waits for room in PayloadOutDTLS while DSess is
\* open (tun.go:88-91), which nothing may ever release.
PumpsLeave ==
  ended ~> /\ pc["writer"] = "done" /\ file = "closed"
           /\ pc["reader"] = "done" \/ (pc["reader"] = "dtls" /\ ~dsess)

=============================================================================
