------------------------------ MODULE DataPath ------------------------------
(***************************************************************************)
(* The goroutines that move packets for one ConnSession, from the moment   *)
(* NewConnSession has made it the current one:                             *)
(*                                                                         *)
(*   tunToPayloadOut --> PayloadOutTLS  --> payloadOutTLSToServer  --> TLS *)
(*                  \--> PayloadOutDTLS --> payloadOutDTLSToServer --> UDP *)
(*   payloadInToTun  <-- PayloadIn <-- tlsChannel     (reads TLS)          *)
(*                                 <-- dtlsChannel    (reads UDP)          *)
(*                                                                         *)
(* with the dead-peer timer, the STATUS request that waits for the first   *)
(* DTLS handshake, and Close, which anybody may call at any time.  Packets *)
(* are counted, not told apart: the three channels are bounded counters.   *)
(* A select takes any of its ready cases.                                  *)
(***************************************************************************)
EXTENDS Naturals, FiniteSets

CONSTANTS
  Cap,           \* capacity of PayloadIn, PayloadOutTLS and PayloadOutDTLS
  MaxAttempts,   \* bound: DTLS handshakes that succeed
  SetupFails,    \* TRUE: setupTun or SetRoutes may return an error
  DTLSOff,       \* base.Cfg.NoDTLS when the session is made
  Requests       \* which requests arrive: a subset of {"STATUS", "CONFIG"}

ASSUME CapAssumption == Cap \in Nat \ {0}
ASSUME MaxAttemptsAssumption == MaxAttempts \in Nat
ASSUME SwitchesAssumption == SetupFails \in BOOLEAN /\ DTLSOff \in BOOLEAN
ASSUME RequestsAssumption == Requests \subseteq {"STATUS", "CONFIG"}

VARIABLES
  setup,         \* how far vpn.SetupTunnel is: "new", "tun", "up", "failed"
  closed,        \* cSess.CloseChan is closed
  dsessClosed,   \* cSess.DSess.CloseChan is closed
  DtlsConnected, \* cSess.DtlsConnected
  flagLeft,      \* Close found a newer session in Sess.CSess, and left the flag
  setupDone,     \* cSess.DtlsSetupChan is closed
  NoDTLS,        \* base.Cfg.NoDTLS
  status,        \* the STATUS handler: "idle" or "waits"
  tunR, tunW,    \* tunToPayloadOut and payloadInToTun
  dev,           \* the tun device is open
  tlsR, tlsW,    \* tlsChannel and payloadOutTLSToServer
  tlsConn,       \* the TLS connection is open
  dtls,          \* dtlsChannel
  attempt,       \* DTLS connections established so far
  sender,        \* payloadOutDTLSToServer of each of them
  dconn,         \* those that are open
  attemptDone,   \* those whose attemptDone channel is closed
  qIn, qTLS, qDTLS, \* packets in PayloadIn, PayloadOutTLS, PayloadOutDTLS
  stolen         \* history: packets each sender took after its connection
                 \* was torn down

sessVars == <<closed, dsessClosed, DtlsConnected, flagLeft>>
rpcVars  == <<NoDTLS, status>>
tunVars  == <<tunR, tunW, dev>>
tlsVars  == <<tlsR, tlsW, tlsConn>>
dtlsVars == <<dtls, attempt, sender, dconn, attemptDone, setupDone, stolen>>
queues   == <<qIn, qTLS, qDTLS>>
vars     == <<setup, sessVars, rpcVars, tunVars, tlsVars, dtlsVars, queues>>

Attempts == 1..MaxAttempts

Init ==
  /\ setup = "new"
  /\ closed = FALSE /\ dsessClosed = FALSE
  /\ DtlsConnected = FALSE /\ flagLeft = FALSE
  /\ setupDone = FALSE /\ NoDTLS = DTLSOff /\ status = "idle"
  /\ tunR = "none" /\ tunW = "none" /\ dev = FALSE
  /\ tlsR = "none" /\ tlsW = "none" /\ tlsConn = TRUE
  /\ dtls = "none" /\ attempt = 0
  /\ sender = [k \in Attempts |-> "none"]
  /\ dconn = {} /\ attemptDone = {} /\ stolen = [k \in Attempts |-> 0]
  /\ qIn = 0 /\ qTLS = 0 /\ qDTLS = 0

(***************************************************************************)
(* session.go: ConnSession.Close with DtlsSession.Close inside             *)
(***************************************************************************)

\* Mutant of Close: DtlsConnected.Store(false) is missing in DSess.Close.
CloseKeepsFlag ==
  /\ closed' = TRUE
  /\ dsessClosed' = (dsessClosed \/ (~closed /\ DtlsConnected))
  /\ UNCHANGED <<DtlsConnected, flagLeft>>

\* Under sync.Once.  DSess is only closed when DTLS is connected.  It takes the
\* flag back when Sess.CSess is still this session; when another CONNECT or a
\* reconnect has put a newer one there, the flag stays up.
Close ==
  /\ closed' = TRUE
  /\ IF ~closed /\ DtlsConnected
       THEN /\ dsessClosed' = TRUE
            /\ flagLeft' \in BOOLEAN /\ DtlsConnected' = flagLeft'
       ELSE UNCHANGED <<dsessClosed, DtlsConnected, flagLeft>>

\* DisConnect in another goroutine, or the failure of a goroutine that is not
\* described here.
CloseSession ==
  /\ ~closed
  /\ Close
  /\ UNCHANGED <<setup, rpcVars, tunVars, tlsVars, dtlsVars, queues>>

(***************************************************************************)
(* vpn.SetupTunnel                                                         *)
(***************************************************************************)

SetupTun ==
  /\ setup = "new"
  /\ setup' = "tun"
  /\ tunR' = "read" /\ tunW' = "runs" /\ dev' = TRUE
  /\ UNCHANGED <<sessVars, rpcVars, tlsVars, dtlsVars, queues>>

\* setupTun or SetRoutes failed.
SetupFail ==
  /\ SetupFails /\ setup \in {"new", "tun"}
  /\ setup' = "failed"
  /\ tlsConn' = FALSE
  /\ Close
  /\ UNCHANGED <<rpcVars, tunVars, tlsR, tlsW, dtlsVars, queues>>

\* Routes are set: the TLS channel starts, and the DTLS channel unless it is
\* switched off; nobody looks whether the session is still open.
StartChannels ==
  /\ setup = "tun"
  /\ setup' = "up"
  /\ tlsR' = "read" /\ tlsW' = "take"
  /\ dtls' = IF NoDTLS THEN "none" ELSE "head"
  /\ UNCHANGED <<sessVars, rpcVars, tunVars, tlsConn, attempt, sender,
                 dconn, attemptDone, setupDone, stolen, queues>>

(***************************************************************************)
(* rpc.Handle: STATUS and CONFIG                                           *)
(***************************************************************************)

\* STATUS waits for the first handshake's result when this is the session and
\* DTLS is not switched off (the server is taken to offer a DTLS port).  With
\* DtlsSetupChan closed it does not wait.
StatusReq ==
  /\ "STATUS" \in Requests /\ status = "idle"
  /\ ~closed /\ ~NoDTLS /\ ~setupDone
  /\ status' = "waits"
  /\ UNCHANGED <<setup, sessVars, NoDTLS, tunVars, tlsVars, dtlsVars, queues>>

\* CONFIG replaces base.Cfg, no_dtls with it.  Once dtlsChannel runs, a later
\* change only spares STATUS the wait, so it is left out.
ConfigReq ==
  /\ "CONFIG" \in Requests /\ dtls = "none"
  /\ NoDTLS' = ~NoDTLS
  /\ UNCHANGED <<setup, sessVars, status, tunVars, tlsVars, dtlsVars, queues>>

(***************************************************************************)
(* tun.go                                                                  *)
(***************************************************************************)

\* tunToPayloadOut reads a packet and picks the channel for it.
TunRead ==
  /\ tunR = "read" /\ dev
  /\ tunR' = IF DtlsConnected THEN "putDtls" ELSE "putTls"
  /\ UNCHANGED <<setup, sessVars, rpcVars, tunW, dev, tlsVars, dtlsVars, queues>>

\* The device is closed or broken: the reader leaves and closes it.
TunReadError ==
  /\ tunR = "read"
  /\ tunR' = "done" /\ dev' = FALSE
  /\ UNCHANGED <<setup, sessVars, rpcVars, tunW, tlsVars, dtlsVars, queues>>

TunPutTls ==
  /\ tunR = "putTls"
  /\ \/ qTLS < Cap /\ qTLS' = qTLS + 1 /\ tunR' = "read" /\ UNCHANGED dev
     \/ closed /\ tunR' = "done" /\ dev' = FALSE /\ UNCHANGED qTLS
  /\ UNCHANGED <<setup, sessVars, rpcVars, tunW, tlsVars, dtlsVars, qIn, qDTLS>>

\* With DSess closed the packet is dropped and the loop goes on.
TunPutDtls ==
  /\ tunR = "putDtls"
  /\ \/ qDTLS < Cap /\ qDTLS' = qDTLS + 1
     \/ dsessClosed /\ UNCHANGED qDTLS
  /\ tunR' = "read"
  /\ UNCHANGED <<setup, sessVars, rpcVars, tunW, dev, tlsVars, dtlsVars, qIn, qTLS>>

\* payloadInToTun writes a packet to the device, or fails to.
TunWrite ==
  /\ tunW = "runs" /\ qIn > 0
  /\ qIn' = qIn - 1
  /\ tunW' \in IF dev THEN {"runs", "exits"} ELSE {"exits"}
  /\ UNCHANGED <<setup, sessVars, rpcVars, tunR, dev, tlsVars, dtlsVars, qTLS, qDTLS>>

TunWriterSeesClose ==
  /\ tunW = "runs" /\ closed
  /\ tunW' = "exits"
  /\ UNCHANGED <<setup, sessVars, rpcVars, tunR, dev, tlsVars, dtlsVars, queues>>

\* The deferred function, after the routes were reset (see Lifecycle).
TunWriterExit ==
  /\ tunW = "exits"
  /\ tunW' = "done" /\ dev' = FALSE
  /\ Close
  /\ UNCHANGED <<setup, rpcVars, tunR, tlsVars, dtlsVars, queues>>

(***************************************************************************)
(* tls.go                                                                  *)
(***************************************************************************)

\* tlsChannel reads DATA for the device, or a DPD-REQ to be answered; other
\* packets change nothing.
TlsRead ==
  /\ tlsR = "read" /\ tlsConn
  /\ tlsR' \in {"putIn", "putOut"}
  /\ UNCHANGED <<setup, sessVars, rpcVars, tunVars, tlsW, tlsConn, dtlsVars, queues>>

\* The deferred function of tlsChannel and of payloadOutTLSToServer.
TlsExit ==
  /\ tlsConn' = FALSE
  /\ Close

\* A read error, the read deadline (dead peer) or undecodable data.
TlsReadError ==
  /\ tlsR = "read"
  /\ tlsR' = "done"
  /\ TlsExit
  /\ UNCHANGED <<setup, rpcVars, tunVars, tlsW, dtlsVars, queues>>

TlsPutIn ==
  /\ tlsR = "putIn"
  /\ \/ /\ qIn < Cap /\ qIn' = qIn + 1
        /\ tlsR' = "read" /\ UNCHANGED <<tlsConn, sessVars>>
     \/ /\ closed /\ TlsExit
        /\ tlsR' = "done" /\ UNCHANGED qIn
  /\ UNCHANGED <<setup, rpcVars, tunVars, tlsW, dtlsVars, qTLS, qDTLS>>

TlsPutOut ==
  /\ tlsR = "putOut"
  /\ \/ /\ qTLS < Cap /\ qTLS' = qTLS + 1
        /\ tlsR' = "read" /\ UNCHANGED <<tlsConn, sessVars>>
     \/ /\ closed /\ TlsExit
        /\ tlsR' = "done" /\ UNCHANGED qTLS
  /\ UNCHANGED <<setup, rpcVars, tunVars, tlsW, dtlsVars, qIn, qDTLS>>

\* payloadOutTLSToServer takes a packet, or sees that the session is closed.
TlsTake ==
  /\ tlsW = "take" /\ qTLS > 0
  /\ qTLS' = qTLS - 1
  /\ tlsW' = "write"
  /\ UNCHANGED <<setup, sessVars, rpcVars, tunVars, tlsR, tlsConn, dtlsVars, qIn, qDTLS>>

\* Mutant of TlsWriterSeesClose: the deferred function does not close the
\* connection, so that the reader is not woken.
TlsWriterLeavesConn ==
  /\ tlsW = "take" /\ closed
  /\ tlsW' = "done"
  /\ UNCHANGED <<setup, sessVars, rpcVars, tunVars, tlsR, tlsConn, dtlsVars, queues>>

TlsWriterSeesClose ==
  /\ tlsW = "take" /\ closed
  /\ tlsW' = "done"
  /\ TlsExit
  /\ UNCHANGED <<setup, rpcVars, tunVars, tlsR, dtlsVars, queues>>

TlsWrite ==
  /\ tlsW = "write"
  /\ \/ tlsConn /\ tlsW' = "take" /\ UNCHANGED <<tlsConn, sessVars>>
     \/ tlsW' = "done" /\ TlsExit
  /\ UNCHANGED <<setup, rpcVars, tunVars, tlsR, dtlsVars, queues>>

(***************************************************************************)
(* dtls.go                                                                 *)
(***************************************************************************)

\* close(DtlsSetupChan) releases the STATUS request that waits on it.
closeSetup == setupDone' = TRUE /\ status' = "idle"

\* The head of dtlsChannel's loop.  Its deferred closeSetup runs on the way
\* out.
DtlsHead ==
  /\ dtls = "head"
  /\ IF closed THEN dtls' = "done" /\ closeSetup
               ELSE dtls' = "handshake" /\ UNCHANGED <<setupDone, status>>
  /\ UNCHANGED <<setup, sessVars, NoDTLS, tunVars, tlsVars, attempt,
                 sender, dconn, attemptDone, stolen, queues>>

\* Dial or handshake failed (the handshake is given 20 seconds).
DtlsHandshakeFail ==
  /\ dtls = "handshake"
  /\ dtls' = "retry" /\ closeSetup
  /\ UNCHANGED <<setup, sessVars, NoDTLS, tunVars, tlsVars, attempt,
                 sender, dconn, attemptDone, stolen, queues>>

\* The channel is up: everybody may use it, and runDtlsEstablished starts the
\* sender.
DtlsHandshakeOk ==
  /\ dtls = "handshake" /\ attempt < MaxAttempts
  /\ dtls' = "read" /\ closeSetup
  /\ DtlsConnected' = TRUE
  /\ attempt' = attempt + 1
  /\ sender' = [sender EXCEPT ![attempt + 1] = "take"]
  /\ dconn' = dconn \cup {attempt + 1}
  /\ UNCHANGED <<setup, closed, dsessClosed, flagLeft, NoDTLS, tunVars, tlsVars,
                 attemptDone, stolen, queues>>

\* dtlsRetryWait: the delay has passed, or the session is closed.
DtlsRetry ==
  /\ dtls = "retry"
  /\ \/ dtls' = "head" /\ UNCHANGED <<setupDone, status>>
     \/ closed /\ dtls' = "done" /\ closeSetup
  /\ UNCHANGED <<setup, sessVars, NoDTLS, tunVars, tlsVars, attempt, sender,
                 dconn, attemptDone, stolen, queues>>

\* runDtlsEstablished reads DATA or a DPD-REQ.
DtlsRead ==
  /\ dtls = "read" /\ attempt \in dconn
  /\ dtls' \in {"putIn", "putOut"}
  /\ UNCHANGED <<setup, sessVars, rpcVars, tunVars, tlsVars, attempt,
                 sender, dconn, attemptDone, setupDone, stolen, queues>>

\* The deferred functions of runDtlsEstablished.
TearDown ==
  /\ dconn' = dconn \ {attempt}
  /\ attemptDone' = attemptDone \cup {attempt}

\* A read error, the read deadline, undecodable data, or the server's
\* DISCONNECT: runDtlsEstablished returns false.
DtlsReadError ==
  /\ dtls = "read"
  /\ dtls' = "lost" /\ TearDown
  /\ UNCHANGED <<setup, sessVars, rpcVars, tunVars, tlsVars, attempt,
                 sender, setupDone, stolen, queues>>

\* Mutant of DtlsPutIn: a plain send that does not watch DSess.CloseChan.
DtlsPutInBlocking ==
  /\ dtls = "putIn"
  /\ qIn < Cap /\ qIn' = qIn + 1
  /\ dtls' = "read"
  /\ UNCHANGED <<setup, sessVars, rpcVars, tunVars, tlsVars, attempt,
                 sender, dconn, attemptDone, setupDone, stolen, qTLS, qDTLS>>

\* A packet is passed on, or DSess is closed: runDtlsEstablished returns true
\* and dtlsChannel ends.
DtlsPutIn ==
  /\ dtls = "putIn"
  /\ \/ /\ qIn < Cap /\ qIn' = qIn + 1
        /\ dtls' = "read" /\ UNCHANGED <<dconn, attemptDone>>
     \/ /\ dsessClosed /\ TearDown
        /\ dtls' = "done" /\ UNCHANGED qIn
  /\ UNCHANGED <<setup, sessVars, rpcVars, tunVars, tlsVars, attempt,
                 sender, setupDone, stolen, qTLS, qDTLS>>

DtlsPutOut ==
  /\ dtls = "putOut"
  /\ \/ /\ qDTLS < Cap /\ qDTLS' = qDTLS + 1
        /\ dtls' = "read" /\ UNCHANGED <<dconn, attemptDone>>
     \/ /\ dsessClosed /\ TearDown
        /\ dtls' = "done" /\ UNCHANGED qDTLS
  /\ UNCHANGED <<setup, sessVars, rpcVars, tunVars, tlsVars, attempt,
                 sender, setupDone, stolen, qIn, qTLS>>

\* Back in dtlsChannel after the channel was lost: back to TLS, then wait.
DtlsLost ==
  /\ dtls = "lost"
  /\ dtls' = "retry"
  /\ DtlsConnected' = FALSE
  /\ UNCHANGED <<setup, closed, dsessClosed, flagLeft, rpcVars, tunVars, tlsVars,
                 attempt, sender, dconn, attemptDone, setupDone, stolen, queues>>

\* payloadOutDTLSToServer of connection k: takes a packet, or is told to stop.
SenderTake(k) ==
  /\ sender[k] = "take" /\ qDTLS > 0
  /\ qDTLS' = qDTLS - 1
  /\ sender' = [sender EXCEPT ![k] = "write"]
  /\ stolen' = [stolen EXCEPT ![k] = @ + (IF k \in attemptDone THEN 1 ELSE 0)]
  /\ UNCHANGED <<setup, sessVars, rpcVars, tunVars, tlsVars, dtls, attempt,
                 dconn, attemptDone, setupDone, qIn, qTLS>>

SenderStops(k) ==
  /\ sender[k] = "take"
  /\ dsessClosed \/ k \in attemptDone
  /\ sender' = [sender EXCEPT ![k] = "done"]
  /\ dconn' = dconn \ {k}
  /\ UNCHANGED <<setup, sessVars, rpcVars, tunVars, tlsVars, dtls, attempt,
                 attemptDone, setupDone, stolen, queues>>

\* Mutant of SenderWrite: a write error is logged and the loop goes on.
SenderWriteGoesOn(k) ==
  /\ sender[k] = "write"
  /\ sender' = [sender EXCEPT ![k] = "take"]
  /\ UNCHANGED <<setup, sessVars, rpcVars, tunVars, tlsVars, dtls, attempt,
                 dconn, attemptDone, setupDone, stolen, queues>>

\* A write error (a closed connection, EADDRNOTAVAIL) ends it and closes the
\* connection under the reader.
SenderWrite(k) ==
  /\ sender[k] = "write"
  /\ \/ /\ k \in dconn
        /\ sender' = [sender EXCEPT ![k] = "take"] /\ UNCHANGED dconn
     \/ /\ sender' = [sender EXCEPT ![k] = "done"]
        /\ dconn' = dconn \ {k}
  /\ UNCHANGED <<setup, sessVars, rpcVars, tunVars, tlsVars, dtls, attempt,
                 attemptDone, setupDone, stolen, queues>>

(***************************************************************************)
(* session.go: DPDTimer.  Its sends never block.                           *)
(***************************************************************************)

\* Mutant of Offer: the test for a full channel is off by one.
OfferOneMore(q) == IF q <= Cap THEN q + 1 ELSE q

Offer(q) == IF q < Cap THEN q + 1 ELSE q

DpdTick ==
  /\ setup = "up" /\ ~closed
  /\ qTLS' = Offer(qTLS)
  /\ qDTLS' = IF DtlsConnected THEN Offer(qDTLS) ELSE qDTLS
  /\ UNCHANGED <<setup, sessVars, rpcVars, tunVars, tlsVars, dtlsVars, qIn>>

----------------------------------------------------------------------------

SetupStep == SetupTun \/ SetupFail \/ StartChannels

TunReader == TunRead \/ TunReadError \/ TunPutTls \/ TunPutDtls
TunWriter == TunWrite \/ TunWriterSeesClose \/ TunWriterExit
TlsReader == TlsRead \/ TlsReadError \/ TlsPutIn \/ TlsPutOut
TlsWriter == TlsTake \/ TlsWriterSeesClose \/ TlsWrite
DtlsReader == \/ DtlsHead \/ DtlsHandshakeFail \/ DtlsHandshakeOk \/ DtlsRetry
              \/ DtlsRead \/ DtlsReadError \/ DtlsPutIn \/ DtlsPutOut \/ DtlsLost
DtlsWriter(k) == SenderTake(k) \/ SenderStops(k) \/ SenderWrite(k)

Next ==
  \/ CloseSession \/ SetupStep \/ StatusReq \/ ConfigReq
  \/ TunReader \/ TunWriter \/ TlsReader \/ TlsWriter
  \/ DtlsReader \/ \E k \in Attempts : DtlsWriter(k)
  \/ DpdTick

Spec == Init /\ [][Next]_vars

(***************************************************************************)
(* Fairness.  Every goroutine that is not blocked runs on, and a select    *)
(* that finds CloseChan closed again and again takes that case some time:  *)
(* Go picks among the ready cases at random.  Senders blocked on a full    *)
(* channel are served in order.  Nothing makes a packet arrive, a          *)
(* handshake succeed or a live connection fail; but a read ends on a       *)
(* closed connection or device, and the DTLS reads of a closed session end *)
(* at their absolute deadline, which ReadDeadTimer no longer moves.        *)
(***************************************************************************)
Fairness ==
  /\ WF_vars(SetupStep)
  /\ SF_vars(TunPutTls \/ TunPutDtls \/ (~dev /\ TunReadError))
  /\ WF_vars(TunWriterSeesClose \/ TunWriterExit)
  /\ WF_vars(TlsPutIn \/ TlsPutOut \/ (~tlsConn /\ TlsReadError))
  /\ WF_vars(TlsWriter)
  /\ SF_vars(TlsWriterSeesClose)
  /\ WF_vars(DtlsHead \/ DtlsHandshakeFail \/ DtlsHandshakeOk \/ DtlsRetry
              \/ DtlsPutIn \/ DtlsPutOut \/ DtlsLost)
  /\ SF_vars((closed \/ attempt \notin dconn) /\ DtlsReadError)
  /\ \A k \in Attempts : WF_vars(DtlsWriter(k))

FairSpec == Spec /\ Fairness

----------------------------------------------------------------------------
(***************************************************************************)
(* Properties                                                              *)
(***************************************************************************)

\* The flags and the switches.
FlagsOK ==
  /\ closed \in BOOLEAN /\ dsessClosed \in BOOLEAN
  /\ DtlsConnected \in BOOLEAN /\ flagLeft \in BOOLEAN
  /\ setupDone \in BOOLEAN /\ NoDTLS \in BOOLEAN
  /\ dev \in BOOLEAN /\ tlsConn \in BOOLEAN

\* Where the goroutines are, and what the channels hold.
PlacesOK ==
  /\ setup \in {"new", "tun", "up", "failed"}
  /\ status \in {"idle", "waits"}
  /\ tunR \in {"none", "read", "putTls", "putDtls", "done"}
  /\ tunW \in {"none", "runs", "exits", "done"}
  /\ tlsR \in {"none", "read", "putIn", "putOut", "done"}
  /\ tlsW \in {"none", "take", "write", "done"}
  /\ dtls \in {"none", "head", "handshake", "retry", "read", "putIn", "putOut", "lost", "done"}
  /\ attempt \in 0..MaxAttempts
  /\ sender \in [Attempts -> {"none", "take", "write", "done"}]
  /\ dconn \subseteq Attempts /\ attemptDone \subseteq Attempts
  /\ stolen \in [Attempts -> Nat]
  /\ qIn \in 0..Cap /\ qTLS \in 0..Cap /\ qDTLS \in 0..Cap

\* The type invariant; no channel holds more than its capacity.
TypeOK == FlagsOK /\ PlacesOK

\* tun.go:87 and session.go:258 send to the DTLS channel whenever
\* DtlsConnected says so: the flag is up only while dtlsChannel is inside an
\* established connection or has just lost it and DSess is open.  The one
\* exception is a session that was replaced before it was closed, whose flag
\* session.go:344 leaves alone; its DSess is closed, so nobody who follows the
\* flag blocks.
FlagMeansChannel ==
  DtlsConnected =>
    \/ dtls \in {"read", "putIn", "putOut", "lost"} /\ ~dsessClosed /\ setupDone
    \/ closed /\ dsessClosed /\ flagLeft

\* dtls.go:152-157: a sender whose connection was torn down takes at most one
\* more packet from PayloadOutDTLS: its select may still choose the packet
\* when attemptDone is closed too, but conn.Close ran first, so the write
\* fails and the sender ends.
OldSendersTakeOne == \A k \in Attempts : stolen[k] <= 1

\* rpc.go:137 and dtls.go:60-61: a STATUS request that waits for the first DTLS
\* handshake is answered, whatever ends the set-up of its session.
StatusReleased == status = "waits" ~> status = "idle"

\* tun.go:111-114 and tls.go:18-23: once the session is closed, by whichever
\* goroutine, the TLS side winds up: both TLS goroutines and the device's
\* writer are gone and the device and the connection are closed.
TlsSideEnds ==
  closed ~> /\ setup \in {"up", "failed"}
            /\ tlsR \in {"none", "done"} /\ tlsW \in {"none", "done"}
            /\ tunW \in {"none", "done"} /\ ~dev /\ ~tlsConn

\* session.go:323-325: when Close finds DTLS connected, the DTLS goroutines and
\* the device's reader end too.
DtlsSideEnds ==
  dsessClosed ~> /\ dtls = "done" /\ dconn = {} /\ tunR = "done"
                 /\ \A k \in Attempts : sender[k] \in {"none", "done"}

\* dtls.go:125: when the DTLS channel is lost, outbound packets go to the TLS
\* channel; in an open session the device's reader is not stuck with one.
OutboundFlows == tunR = "putDtls" ~> (tunR # "putDtls" \/ closed)

=============================================================================
