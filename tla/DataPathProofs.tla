--------------------------- MODULE DataPathProofs ---------------------------
(***************************************************************************)
(* Proofs about DataPath for every capacity of the channels and every      *)
(* number of DTLS connections.                                             *)
(*                                                                         *)
(* FlagMeansChannel is not inductive: that a handshake may raise the flag  *)
(* again rests on Close having ended the DTLS session only in a state in   *)
(* which dtlsChannel, with CloseChan closed, can no longer get as far as a *)
(* handshake.  Order adds that.  Nor is OldSendersTakeOne: Senders adds    *)
(* that conn.Close has run before attemptDone is closed.                   *)
(***************************************************************************)
EXTENDS DataPath, TLAPS

\* The DTLS session is ended only as part of the session, never while
\* dtlsChannel is in a handshake; dtlsChannel does not run before the routes
\* are set, and is in a connection only when there has been one.
Order ==
  /\ dsessClosed => closed /\ dtls # "handshake"
  /\ setup \in {"new", "tun"} => dtls = "none"
  /\ dtls \in {"read", "putIn", "putOut"} => attempt \in Attempts

\* A connection that was torn down is closed and will not be made again, and
\* its sender, once it has taken a packet, can only fail to write it.
Senders ==
  \A k \in Attempts :
    /\ k \in attemptDone => k \notin dconn /\ k <= attempt
    /\ stolen[k] <= 1
    /\ stolen[k] # 0 => k \in attemptDone /\ sender[k] \in {"write", "done"}

IInv == TypeOK /\ FlagMeansChannel /\ Senders /\ Order

USE CapAssumption, MaxAttemptsAssumption, SwitchesAssumption, RequestsAssumption

\* The initial state of the session satisfies the invariant.
LEMMA InitIInv == Init => IInv
<1> SUFFICES ASSUME Init PROVE IInv
  OBVIOUS
<1>1. FlagsOK
  BY Zenon DEF Init, FlagsOK
<1>2. PlacesOK
  BY DEF Init, PlacesOK, Attempts
<1>3. FlagMeansChannel /\ Senders /\ Order
  BY DEF Init, FlagMeansChannel, Senders, Order
<1> QED
  BY <1>1, <1>2, <1>3 DEF IInv, TypeOK

\* ConnSession.Close keeps the parts of the invariant it touches, wherever the
\* goroutines are.
LEMMA CloseKeeps ==
  ASSUME FlagsOK, FlagMeansChannel, Order, Close
  PROVE  /\ closed' \in BOOLEAN /\ dsessClosed' \in BOOLEAN
         /\ DtlsConnected' \in BOOLEAN /\ flagLeft' \in BOOLEAN
         /\ closed' = TRUE
         /\ DtlsConnected' => \/ DtlsConnected /\ ~dsessClosed /\ ~dsessClosed'
                              \/ dsessClosed' /\ flagLeft'
         /\ dsessClosed' => dtls # "handshake"
BY DEF FlagsOK, FlagMeansChannel, Order, Close

\* Every step of every goroutine keeps the invariant.
LEMMA NextIInv == IInv /\ [Next]_vars => IInv'
<1> SUFFICES ASSUME FlagsOK, PlacesOK, FlagMeansChannel, Senders, Order, [Next]_vars
             PROVE  IInv'
  BY DEF IInv, TypeOK
<1> USE DEF sessVars, rpcVars, tunVars, tlsVars, dtlsVars, queues
<1>1. CASE CloseSession
  <2>1. FlagsOK'
    BY <1>1, CloseKeeps, Zenon DEF FlagsOK, CloseSession
  <2>2. PlacesOK'
    BY <1>1, CloseKeeps DEF PlacesOK, CloseSession
  <2>3. FlagMeansChannel'
    BY <1>1, CloseKeeps DEF FlagsOK, PlacesOK, FlagMeansChannel, Order, CloseSession
  <2>4. Senders'
    BY <1>1, CloseKeeps DEF FlagsOK, PlacesOK, Senders, CloseSession
  <2>5. Order'
    BY <1>1, CloseKeeps DEF FlagsOK, PlacesOK, FlagMeansChannel, Order, CloseSession
  <2> QED
    BY <2>1, <2>2, <2>3, <2>4, <2>5 DEF IInv, TypeOK
<1>2. CASE SetupTun
  BY <1>2
     DEF IInv, TypeOK, FlagsOK, PlacesOK, FlagMeansChannel, Senders, Order, SetupTun
<1>3. CASE SetupFail
  <2>1. FlagsOK'
    BY <1>3, CloseKeeps, Zenon DEF FlagsOK, SetupFail
  <2>2. PlacesOK'
    BY <1>3, CloseKeeps DEF PlacesOK, SetupFail
  <2>3. FlagMeansChannel'
    BY <1>3, CloseKeeps DEF FlagsOK, PlacesOK, FlagMeansChannel, Order, SetupFail
  <2>4. Senders'
    BY <1>3, CloseKeeps DEF FlagsOK, PlacesOK, Senders, SetupFail
  <2>5. Order'
    BY <1>3, CloseKeeps DEF FlagsOK, PlacesOK, FlagMeansChannel, Order, SetupFail
  <2> QED
    BY <2>1, <2>2, <2>3, <2>4, <2>5 DEF IInv, TypeOK
<1>4. CASE StartChannels
  BY <1>4
     DEF IInv, TypeOK, FlagsOK, PlacesOK, FlagMeansChannel, Senders, Order,
         StartChannels
<1>5. CASE StatusReq
  BY <1>5
     DEF IInv, TypeOK, FlagsOK, PlacesOK, FlagMeansChannel, Senders, Order, StatusReq
<1>7. CASE ConfigReq
  BY <1>7
     DEF IInv, TypeOK, FlagsOK, PlacesOK, FlagMeansChannel, Senders, Order, ConfigReq
<1>8. CASE TunRead
  BY <1>8 DEF IInv, TypeOK, FlagsOK, PlacesOK, FlagMeansChannel, Senders, Order, TunRead
<1>9. CASE TunReadError
  <2>1. FlagsOK'
    BY <1>9, Zenon DEF FlagsOK, TunReadError
  <2>2. PlacesOK'
    BY <1>9 DEF PlacesOK, TunReadError
  <2>3. FlagMeansChannel'
    BY <1>9 DEF FlagsOK, PlacesOK, FlagMeansChannel, Order, TunReadError
  <2>4. Senders'
    BY <1>9 DEF FlagsOK, PlacesOK, Senders, TunReadError
  <2>5. Order'
    BY <1>9 DEF FlagsOK, PlacesOK, FlagMeansChannel, Order, TunReadError
  <2> QED
    BY <2>1, <2>2, <2>3, <2>4, <2>5 DEF IInv, TypeOK
<1>10. CASE TunPutTls
  <2>1. FlagsOK'
    BY <1>10, Zenon DEF FlagsOK, TunPutTls
  <2>2. PlacesOK'
    BY <1>10 DEF PlacesOK, TunPutTls
  <2>3. FlagMeansChannel'
    BY <1>10 DEF FlagsOK, PlacesOK, FlagMeansChannel, Order, TunPutTls
  <2>4. Senders'
    BY <1>10 DEF FlagsOK, PlacesOK, Senders, TunPutTls
  <2>5. Order'
    BY <1>10 DEF FlagsOK, PlacesOK, FlagMeansChannel, Order, TunPutTls
  <2> QED
    BY <2>1, <2>2, <2>3, <2>4, <2>5 DEF IInv, TypeOK
<1>11. CASE TunPutDtls
  BY <1>11
     DEF IInv, TypeOK, FlagsOK, PlacesOK, FlagMeansChannel, Senders, Order, TunPutDtls
<1>12. CASE TunWrite
  BY <1>12
     DEF IInv, TypeOK, FlagsOK, PlacesOK, FlagMeansChannel, Senders, Order, TunWrite
<1>13. CASE TunWriterSeesClose
  BY <1>13
     DEF IInv, TypeOK, FlagsOK, PlacesOK, FlagMeansChannel, Senders, Order,
         TunWriterSeesClose
<1>14. CASE TunWriterExit
  <2>1. FlagsOK'
    BY <1>14, CloseKeeps, Zenon DEF FlagsOK, TunWriterExit
  <2>2. PlacesOK'
    BY <1>14, CloseKeeps DEF PlacesOK, TunWriterExit
  <2>3. FlagMeansChannel'
    BY <1>14, CloseKeeps DEF FlagsOK, PlacesOK, FlagMeansChannel, Order, TunWriterExit
  <2>4. Senders'
    BY <1>14, CloseKeeps DEF FlagsOK, PlacesOK, Senders, TunWriterExit
  <2>5. Order'
    BY <1>14, CloseKeeps DEF FlagsOK, PlacesOK, FlagMeansChannel, Order, TunWriterExit
  <2> QED
    BY <2>1, <2>2, <2>3, <2>4, <2>5 DEF IInv, TypeOK
<1>15. CASE TlsRead
  BY <1>15
     DEF IInv, TypeOK, FlagsOK, PlacesOK, FlagMeansChannel, Senders, Order, TlsRead
<1>16. CASE TlsReadError
  <2>1. FlagsOK'
    BY <1>16, CloseKeeps, Zenon DEF FlagsOK, TlsReadError, TlsExit
  <2>2. PlacesOK'
    BY <1>16, CloseKeeps DEF PlacesOK, TlsReadError, TlsExit
  <2>3. FlagMeansChannel'
    BY <1>16, CloseKeeps
       DEF FlagsOK, PlacesOK, FlagMeansChannel, Order, TlsReadError, TlsExit
  <2>4. Senders'
    BY <1>16, CloseKeeps DEF FlagsOK, PlacesOK, Senders, TlsReadError, TlsExit
  <2>5. Order'
    BY <1>16, CloseKeeps
       DEF FlagsOK, PlacesOK, FlagMeansChannel, Order, TlsReadError, TlsExit
  <2> QED
    BY <2>1, <2>2, <2>3, <2>4, <2>5 DEF IInv, TypeOK
<1>17. CASE TlsPutIn
  <2>1. FlagsOK'
    BY <1>17, CloseKeeps, Zenon DEF FlagsOK, TlsPutIn, TlsExit
  <2>2. PlacesOK'
    BY <1>17, CloseKeeps DEF PlacesOK, TlsPutIn, TlsExit
  <2>3. FlagMeansChannel'
    BY <1>17, CloseKeeps DEF FlagsOK, PlacesOK, FlagMeansChannel, Order, TlsPutIn, TlsExit
  <2>4. Senders'
    BY <1>17, CloseKeeps DEF FlagsOK, PlacesOK, Senders, TlsPutIn, TlsExit
  <2>5. Order'
    <3>1. CASE UNCHANGED sessVars
      BY <1>17, <3>1 DEF Order, TlsPutIn
    <3>2. CASE Close
      BY <1>17, <3>2, CloseKeeps DEF Order, TlsPutIn
    <3> QED
      BY <1>17, <3>1, <3>2 DEF TlsPutIn, TlsExit
  <2> QED
    BY <2>1, <2>2, <2>3, <2>4, <2>5 DEF IInv, TypeOK
<1>18. CASE TlsPutOut
  <2>1. FlagsOK'
    BY <1>18, CloseKeeps, Zenon DEF FlagsOK, TlsPutOut, TlsExit
  <2>2. PlacesOK'
    BY <1>18, CloseKeeps DEF PlacesOK, TlsPutOut, TlsExit
  <2>3. FlagMeansChannel'
    BY <1>18, CloseKeeps
       DEF FlagsOK, PlacesOK, FlagMeansChannel, Order, TlsPutOut, TlsExit
  <2>4. Senders'
    BY <1>18, CloseKeeps DEF FlagsOK, PlacesOK, Senders, TlsPutOut, TlsExit
  <2>5. Order'
    <3>1. CASE UNCHANGED sessVars
      BY <1>18, <3>1 DEF Order, TlsPutOut
    <3>2. CASE Close
      BY <1>18, <3>2, CloseKeeps DEF Order, TlsPutOut
    <3> QED
      BY <1>18, <3>1, <3>2 DEF TlsPutOut, TlsExit
  <2> QED
    BY <2>1, <2>2, <2>3, <2>4, <2>5 DEF IInv, TypeOK
<1>19. CASE TlsTake
  BY <1>19
     DEF IInv, TypeOK, FlagsOK, PlacesOK, FlagMeansChannel, Senders, Order, TlsTake
<1>20. CASE TlsWriterSeesClose
  <2>1. FlagsOK'
    BY <1>20, CloseKeeps, Zenon DEF FlagsOK, TlsWriterSeesClose, TlsExit
  <2>2. PlacesOK'
    BY <1>20, CloseKeeps DEF PlacesOK, TlsWriterSeesClose, TlsExit
  <2>3. FlagMeansChannel'
    BY <1>20, CloseKeeps
       DEF FlagsOK, PlacesOK, FlagMeansChannel, Order, TlsWriterSeesClose, TlsExit
  <2>4. Senders'
    BY <1>20, CloseKeeps DEF FlagsOK, PlacesOK, Senders, TlsWriterSeesClose, TlsExit
  <2>5. Order'
    BY <1>20, CloseKeeps
       DEF FlagsOK, PlacesOK, FlagMeansChannel, Order, TlsWriterSeesClose, TlsExit
  <2> QED
    BY <2>1, <2>2, <2>3, <2>4, <2>5 DEF IInv, TypeOK
<1>21. CASE TlsWrite
  <2>1. FlagsOK'
    BY <1>21, CloseKeeps, Zenon DEF FlagsOK, TlsWrite, TlsExit
  <2>2. PlacesOK'
    BY <1>21, CloseKeeps DEF PlacesOK, TlsWrite, TlsExit
  <2>3. FlagMeansChannel'
    BY <1>21, CloseKeeps DEF FlagsOK, PlacesOK, FlagMeansChannel, Order, TlsWrite, TlsExit
  <2>4. Senders'
    BY <1>21, CloseKeeps DEF FlagsOK, PlacesOK, Senders, TlsWrite, TlsExit
  <2>5. Order'
    <3>1. CASE UNCHANGED sessVars
      BY <1>21, <3>1 DEF Order, TlsWrite
    <3>2. CASE Close
      BY <1>21, <3>2, CloseKeeps DEF Order, TlsWrite
    <3> QED
      BY <1>21, <3>1, <3>2 DEF TlsWrite, TlsExit
  <2> QED
    BY <2>1, <2>2, <2>3, <2>4, <2>5 DEF IInv, TypeOK
<1>22. CASE DtlsHead
  <2>1. FlagsOK'
    BY <1>22, Zenon DEF FlagsOK, DtlsHead, closeSetup
  <2>2. PlacesOK'
    BY <1>22 DEF PlacesOK, DtlsHead, closeSetup
  <2>3. FlagMeansChannel'
    BY <1>22 DEF FlagsOK, PlacesOK, FlagMeansChannel, Order, DtlsHead, closeSetup
  <2>4. Senders'
    BY <1>22 DEF FlagsOK, PlacesOK, Senders, DtlsHead, closeSetup
  <2>5. Order'
    BY <1>22 DEF FlagsOK, PlacesOK, FlagMeansChannel, Order, DtlsHead, closeSetup
  <2> QED
    BY <2>1, <2>2, <2>3, <2>4, <2>5 DEF IInv, TypeOK
<1>23. CASE DtlsHandshakeFail
  BY <1>23
     DEF IInv, TypeOK, FlagsOK, PlacesOK, FlagMeansChannel, Senders, Order,
         DtlsHandshakeFail, closeSetup
<1>24. CASE DtlsHandshakeOk
  BY <1>24
     DEF IInv, TypeOK, FlagsOK, PlacesOK, FlagMeansChannel, Senders, Order,
         DtlsHandshakeOk, closeSetup, Attempts
<1>25. CASE DtlsRetry
  <2>1. FlagsOK'
    BY <1>25, Zenon DEF FlagsOK, DtlsRetry, closeSetup
  <2>2. PlacesOK'
    BY <1>25 DEF PlacesOK, DtlsRetry, closeSetup
  <2>3. FlagMeansChannel'
    BY <1>25 DEF FlagsOK, PlacesOK, FlagMeansChannel, Order, DtlsRetry, closeSetup
  <2>4. Senders'
    BY <1>25 DEF FlagsOK, PlacesOK, Senders, DtlsRetry, closeSetup
  <2>5. Order'
    BY <1>25 DEF FlagsOK, PlacesOK, FlagMeansChannel, Order, DtlsRetry, closeSetup
  <2> QED
    BY <2>1, <2>2, <2>3, <2>4, <2>5 DEF IInv, TypeOK
<1>26. CASE DtlsRead
  BY <1>26
     DEF IInv, TypeOK, FlagsOK, PlacesOK, FlagMeansChannel, Senders, Order, DtlsRead
<1>27. CASE DtlsReadError
  <2>1. FlagsOK'
    BY <1>27, Zenon DEF FlagsOK, DtlsReadError, TearDown
  <2>2. PlacesOK'
    BY <1>27 DEF PlacesOK, Order, DtlsReadError, TearDown
  <2>3. FlagMeansChannel'
    BY <1>27 DEF FlagsOK, PlacesOK, FlagMeansChannel, Order, DtlsReadError, TearDown
  <2>4. Senders'
    BY <1>27 DEF FlagsOK, PlacesOK, Senders, DtlsReadError, TearDown
  <2>5. Order'
    BY <1>27 DEF FlagsOK, PlacesOK, FlagMeansChannel, Order, DtlsReadError, TearDown
  <2> QED
    BY <2>1, <2>2, <2>3, <2>4, <2>5 DEF IInv, TypeOK
<1>28. CASE DtlsPutIn
  <2>1. FlagsOK'
    BY <1>28, Zenon DEF FlagsOK, DtlsPutIn, TearDown
  <2>2. PlacesOK'
    BY <1>28 DEF PlacesOK, Order, DtlsPutIn, TearDown
  <2>3. FlagMeansChannel'
    BY <1>28 DEF FlagsOK, PlacesOK, FlagMeansChannel, Order, DtlsPutIn, TearDown
  <2>4. Senders'
    BY <1>28 DEF FlagsOK, PlacesOK, Senders, DtlsPutIn, TearDown
  <2>5. Order'
    BY <1>28 DEF FlagsOK, PlacesOK, FlagMeansChannel, Order, DtlsPutIn, TearDown
  <2> QED
    BY <2>1, <2>2, <2>3, <2>4, <2>5 DEF IInv, TypeOK
<1>29. CASE DtlsPutOut
  <2>1. FlagsOK'
    BY <1>29, Zenon DEF FlagsOK, DtlsPutOut, TearDown
  <2>2. PlacesOK'
    BY <1>29 DEF PlacesOK, Order, DtlsPutOut, TearDown
  <2>3. FlagMeansChannel'
    BY <1>29 DEF FlagsOK, PlacesOK, FlagMeansChannel, Order, DtlsPutOut, TearDown
  <2>4. Senders'
    BY <1>29 DEF FlagsOK, PlacesOK, Senders, DtlsPutOut, TearDown
  <2>5. Order'
    BY <1>29 DEF FlagsOK, PlacesOK, FlagMeansChannel, Order, DtlsPutOut, TearDown
  <2> QED
    BY <2>1, <2>2, <2>3, <2>4, <2>5 DEF IInv, TypeOK
<1>30. CASE DtlsLost
  <2>1. FlagsOK'
    BY <1>30, Zenon DEF FlagsOK, DtlsLost
  <2>2. PlacesOK'
    BY <1>30 DEF PlacesOK, DtlsLost
  <2>3. FlagMeansChannel'
    BY <1>30 DEF FlagsOK, PlacesOK, FlagMeansChannel, Order, DtlsLost
  <2>4. Senders'
    BY <1>30 DEF FlagsOK, PlacesOK, Senders, DtlsLost
  <2>5. Order'
    BY <1>30 DEF FlagsOK, PlacesOK, FlagMeansChannel, Order, DtlsLost
  <2> QED
    BY <2>1, <2>2, <2>3, <2>4, <2>5 DEF IInv, TypeOK
<1>31. ASSUME NEW k \in Attempts, SenderTake(k) PROVE IInv'
  BY <1>31
     DEF IInv, TypeOK, FlagsOK, PlacesOK, FlagMeansChannel, Senders, Order, SenderTake
<1>32. ASSUME NEW k \in Attempts, SenderStops(k) PROVE IInv'
  BY <1>32
     DEF IInv, TypeOK, FlagsOK, PlacesOK, FlagMeansChannel, Senders, Order, SenderStops
<1>33. ASSUME NEW k \in Attempts, SenderWrite(k) PROVE IInv'
  BY <1>33
     DEF IInv, TypeOK, FlagsOK, PlacesOK, FlagMeansChannel, Senders, Order, SenderWrite
<1>34. CASE DpdTick
  BY <1>34
     DEF IInv, TypeOK, FlagsOK, PlacesOK, FlagMeansChannel, Senders, Order, DpdTick,
         Offer
<1>35. CASE UNCHANGED vars
  BY <1>35 DEF IInv, TypeOK, FlagsOK, PlacesOK, FlagMeansChannel, Senders, Order, vars
<1> QED
  BY <1>1, <1>2, <1>3, <1>4, <1>5, <1>7, <1>8, <1>9, <1>10, <1>11, <1>12, <1>13,
     <1>14, <1>15, <1>16, <1>17, <1>18, <1>19, <1>20, <1>21, <1>22, <1>23, <1>24, <1>25,
     <1>26, <1>27, <1>28, <1>29, <1>30, <1>31, <1>32, <1>33, <1>34, <1>35
     DEF Next, SetupStep, TunReader, TunWriter, TlsReader, TlsWriter, DtlsReader, DtlsWriter

\* The invariant holds in every state of every behaviour.
LEMMA Invariance == Spec => []IInv
BY InitIInv, NextIInv, PTL DEF Spec

\* Every variable keeps its type; in particular none of the three packet
\* channels is ever modelled beyond its capacity.
THEOREM TypeCorrect == Spec => []TypeOK
BY Invariance, PTL DEF IInv

\* The flag by which tunToPayloadOut and DPDTimer choose the DTLS channel is
\* up only while dtlsChannel is in a connection, or has just lost it, and DSess
\* is open; or, with DSess closed, in a session that was replaced before Close.
THEOREM FlagCorrect == Spec => []FlagMeansChannel
BY Invariance, PTL DEF IInv

\* However many DTLS connections come and go, the sender of a connection that
\* was torn down takes at most one more packet from PayloadOutDTLS.
THEOREM SendersCorrect == Spec => []OldSendersTakeOne
<1>1. IInv => OldSendersTakeOne
  BY DEF IInv, Senders, OldSendersTakeOne
<1> QED
  BY Invariance, <1>1, PTL

=============================================================================
