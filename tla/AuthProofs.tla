------------------------------ MODULE AuthProofs ------------------------------
(***************************************************************************)
(* Proofs about Auth, for any number of connections.                       *)
(***************************************************************************)
EXTENDS Auth, TLAPS

USE MaxConnsAssumption DEF Ids

(***************************************************************************)
(* The inductive invariant.                                                *)
(***************************************************************************)

Types ==
  /\ pc \in {"idle", "init", "reply", "again", "tunnel", "negotiate", "setup"}
  /\ kind \in {"connect", "auto", "reconnect"}
  /\ made \in 0..MaxConns /\ Conn \in 0..made /\ CSess \in {0, Conn}
  /\ conns \in [Ids -> {"unused", "open", "closed"}]
  /\ \A c \in Ids : conns[c] = "unused" <=> c > made
  /\ tls \subseteq 1..made
  /\ why \in [Ids -> {"none", "failed", "refused", "garbled"}]

\* An attempt has a connection; one that has dialled has it to itself, and only
\* such an attempt logs in.
Owned ==
  /\ pc # "idle" => Conn # 0
  /\ pc # "idle" /\ Fresh => Conn \notin tls /\ conns[Conn] = "open"
  /\ LoggingIn => Fresh

\* What auth.Conn is between two attempts, and when RECONNECT takes it over: a
\* connection that is served, closed, or left open by a login without success.
Leftover ==
  (pc = "idle" /\ Conn # 0) \/ (pc = "tunnel" /\ ~Fresh) =>
    (conns[Conn] = "open" /\ Conn \notin tls => why[Conn] \in {"refused", "garbled"})

Inv == Types /\ Owned /\ Leftover /\ CredentialsAreFresh /\ LeftOpenAfterAnswer

\* Init establishes the invariant.
LEMMA InitInv == Init => Inv
  BY DEF Init, Inv, Types, Owned, Leftover, CredentialsAreFresh, LeftOpenAfterAnswer,
         Fresh, LoggingIn

\* What an answer of the server leaves behind comes from the connection in use.
LEMMA CollectFresh ==
  ASSUME NEW f \in Forms, Collect(f), cookies \subseteq {Conn}, WebVpnCookie \in {0, Conn}
  PROVE  cookies' \subseteq {Conn} /\ WebVpnCookie' \in {0, Conn}
  BY DEF Collect

\* Every step preserves it.
LEMMA NextInv == Inv /\ [Next]_vars => Inv'
  <1> SUFFICES ASSUME Inv, [Next]_vars PROVE Inv'
    OBVIOUS
  <1> USE DEF Inv, Types, Owned, Leftover, CredentialsAreFresh, LeftOpenAfterAnswer,
              Fresh, LoggingIn, tokens
  <1>1. ASSUME NEW k \in {"connect", "auto"}, InitAuth(k) PROVE Inv'
    BY <1>1 DEF InitAuth
  <1>2. ASSUME NEW k \in {"connect", "auto"}, DialFails(k) PROVE Inv'
    BY <1>2 DEF DialFails
  <1>3. CASE Reconnect
    BY <1>3 DEF Reconnect
  <1>4. CASE ReconnectPanics
    BY <1>4 DEF ReconnectPanics
  <1>5. CASE PostFails
    BY <1>5 DEF PostFails, Abandon
  <1>6. ASSUME NEW f \in Forms, PostRefused(f) PROVE Inv'
    BY <1>6 DEF PostRefused, Abandon
  <1>7. ASSUME NEW f \in Forms, InitForm(f) PROVE Inv'
    BY <1>7, CollectFresh DEF InitForm, Abandon
  <1>8. ASSUME NEW f \in Forms, AskedAgain(f) PROVE Inv'
    BY <1>8, CollectFresh DEF AskedAgain
  <1>9. ASSUME NEW f \in Forms, Denied(f) PROVE Inv'
    BY <1>9 DEF Denied, Abandon
  <1>10. ASSUME NEW f \in Forms, LoggedIn(f) PROVE Inv'
    BY <1>10, CollectFresh DEF LoggedIn, FormError
  <1>11. CASE SendConnect
    BY <1>11 DEF SendConnect
  <1>12. CASE TunnelFails
    BY <1>12 DEF TunnelFails, Abandon
  <1>13. CASE Negotiated
    BY <1>13 DEF Negotiated
  <1>14. CASE SetupFails
    BY <1>14 DEF SetupFails, Abandon
  <1>15. CASE StartTls
    BY <1>15 DEF StartTls
  <1>16. CASE SessionCloses
    BY <1>16 DEF SessionCloses
  <1>17. ASSUME NEW c \in Ids, TlsExits(c) PROVE Inv'
    BY <1>17 DEF TlsExits
  <1>18. CASE Config
    BY <1>18 DEF Config
  <1>19. CASE UNCHANGED vars
    BY <1>19 DEF vars
  <1> QED
    BY <1>1, <1>2, <1>3, <1>4, <1>5, <1>6, <1>7, <1>8, <1>9, <1>10, <1>11, <1>12, <1>13,
       <1>14, <1>15, <1>16, <1>17, <1>18, <1>19 DEF Next

\* The invariant holds throughout.
LEMMA Invariant == Spec => []Inv
  BY InitInv, NextInv, PTL DEF Spec

(***************************************************************************)
(* The properties.                                                         *)
(***************************************************************************)

\* auth.go:116-117: the cookies and the form that go back to the server and the
\* token the tunnel is opened with all come from this login's own connection,
\* however many logins came before and however they ended.
THEOREM FreshCredentials == Spec => []CredentialsAreFresh
  <1>1. Inv => CredentialsAreFresh
    BY DEF Inv
  <1> QED
    BY <1>1, Invariant, PTL

\* auth.go:262-291: the only connections that are left open for good are those on
\* which the server answered with status 200 and refused the login, or sent XML
\* that cannot be parsed.
THEOREM OnlyAnsweredStayOpen == Spec => []LeftOpenAfterAnswer
  <1>1. Inv => LeftOpenAfterAnswer
    BY DEF Inv
  <1> QED
    BY <1>1, Invariant, PTL

\* tunnel.go:146: the goroutines of an earlier session never close the connection
\* of the attempt that is under way.
THEOREM ConnectionKept == Spec => []AttemptKeepsConnection
  <1>1. Inv => AttemptKeepsConnection
    BY DEF Inv, Owned, AttemptKeepsConnection
  <1> QED
    BY <1>1, Invariant, PTL

\* rpc.go:186: once the last session's goroutines are gone, RECONNECT finds its
\* connection closed, or one on which a login ended without success.
THEOREM NothingToReconnect == Spec => []ReconnectHasNone
  <1>1. Inv => ReconnectHasNone
    BY DEF Inv, Types, Owned, Leftover, Fresh, ReconnectHasNone
  <1> QED
    BY <1>1, Invariant, PTL

=============================================================================
