-------------------------------- MODULE Auth --------------------------------
(***************************************************************************)
(* Logging in and opening the tunnel (auth/auth.go, vpn/tunnel.go): the    *)
(* process-wide variables of package auth, which outlive the attempt they  *)
(* were filled by, over a sequence of attempts: CONNECT and the automatic  *)
(* reconnect dial and log in, RECONNECT goes on with what is there.        *)
(* Between them sessions come and go; the goroutines of a session that has *)
(* ended close its connection when they get to it.  One attempt runs at a  *)
(* time: attempts that overlap are Lifecycle's subject.                    *)
(*                                                                         *)
(* A connection is a number; whatever the server hands out on connection c *)
(* (a cookie, a token, the opaque part of a form) is c, 0 stands for       *)
(* nothing.                                                                *)
(***************************************************************************)
EXTENDS Naturals, FiniteSets

CONSTANT MaxConns          \* bound: connections dialled
ASSUME MaxConnsAssumption == MaxConns \in Nat

VARIABLES
  pc,            \* "idle", "init", "reply", "again", "tunnel", "negotiate",
                 \* "setup"
  kind,          \* who runs the attempt: "connect", "auto", "reconnect"
  made,          \* connections dialled so far
  conns,         \* per connection: "unused", "open", "closed"
  Conn,          \* auth.Conn (and auth.BufR); 0: nil
  WebVpnCookie, cookies, Opaque,    \* of package auth; Opaque is in Prof
  SessionToken,  \* session.Sess.SessionToken
  Compression,   \* base.Cfg.Compression
  advertised,    \* reqHeaders holds X-CSTP-Accept-Encoding
  CSess,         \* session.Sess.CSess, by its connection
  tls,           \* connections served by tlsChannel and its partner
  why            \* history: why an attempt gave a connection up: it "failed",
                 \* the server "refused" it, or its answer was "garbled"

tokens == <<WebVpnCookie, cookies, Opaque, SessionToken>>
vars == <<pc, kind, made, conns, Conn, tokens, Compression, advertised, CSess, tls,
          why>>

Ids == 1..MaxConns

Init ==
  /\ pc = "idle" /\ kind = "connect" /\ made = 0
  /\ conns = [c \in Ids |-> "unused"] /\ Conn = 0
  /\ WebVpnCookie = 0 /\ cookies = {} /\ Opaque = 0 /\ SessionToken = 0
  /\ Compression \in BOOLEAN /\ advertised = FALSE
  /\ CSess = 0 /\ tls = {} /\ why = [c \in Ids |-> "none"]

(***************************************************************************)
(* The attempts                                                            *)
(***************************************************************************)

\* The attempt ends with an error.
Abandon(reason) ==
  /\ pc' = "idle"
  /\ why' = IF Conn = 0 THEN why ELSE [why EXCEPT ![Conn] = reason]

\* Mutant of InitAuth: the cookie of the last login is kept.
InitAuthKeeps(k) ==
  /\ pc = "idle" /\ CSess = 0 /\ kind' = k
  /\ cookies' = {}
  /\ made < MaxConns /\ made' = made + 1 /\ Conn' = made'
  /\ conns' = [conns EXCEPT ![made'] = "open"]
  /\ pc' = "init"
  /\ UNCHANGED <<WebVpnCookie, Opaque, SessionToken, Compression, advertised, CSess, tls,
                 why>>

\* CONNECT (refused while there is a session) and reconnectOnce: what the last
\* login left is cleared, then InitAuth dials.
InitAuth(k) ==
  /\ pc = "idle" /\ CSess = 0 /\ kind' = k
  /\ WebVpnCookie' = 0 /\ cookies' = {}
  /\ made < MaxConns /\ made' = made + 1 /\ Conn' = made'
  /\ conns' = [conns EXCEPT ![made'] = "open"]
  /\ pc' = "init"
  /\ UNCHANGED <<Opaque, SessionToken, Compression, advertised, CSess, tls, why>>

\* DialWithDialer failed: auth.Conn is nil from here on.
DialFails(k) ==
  /\ pc = "idle" /\ CSess = 0 /\ kind' = k
  /\ WebVpnCookie' = 0 /\ cookies' = {} /\ Conn' = 0
  /\ UNCHANGED <<pc, made, conns, Opaque, SessionToken, Compression, advertised, CSess,
                 tls, why>>

(***************************************************************************)
(* tplPost                                                                 *)
(***************************************************************************)

\* Mutant of PostFails: the connection is left open.
PostFailsOpen ==
  /\ pc \in {"init", "reply", "again"}
  /\ Abandon("failed")
  /\ UNCHANGED <<kind, made, conns, Conn, tokens, Compression, advertised, CSess, tls>>

\* The request cannot be written, the response not be read, or its status is
\* not 200: the connection is closed.
PostFails ==
  /\ pc \in {"init", "reply", "again"}
  /\ conns' = [conns EXCEPT ![Conn] = "closed"]
  /\ cookies' \in {cookies, cookies \cup {Conn}}
  /\ Abandon("failed")
  /\ UNCHANGED <<kind, made, Conn, WebVpnCookie, Opaque, SessionToken, Compression,
                 advertised, CSess, tls>>

\* What the body of a response can be.
Forms == [type : {"complete", "auth-request", "other"}, error : BOOLEAN,
          token : BOOLEAN, webvpn : BOOLEAN, xml : BOOLEAN]

\* tplPost returns an error although the status was 200, and leaves the
\* connection open: the XML is broken, or a complete form reports an error.
FormError(f) == ~f.xml \/ (f.type = "complete" /\ f.error)

\* The cookies of the response are kept; that of ocserv stands for the token.
Collect(f) ==
  /\ \E set \in BOOLEAN :
       /\ f.webvpn => set
       /\ cookies' = IF set THEN cookies \cup {Conn} ELSE cookies
  /\ WebVpnCookie' = IF /\ f.type = "complete" /\ ~(f.xml /\ f.error)
                        /\ ~f.token /\ f.webvpn
                       THEN Conn ELSE WebVpnCookie

PostRefused(f) ==
  /\ pc \in {"init", "reply", "again"} /\ FormError(f)
  /\ Collect(f)
  /\ Abandon(IF f.xml THEN "refused" ELSE "garbled")
  /\ UNCHANGED <<kind, made, conns, Conn, Opaque, SessionToken, Compression, advertised,
                 CSess, tls>>

\* The first form: InitAuth takes the opaque part from it, and gives up when
\* the user's group is not offered.
InitForm(f) ==
  /\ pc = "init" /\ ~FormError(f)
  /\ Collect(f) /\ Opaque' = Conn
  /\ \/ pc' = "reply" /\ UNCHANGED why
     \/ Abandon("refused")
  /\ UNCHANGED <<kind, made, conns, Conn, SessionToken, Compression, advertised, CSess, tls>>

\* PasswordAuth: a first auth-request without an error is answered again.
AskedAgain(f) ==
  /\ pc = "reply" /\ ~FormError(f) /\ f.type = "auth-request" /\ ~f.error
  /\ Collect(f)
  /\ pc' = "again"
  /\ UNCHANGED <<kind, made, conns, Conn, Opaque, SessionToken, Compression, advertised,
                 CSess, tls, why>>

\* Still an auth-request: wrong user or password.
Denied(f) ==
  /\ f.type = "auth-request" /\ ~FormError(f)
  /\ pc = "again" \/ (pc = "reply" /\ f.error)
  /\ Collect(f)
  /\ Abandon("refused")
  /\ UNCHANGED <<kind, made, conns, Conn, Opaque, SessionToken, Compression, advertised,
                 CSess, tls>>

\* Logged in: the token is the form's, or the cookie if there is one.
LoggedIn(f) ==
  /\ pc \in {"reply", "again"} /\ ~FormError(f) /\ f.type # "auth-request"
  /\ Collect(f)
  /\ SessionToken' = IF WebVpnCookie' # 0 THEN WebVpnCookie'
                     ELSE IF f.token THEN Conn ELSE 0
  /\ pc' = "tunnel"
  /\ UNCHANGED <<kind, made, conns, Conn, Opaque, Compression, advertised, CSess, tls, why>>

(***************************************************************************)
(* SetupTunnel                                                             *)
(***************************************************************************)

ApplyCompressionHeaders == advertised' = Compression

\* RECONNECT goes straight to SetupTunnel.
Reconnect ==
  /\ pc = "idle" /\ CSess = 0 /\ Conn # 0
  /\ kind' = "reconnect" /\ pc' = "tunnel"
  /\ UNCHANGED <<made, conns, Conn, tokens, Compression, advertised, CSess, tls, why>>

\* With a nil connection it panics after initTunnel; Handle recovers.
ReconnectPanics ==
  /\ pc = "idle" /\ CSess = 0 /\ Conn = 0
  /\ kind' = "reconnect"
  /\ ApplyCompressionHeaders
  /\ UNCHANGED <<pc, made, conns, Conn, tokens, Compression, CSess, tls, why>>

\* initTunnel, then the CONNECT request is written.
SendConnect ==
  /\ pc = "tunnel" /\ conns[Conn] = "open"
  /\ ApplyCompressionHeaders
  /\ pc' = "negotiate"
  /\ UNCHANGED <<kind, made, conns, Conn, tokens, Compression, CSess, tls, why>>

\* It cannot be written, or the response cannot be read or has another status.
TunnelFails ==
  /\ \/ pc = "tunnel" /\ ApplyCompressionHeaders
     \/ pc = "negotiate" /\ UNCHANGED advertised
  /\ conns' = [conns EXCEPT ![Conn] = "closed"]
  /\ Abandon("failed")
  /\ UNCHANGED <<kind, made, Conn, tokens, Compression, CSess, tls>>

\* The server agrees: NewConnSession.
Negotiated ==
  /\ pc = "negotiate" /\ conns[Conn] = "open"
  /\ CSess' = Conn /\ pc' = "setup"
  /\ UNCHANGED <<kind, made, conns, Conn, tokens, Compression, advertised, tls, why>>

\* setupTun or SetRoutes failed.
SetupFails ==
  /\ pc = "setup"
  /\ conns' = [conns EXCEPT ![Conn] = "closed"]
  /\ CSess' = 0
  /\ Abandon("failed")
  /\ UNCHANGED <<kind, made, Conn, tokens, Compression, advertised, tls>>

\* tlsChannel and payloadOutTLSToServer get the connection as an argument.
StartTls ==
  /\ pc = "setup"
  /\ tls' = tls \cup {Conn} /\ pc' = "idle"
  /\ UNCHANGED <<kind, made, conns, Conn, tokens, Compression, advertised, CSess, why>>

(***************************************************************************)
(* The session, CONFIG                                                     *)
(***************************************************************************)

\* ConnSession.Close, from DISCONNECT, the server or a timer.
SessionCloses ==
  /\ pc \in {"idle", "setup"} /\ CSess # 0
  /\ CSess' = 0
  /\ UNCHANGED <<pc, kind, made, conns, Conn, tokens, Compression, advertised, tls, why>>

\* Mutant of TlsExits: the deferred function closes auth.Conn.
TlsExitsGlobal(c) ==
  /\ c \in tls
  /\ tls' = tls \ {c}
  /\ conns' = [conns EXCEPT ![Conn] = "closed"]
  /\ CSess' = IF CSess = c THEN 0 ELSE CSess
  /\ UNCHANGED <<pc, kind, made, Conn, tokens, Compression, advertised, why>>

\* The goroutines of a session end, because it was closed or of themselves:
\* they close their own connection and the session.
TlsExits(c) ==
  /\ c \in tls
  /\ tls' = tls \ {c}
  /\ conns' = [conns EXCEPT ![c] = "closed"]
  /\ CSess' = IF CSess = c THEN 0 ELSE CSess
  /\ UNCHANGED <<pc, kind, made, Conn, tokens, Compression, advertised, why>>

\* CONFIG changes compression, at any time.
Config ==
  /\ Compression' = ~Compression
  /\ UNCHANGED <<pc, kind, made, conns, Conn, tokens, advertised, CSess, tls, why>>

Next ==
  \/ \E k \in {"connect", "auto"} : InitAuth(k) \/ DialFails(k)
  \/ Reconnect \/ ReconnectPanics \/ PostFails
  \/ \E f \in Forms : PostRefused(f) \/ InitForm(f) \/ AskedAgain(f) \/ Denied(f)
                        \/ LoggedIn(f)
  \/ SendConnect \/ TunnelFails \/ Negotiated \/ SetupFails \/ StartTls
  \/ SessionCloses \/ (\E c \in Ids : TlsExits(c)) \/ Config

Spec == Init /\ [][Next]_vars

(***************************************************************************)
(* Properties                                                              *)
(***************************************************************************)

LoggingIn == pc \in {"init", "reply", "again"}
Fresh == kind # "reconnect"

\* auth.go:116-117: nothing of an earlier login, failed or not, gets into this
\* one: the cookies and the form that go back to the server, and the token the
\* tunnel is opened with, all come from this attempt's connection.
CredentialsAreFresh ==
  /\ LoggingIn => cookies \subseteq {Conn} /\ WebVpnCookie \in {0, Conn}
  /\ pc \in {"reply", "again"} => Opaque = Conn
  /\ pc \in {"tunnel", "negotiate"} /\ Fresh => SessionToken \in {0, Conn}

\* auth.go:262-291: a connection nobody has any more (it is not auth.Conn, and
\* no goroutine serves it) and that is still open was given up after an answer
\* with status 200: the server refused the login in it, or its XML is broken.
\* Transport errors, other statuses and failures after the login close it.
LeftOpenAfterAnswer ==
  \A c \in Ids :
    conns[c] = "open" /\ c # Conn /\ c \notin tls => why[c] \in {"refused", "garbled"}

\* While an attempt that has dialled is under way its connection is open,
\* whenever the goroutines of the session before get round to closing theirs.
AttemptKeepsConnection ==
  pc # "idle" /\ Fresh => conns[Conn] = "open"

\* connect.go:37 and rpc.go:181: SetupTunnel(true) is for reconnecting after a
\* short loss of the link, so that RECONNECT, after a session that was up
\* (no attempt gave its connection up), has a connection to go on with.
ReconnectUsable ==
  pc = "tunnel" /\ kind = "reconnect" /\ why[Conn] = "none" => conns[Conn] = "open"

\* tunnel.go:91-107 with rpc.go:186: what there is instead.  Once the goroutines
\* of the last session are gone, the connection RECONNECT goes on with is
\* closed, or is one on which a login ended without success.
ReconnectHasNone ==
  pc = "tunnel" /\ kind = "reconnect" /\ tls = {} =>
    conns[Conn] = "closed" \/ why[Conn] \in {"refused", "garbled"}

=============================================================================
