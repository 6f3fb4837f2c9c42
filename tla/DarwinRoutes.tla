---------------------------- MODULE DarwinRoutes ----------------------------
(***************************************************************************)
(* Routes and DNS on macOS (utils/vpnc/vpnc_darwin.go): one AF_ROUTE       *)
(* socket for the process, guarded by a mutex, through which a batch of    *)
(* requests is written and the kernel's answers are collected              *)
(* (pipelineLocked).  SetRoutes, ResetRoutes and the DNS sniffers that add *)
(* dynamic routes take the mutex in turn; a batch is one or more steps,    *)
(* because every write and every answer may fail on its own.  The process  *)
(* may crash between any two steps.                                        *)
(*                                                                         *)
(* A destination stands for an address with its mask, a gateway for a      *)
(* gateway with its interface; the gateway of session s's tunnel is s.     *)
(***************************************************************************)
EXTENDS Naturals, Sequences, FiniteSets

CONSTANTS
  MaxSessions,    \* bound: calls of SetRoutes
  LocalGateways,  \* gateways of the physical interface, one at a time
  NoRoute, System,\* no entry; an entry that is not ours
  Server,         \* the host route to the VPN server
  Include, Exclude, \* cSess.SplitInclude and SplitExclude, as destinations
  DNS,            \* cSess.DNS, as destinations
  Answers,        \* addresses a DNS sniffer adds in one call
  SystemRoutes,   \* destinations the host has routes for; Server may be one
  DynamicDomains, \* len(cSess.DynamicSplitIncludeDomains) > 0
  AddFails, DeleteFails, \* the kernel may refuse an ADD, a DELETE
  AckLost,        \* an answer may not arrive within routeSocketAckTimeout
  DnsFails,       \* scutil may fail
  Crashes,        \* the process may crash
  Orderly         \* TRUE: s is reset after its SetRoutes has returned and
                  \* before SetRoutes of s + 1

Sessions == 1..MaxSessions
Gateways == Sessions \cup LocalGateways
Items(q) == {q[i] : i \in DOMAIN q}
Dests    == {Server} \cup SystemRoutes \cup Items(Include) \cup Items(Exclude)
              \cup Items(DNS) \cup Items(Answers)

ASSUME SessionsAssumption == MaxSessions \in Nat
ASSUME RoutesAssumption ==
  /\ Include \in Seq(Items(Include)) /\ Exclude \in Seq(Items(Exclude))
  /\ DNS \in Seq(Items(DNS)) /\ Answers \in Seq(Items(Answers))
ASSUME GatewaysAssumption ==
  /\ Sessions \cap LocalGateways = {}
  /\ {NoRoute, System} \cap Gateways = {}
  /\ NoRoute # System
ASSUME SwitchesAssumption ==
  {DynamicDomains, AddFails, DeleteFails, AckLost, DnsFails, Crashes, Orderly}
    \subseteq BOOLEAN

VARIABLES
  table,          \* the kernel's routes: destination -> gateway
  fd,             \* routeSocket.fd >= 0
  tunnelGateway, localGateway, \* as kept in routeSocket
  installed,      \* routeSocket.installed, as a set of [dst, gw]
  dns,            \* tunnels scutil has DNS servers for
  phase,          \* per session: where SetRoutes is
  local,          \* per session: base.LocalInterface.Gateway
  gone,           \* sessions whose tun device is closed
  job,            \* who holds the mutex: [kind, sess, stage]
  todo,           \* requests of the batch not yet written
  written,        \* requests written, with the answer that will be read
  aborted,        \* a write failed
  spoilt          \* history: a DELETE failed, an answer was lost, scutil
                  \* could not restore, or the process crashed

sockVars == <<fd, tunnelGateway, localGateway, installed>>
pipeVars == <<todo, written, aborted>>
sessVars == <<phase, local, gone>>
vars == <<table, sockVars, dns, sessVars, job, pipeVars, spoilt>>

Idle == [kind |-> "none", sess |-> 0, stage |-> "idle"]

Init ==
  /\ table = [d \in Dests |-> IF d \in SystemRoutes THEN System ELSE NoRoute]
  /\ fd = FALSE /\ tunnelGateway = NoRoute /\ localGateway = NoRoute
  /\ installed = {} /\ dns = {}
  /\ phase = [s \in Sessions |-> "new"]
  /\ local = [s \in Sessions |-> NoRoute]
  /\ gone = {} /\ job = Idle
  /\ todo = {} /\ written = {} /\ aborted = FALSE /\ spoilt = FALSE

(***************************************************************************)
(* The kernel (external)                                                   *)
(***************************************************************************)

Done(r) == table' = [table EXCEPT ![r.dst] = IF r.typ = "ADD" THEN r.gw
                                                              ELSE NoRoute]

\* What the kernel may answer: routes are told apart by destination, and a
\* DELETE does not look at the gateway.
KernelAnswers(r) ==
  LET here == table[r.dst] # NoRoute IN
  {a \in {"ok", "EEXIST", "ESRCH", "error"} :
     CASE a = "ok"     -> here = (r.typ = "DELETE") /\ ~(r.typ = "ADD" /\ r.gw \in gone)
       [] a = "EEXIST" -> here /\ r.typ = "ADD"
       [] a = "ESRCH"  -> ~here /\ r.typ = "DELETE"
       [] a = "error"  -> IF r.typ = "ADD" THEN AddFails \/ r.gw \in gone
                                           ELSE DeleteFails}

(***************************************************************************)
(* pipelineLocked                                                          *)
(***************************************************************************)

\* A batch is a set of numbered requests, written in the order of the numbers.
Batch(typ, first, dests, gw) ==
  {[n |-> first + i, typ |-> typ, dst |-> dests[i], gw |-> gw] :
     i \in DOMAIN dests}

Start(kind, s, reqs) ==
  /\ job' = [kind |-> kind, sess |-> s, stage |-> "write"]
  /\ todo' = reqs /\ written' = {} /\ aborted' = FALSE

\* Mutant of Tolerated: every error is.
ToleratedAll(r, a) == a # "ok"

\* An ADD of a route that exists and a DELETE of one that does not are not
\* errors, whether write or an answer reports them.
Tolerated(r, a) ==
  \/ r.typ = "ADD" /\ a = "EEXIST"
  \/ r.typ = "DELETE" /\ a = "ESRCH"

\* collectAcksLocked: the answer to a request whose outcome is a, or none within
\* the timeout.
Acks(a) == {a} \cup (IF AckLost THEN {"lost"} ELSE {})

\* One turn of the write loop: writeWithRetry hands the request to the kernel,
\* which acts on it at once.  The outcome comes back from write, or as an
\* answer that collectAcksLocked reads later, or never ("lost").  What write
\* reports and is tolerated is skipped; anything else ends the batch.
WriteRequest ==
  \E r \in todo, a \in {"ok", "EEXIST", "ESRCH", "error"} :
    /\ job.stage \in {"write", "undo"}
    /\ \A q \in todo : r.n <= q.n
    /\ a \in KernelAnswers(r)
    /\ IF a = "ok" THEN Done(r) ELSE UNCHANGED table
    /\ \/ /\ a # "ok"
          /\ aborted' = ~Tolerated(r, a)
          /\ todo' = IF aborted' THEN {} ELSE todo \ {r}
          /\ UNCHANGED written
          /\ spoilt' = (spoilt \/ (aborted' /\ r.typ = "DELETE"))
       \/ \E b \in Acks(a) :
            /\ written' = written \cup {[typ |-> r.typ, dst |-> r.dst,
                                         gw |-> r.gw, ack |-> b]}
            /\ todo' = todo \ {r}
            /\ spoilt' = (spoilt \/ b = "lost"
                                 \/ (b = "error" /\ r.typ = "DELETE"))
            /\ UNCHANGED aborted
    /\ UNCHANGED <<sockVars, dns, sessVars, job>>

\* Mutant of Routes: a route that existed counts as installed.
RoutesOrExisting(typ) == {[dst |-> r.dst, gw |-> r.gw] :
                  r \in {q \in written : q.typ = typ /\ q.ack \in {"ok", "EEXIST"}}}

\* applyResultsLocked: only what the kernel confirmed.
Routes(typ) == {[dst |-> r.dst, gw |-> r.gw] :
                  r \in {q \in written : q.typ = typ /\ q.ack = "ok"}}
ApplyResults == (installed \ Routes("DELETE")) \cup Routes("ADD")

Failed == aborted \/ \E r \in written : r.ack # "ok" /\ ~Tolerated(r, r.ack)

\* Mutants of RollbackRequests: a batch that broke off is not rolled back;
\* only a batch that broke off is.
RollbackUnlessAborted ==
  {[n |-> 0, typ |-> "DELETE", dst |-> r.dst, gw |-> r.gw] :
     r \in {q \in Routes("ADD") : ~aborted}}
RollbackIfAborted ==
  {[n |-> 0, typ |-> "DELETE", dst |-> r.dst, gw |-> r.gw] :
     r \in {q \in Routes("ADD") : aborted}}

\* rollbackSuccessfulAddsLocked: the confirmed ADDs of the batch, as DELETEs.
RollbackRequests ==
  {[n |-> 0, typ |-> "DELETE", dst |-> r.dst, gw |-> r.gw] : r \in Routes("ADD")}

\* What installed is when the answers are in: a batch that broke off is not
\* applied, the roll back of one is.
Collected == IF aborted THEN installed ELSE ApplyResults

\* The batch failed and some of its ADDs are in place.
Rollback ==
  /\ job.stage = "write" /\ todo = {} /\ Failed /\ RollbackRequests # {}
  /\ installed' = Collected
  /\ job' = [job EXCEPT !.stage = "undo"]
  /\ todo' = RollbackRequests /\ written' = {} /\ aborted' = FALSE
  /\ UNCHANGED <<table, fd, tunnelGateway, localGateway, dns, sessVars, spoilt>>

\* pipelineLocked returns to a caller of the given kind; ok: without an error.
Returns(kind, ok) ==
  /\ job.kind = kind /\ todo = {}
  /\ \/ job.stage = "write" /\ ok = ~Failed /\ (ok \/ RollbackRequests = {})
     \/ job.stage = "undo" /\ ~ok

(***************************************************************************)
(* SetRoutes                                                               *)
(***************************************************************************)

\* openLocked: the gateways are kept only when the socket is opened.
OpenLocked(s, g) ==
  /\ fd' = TRUE
  /\ tunnelGateway' = IF fd THEN tunnelGateway ELSE s
  /\ localGateway' = IF fd THEN localGateway ELSE g
  /\ UNCHANGED installed

\* Mutant of SetRoutesRequests: the server's route is added, not replaced.
SetRoutesAddOnly(s, g) ==
  Batch("ADD", 1, <<Server>>, g)
    \cup Batch("ADD", 2, Include, s)
    \cup Batch("ADD", 2 + Len(Include), Exclude, g)

\* The server's host route is deleted first: an earlier run may have left it
\* with another gateway.
SetRoutesRequests(s, g) ==
  Batch("DELETE", 0, <<Server>>, g)
    \cup Batch("ADD", 1, <<Server>>, g)
    \cup Batch("ADD", 2, Include, s)
    \cup Batch("ADD", 2 + Len(Include), Exclude, g)

MayBegin(s) ==
  /\ job = Idle /\ phase[s] = "new"
  /\ \A t \in Sessions : t < s => phase[t] # "new"
  /\ Orderly => \A t \in Sessions : phase[t] \in {"new", "ended"}

\* SetRoutes up to the call of pipelineLocked, when nothing is wrong.
SetRoutes(s, g) ==
  /\ MayBegin(s)
  /\ OpenLocked(s, g)
  /\ phase' = [phase EXCEPT ![s] = "set"]
  /\ local' = [local EXCEPT ![s] = g]
  /\ Start("set", s, SetRoutesRequests(s, g))
  /\ UNCHANGED <<table, dns, gone, spoilt>>

\* SetRoutes returns before anything is written: an interface or an address is
\* unusable, the socket cannot be opened or drained, or buildRtMsg refuses a
\* route once the socket is open.
SetRoutesRefused(s, g) ==
  /\ MayBegin(s)
  /\ \/ UNCHANGED sockVars
     \/ OpenLocked(s, g)
     \/ /\ ~fd /\ UNCHANGED <<fd, installed>>
        /\ tunnelGateway' = s /\ localGateway' = g
  /\ phase' = [phase EXCEPT ![s] = "failed"]
  /\ UNCHANGED <<table, dns, local, gone, job, pipeVars, spoilt>>

\* pipelineLocked returns: the answers are applied, the mutex is free.
Release ==
  /\ installed' = Collected
  /\ job' = Idle /\ todo' = {} /\ written' = {} /\ aborted' = FALSE
  /\ UNCHANGED <<table, fd, tunnelGateway, localGateway, dns, local, gone, spoilt>>

SetRoutesAdded ==
  /\ Returns("set", TRUE)
  /\ Release
  /\ phase' = [phase EXCEPT ![job.sess] = IF DNS = <<>> THEN "up" ELSE "dns"]

SetRoutesFailed ==
  /\ Returns("set", FALSE)
  /\ Release
  /\ phase' = [phase EXCEPT ![job.sess] = "failed"]

\* setDNS: with dynamic include domains the DNS servers get routes first; the
\* mutex was free in between, and an error is only logged.
SetDnsRoutes(s) ==
  /\ job = Idle /\ phase[s] = "dns"
  /\ phase' = [phase EXCEPT ![s] = "scutil"]
  /\ IF DynamicDomains /\ fd
       THEN Start("dns", s, Batch("ADD", 0, DNS, tunnelGateway))
       ELSE UNCHANGED <<job, pipeVars>>
  /\ UNCHANGED <<table, sockVars, dns, local, gone, spoilt>>

\* The second half of setDNS, and the end of SetRoutes: on an error SetRoutes
\* calls ResetRoutes itself.
Scutil(s) ==
  /\ phase[s] = "scutil" /\ ~(job.kind = "dns" /\ job.sess = s)
  /\ \/ dns' = dns \cup {s} /\ phase' = [phase EXCEPT ![s] = "up"]
     \/ /\ DnsFails
        /\ phase' = [phase EXCEPT ![s] = "dnsErr"]
        /\ UNCHANGED dns
  /\ UNCHANGED <<table, sockVars, local, gone, job, pipeVars, spoilt>>

(***************************************************************************)
(* ResetRoutes                                                             *)
(***************************************************************************)

\* Everything installed is deleted, whichever session it is of.
ResetRoutes(s) ==
  /\ job = Idle
  /\ phase[s] \in {"up", "failed", "dnsErr"} \cup (IF Orderly THEN {} ELSE {"ended"})
  /\ phase' = [phase EXCEPT ![s] = "reset"]
  /\ Start("reset", s, {[n |-> 0, typ |-> "DELETE", dst |-> r.dst, gw |-> r.gw] :
                          r \in {q \in installed : fd}})
  /\ UNCHANGED <<table, sockVars, dns, local, gone, spoilt>>

\* closeLocked, whatever pipelineLocked returned; then restoreDNS.
CloseLocked ==
  /\ \E ok \in BOOLEAN : Returns("reset", ok)
  /\ fd' = FALSE /\ tunnelGateway' = NoRoute /\ localGateway' = NoRoute
  /\ installed' = {}
  /\ job' = Idle /\ todo' = {} /\ written' = {} /\ aborted' = FALSE
  /\ phase' = [phase EXCEPT ![job.sess] = IF DNS = <<>> THEN "ended" ELSE "restore"]
  /\ UNCHANGED <<table, dns, local, gone, spoilt>>

RestoreDNS(s) ==
  /\ phase[s] = "restore"
  /\ phase' = [phase EXCEPT ![s] = "ended"]
  /\ \/ dns' = dns \ {s} /\ UNCHANGED spoilt
     \/ DnsFails /\ UNCHANGED dns /\ spoilt' = TRUE
  /\ UNCHANGED <<table, sockVars, local, gone, job, pipeVars>>

(***************************************************************************)
(* Dynamic routes, the tun device, a crash                                 *)
(***************************************************************************)

\* addDynamicRoutes, from any sniffer: nothing when the socket is closed.  The
\* gateways are the ones routeSocket keeps.
DynamicAdd(gw) ==
  /\ job = Idle /\ fd
  /\ gw \in {tunnelGateway, localGateway}
  /\ Start("dyn", 0, Batch("ADD", 0, Answers, gw))
  /\ UNCHANGED <<table, sockVars, dns, sessVars, spoilt>>

DynamicReturn ==
  /\ \E kind \in {"dyn", "dns"}, ok \in BOOLEAN : Returns(kind, ok)
  /\ Release
  /\ UNCHANGED phase

Flush(ss) == [d \in Dests |-> IF table[d] \in ss THEN NoRoute ELSE table[d]]

\* The device is closed: the kernel drops the routes through it (external).
TunGone(s) ==
  /\ phase[s] # "new" /\ s \notin gone
  /\ gone' = gone \cup {s}
  /\ table' = Flush({s})
  /\ UNCHANGED <<sockVars, dns, phase, local, job, pipeVars, spoilt>>

\* The process dies: its memory and its devices are gone, routes through the
\* physical interface and scutil's entries are not.
Crash ==
  /\ Crashes /\ \E s \in Sessions : phase[s] \notin {"new", "ended"}
  /\ gone' = {s \in Sessions : phase[s] # "new"}
  /\ table' = Flush(gone')
  /\ fd' = FALSE /\ tunnelGateway' = NoRoute /\ localGateway' = NoRoute
  /\ installed' = {}
  /\ phase' = [s \in Sessions |-> IF phase[s] = "new" THEN "new" ELSE "ended"]
  /\ job' = Idle /\ todo' = {} /\ written' = {} /\ aborted' = FALSE
  /\ spoilt' = TRUE
  /\ UNCHANGED <<dns, local>>

Next ==
  \/ WriteRequest \/ Rollback
  \/ SetRoutesAdded \/ SetRoutesFailed \/ CloseLocked \/ DynamicReturn \/ Crash
  \/ \E s \in Sessions :
       \/ \E g \in LocalGateways : SetRoutes(s, g) \/ SetRoutesRefused(s, g)
       \/ SetDnsRoutes(s) \/ Scutil(s) \/ ResetRoutes(s) \/ RestoreDNS(s) \/ TunGone(s)
  \/ \E gw \in Gateways : DynamicAdd(gw)

Spec == Init /\ [][Next]_vars

(***************************************************************************)
(* Properties                                                              *)
(***************************************************************************)

\* A route the host had before to anywhere but the VPN server is never deleted
\* and never replaced, whatever fails and in whatever order sessions are set up
\* and reset: what the comment at vpnc_darwin.go:642 says must not happen on a
\* disconnect.  A host route to the server is the exception the code makes:
\* SetRoutes deletes it whoever put it there (vpnc_darwin.go:129-148), and
\* ResetRoutes deletes its own and does not put the host's back.
SystemRoutesKept == \A d \in SystemRoutes \ {Server} : table[d] = System

\* With the socket closed nothing of ours is left behind: a batch that broke
\* off, one that failed, a DNS set-up that failed and every sniffer that added
\* routes in between are all undone by the time ResetRoutes has closed it.
CleanWhenClosed ==
  ~spoilt /\ ~fd =>
    /\ \A d \in Dests : table[d] \in {NoRoute, System}
    /\ \A s \in dns : phase[s] = "restore"

\* A SetRoutes that returns an error has put nothing in place, already before
\* anybody resets: its batch is all or nothing (vpnc_darwin.go:614-695).
FailedLeavesNothing ==
  ~spoilt =>
    \A s \in Sessions :
      phase[s] = "failed" =>
        \A d \in ({Server} \cup Items(Include) \cup Items(Exclude)) \ Items(Answers) :
          table[d] \in {NoRoute, System}

\* While a session is up its split routes are in place: what it includes goes
\* through its tunnel, what it excludes through its own gateway.
SplitFollowsSession ==
  ~spoilt =>
    \A s \in Sessions \ gone :
      phase[s] = "up" =>
        /\ \A d \in Items(Include) \ (SystemRoutes \cup {Server}) : table[d] = s
        /\ \A d \in Items(Exclude) \ (SystemRoutes \cup {Server} \cup Items(Include)) :
             table[d] = local[s]

\* The host route to the server of a session that is up has that session's
\* gateway, even after a crash or a failed reset left one with another gateway
\* (the comment at vpnc_darwin.go:129-134).
ServerRouteCurrent ==
  \A s \in Sessions : phase[s] = "up" => table[Server] = local[s]

=============================================================================
