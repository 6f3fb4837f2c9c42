------------------------------ MODULE LinuxNet ------------------------------
(***************************************************************************)
(* Routes and DNS on Linux (utils/vpnc/vpnc_linux.go) with the goroutines  *)
(* that change them: SetRoutes in the goroutine that sets the tunnel up,   *)
(* ResetRoutes in the one that ends the session (DisConnect or the         *)
(* deferred function of payloadInToTun), the goroutine of setDNS that      *)
(* rewrites /etc/resolv.conf two seconds later, and one goroutine per      *)
(* sniffed DNS answer (dynamicSplitRoutes).  Nothing serialises them.      *)
(*                                                                         *)
(* The history variable "races" collects the bad orders that have come     *)
(* about; the properties say which of them can do which damage, and so     *)
(* that nothing else can.  A route is [dst, dev, prio]; the device of      *)
(* session s's tunnel is s, the one physical interface is Phys.            *)
(***************************************************************************)
EXTENDS Naturals, FiniteSets

CONSTANTS
  MaxSessions,    \* bound: tunnels set up
  Phys,           \* the physical interface
  Zero,           \* the destination 0.0.0.0/0
  Server,         \* the address of the VPN server
  Include,        \* cSess.SplitInclude; {}: all traffic goes to the tunnel
  Exclude,        \* cSess.SplitExclude
  Replies,        \* what DNS may answer for a name of
                  \* DynamicSplitExcludeDomains: a set of sets of addresses
  Sniffers,       \* bound: dynamicSplitRoutes goroutines at a time
  DefaultPrios,   \* priorities (metrics) of the host's default routes
  RouteFails,     \* RouteAdd may fail for a reason other than "exists", and
                  \* so may what sets the device up
  Crashes         \* the agent may crash and be started again

Sessions == 1..MaxSessions
Global   == Include = {}
Includes == IF Global THEN {Zero} ELSE Include
Dests    == {Zero, Server} \cup Include \cup Exclude \cup UNION Replies
Devices  == {Phys} \cup Sessions
ASSUME SessionsAssumption == MaxSessions \in Nat
ASSUME PhysAssumption == Phys \notin Sessions
\* The server and the answers are hosts; a server that names 0.0.0.0/0 in
\* SplitInclude or SplitExclude is not modelled.
ASSUME ZeroAssumption == Zero \notin {Server} \cup Include \cup Exclude \cup UNION Replies
ASSUME DefaultsAssumption == DefaultPrios \subseteq Nat /\ DefaultPrios # {}
ASSUME SwitchesAssumption == RouteFails \in BOOLEAN /\ Crashes \in BOOLEAN

VARIABLES
  table,          \* the kernel's routes
  initialized,    \* auth.Prof.Initialized
  localInterface, \* vpnc.localInterface: Phys, a tunnel, or 0 (nil) before the first
  iface,          \* vpnc.iface: the last tunnel configured
  resolv, bak,    \* whose servers /etc/resolv.conf and its copy name; 0: the host's
  set,            \* per session: where SetRoutes is
  reset,          \* per session: where ResetRoutes is, and the interface it
                  \* read at its start
  tuns,           \* tunnels that are open
  dnsJob,         \* per session: the goroutine of setDNS
  resolved,       \* per session: DynamicSplitExcludeResolved of the name
  sniff,          \* per sniffer: [pc, sess, ips]
  races           \* history: bad orders so far

netVars == <<localInterface, initialized>>
jobVars == <<dnsJob, resolved, sniff>>
vars == <<table, netVars, iface, resolv, bak, set, reset, tuns, jobVars, races>>

NoReset == [pc |-> "none", dev |-> 0]
NoSniff == [pc |-> "none", sess |-> 0, ips |-> {}]

\* The routes the host has to begin with.
Original == {[dst |-> Zero, dev |-> Phys, prio |-> p] : p \in DefaultPrios}

Init ==
  /\ table = Original
  /\ localInterface = 0 /\ initialized = FALSE /\ iface = 0 /\ resolv = 0 /\ bak = 0
  /\ set = [s \in Sessions |-> "new"] /\ reset = [s \in Sessions |-> NoReset]
  /\ tuns = {} /\ dnsJob = [s \in Sessions |-> "none"]
  /\ resolved = [s \in Sessions |-> {}] /\ sniff = [k \in Sniffers |-> NoSniff]
  /\ races = {}

(***************************************************************************)
(* The kernel (external)                                                   *)
(***************************************************************************)

\* RouteAdd: a second route with the same destination and priority is
\* refused ("exists"), which the code takes for success.
Plus(T, R) ==
  T \cup {r \in R : \A q \in T : q.dst # r.dst \/ q.prio # r.prio}

At(T, dst, dev) == {q \in T : q.dst = dst /\ q.dev = dev}
Preferred(R) == {q \in R : \A p \in R : q.prio <= p.prio}

\* RouteDel without a priority deletes one match, the preferred one.
Minus(T, dst, dev) == T \ Preferred(At(T, dst, dev))

\* A device that is closed takes no routes.
Live(dev) == dev \in {Phys} \cup tuns

Routes(dests, dev, prio) == {[dst |-> d, dev |-> dev, prio |-> prio] : d \in dests}

DefaultVia(T) == Preferred({q \in T : q.dst = Zero})

(***************************************************************************)
(* SetRoutes                                                               *)
(***************************************************************************)

\* SetRoutes has returned; "refused": before SplitInclude was completed.
SetDone(s) == set[s] \in {"up", "failed", "refused"}

\* The INTERFACE request: the client says which interface is the local one, for
\* the gateway only; vpnc.localInterface is not touched.
InterfaceRequest ==
  /\ ~initialized /\ initialized' = TRUE
  /\ UNCHANGED <<table, localInterface, iface, resolv, bak, set, reset, tuns, jobVars, races>>

\* CONNECT, RECONNECT or the monitor begin a session.  The previous one is over,
\* but its ResetRoutes may not have run and its tunnel may be open.
Begin(s) ==
  /\ set[s] = "new" /\ \A t \in Sessions : t < s => SetDone(t)
  /\ set' = [set EXCEPT ![s] = "tun"]
  /\ races' = races \cup {r \in {"early"} : \E t \in 1..(s-1) : reset[t].pc # "done"}
  /\ UNCHANGED <<table, initialized, iface, resolv, bak, reset, tuns, jobVars>>

\* GetLocalInterface takes the interface the default route points to, and
\* fails without one.
GetLocalInterface(s) ==
  /\ ~initialized /\ Begin(s)
  /\ \E q \in DefaultVia(table) : localInterface' = q.dev

\* After an INTERFACE request it is not called: the interface of an earlier
\* session stays, or none.
KeepLocalInterface(s) ==
  /\ initialized /\ Begin(s)
  /\ UNCHANGED localInterface

\* setupTun opens the device, always by the name "sslcon", and ConfigInterface
\* records it.
ConfigInterface(s) ==
  /\ set[s] = "tun" /\ tuns = {}
  /\ set' = [set EXCEPT ![s] = "server"]
  /\ tuns' = {s} /\ iface' = s
  /\ UNCHANGED <<table, netVars, resolv, bak, reset, jobVars, races>>

\* setupTun fails, and nobody will call ResetRoutes.  CreateTUN: the name is
\* still taken, or something else; ConfigInterface: LinkByName (which leaves
\* iface nil) or AddrAdd, and the device is closed again.
SetupTunFails(s) ==
  /\ set[s] = "tun" /\ (tuns # {} \/ RouteFails)
  /\ iface' \in {iface} \cup (IF tuns = {} THEN {0, s} ELSE {})
  /\ set' = [set EXCEPT ![s] = "refused"]
  /\ reset' = [reset EXCEPT ![s] = [pc |-> "done", dev |-> 0]]
  /\ UNCHANGED <<table, netVars, resolv, bak, tuns, jobVars, races>>

\* SetRoutes panics on a nil localInterface, in a handler of the RPC server,
\* which recovers (rpc.go:102-106): the session stays as it is.
SetRoutesPanics(s) ==
  /\ set[s] = "server" /\ localInterface = 0
  /\ set' = [set EXCEPT ![s] = "panicked"]
  /\ UNCHANGED <<table, netVars, iface, resolv, bak, reset, tuns, jobVars, races>>

\* One stage of SetRoutes: a loop of RouteAdd over dests; an error ends it.
AddStage(s, here, dests, dev, prio, next) ==
  /\ set[s] = here
  /\ \E done \in SUBSET dests :
       /\ done # dests => RouteFails \/ ~Live(dev)
       /\ done # {} => Live(dev)
       /\ table' = Plus(table, Routes(done, dev, prio))
       /\ set' = [set EXCEPT ![s] = IF done = dests THEN next
                                      ELSE IF here = "server" THEN "refused"
                                      ELSE "failed"]
  /\ UNCHANGED <<netVars, iface, resolv, bak, reset, tuns, jobVars, races>>

AddServer(s) ==
  /\ localInterface # 0
  /\ AddStage(s, "server", {Server}, localInterface, 0,
              IF Global THEN "delDefault" ELSE "include")

\* delAllRoute on the default routes of the local interface.
DelDefault(s) ==
  /\ set[s] = "delDefault"
  /\ table' = table \ At(table, Zero, localInterface)
  /\ set' = [set EXCEPT ![s] = "addDefault"]
  /\ UNCHANGED <<netVars, iface, resolv, bak, reset, tuns, jobVars, races>>

\* RouteAdd of a default route whose error is not looked at.
AddDefault(dev, prio) ==
  \/ /\ Live(dev) /\ table' = Plus(table, Routes({Zero}, dev, prio))
     /\ UNCHANGED races
  \/ /\ RouteFails \/ ~Live(dev)
     /\ races' = races \cup {"addFailed"} /\ UNCHANGED table

\* Mutant of LowerDefault: the default route gets its old priority.
KeepDefault(s) ==
  /\ set[s] = "addDefault"
  /\ AddDefault(localInterface, 0)
  /\ set' = [set EXCEPT ![s] = "include"]
  /\ UNCHANGED <<netVars, iface, resolv, bak, reset, tuns, jobVars>>

\* The default route comes back behind the tunnel's.
LowerDefault(s) ==
  /\ set[s] = "addDefault"
  /\ AddDefault(localInterface, 10)
  /\ set' = [set EXCEPT ![s] = "include"]
  /\ UNCHANGED <<netVars, iface, resolv, bak, reset, tuns, jobVars>>

AddInclude(s) == AddStage(s, "include", Includes, iface, 6, "exclude")

AddExclude(s) == AddStage(s, "exclude", Exclude, localInterface, 5, "dns")

\* setDNS starts a goroutine; SetRoutes returns.
SetDNS(s) ==
  /\ set[s] = "dns"
  /\ set' = [set EXCEPT ![s] = "up"]
  /\ dnsJob' = [dnsJob EXCEPT ![s] = "copy"]
  /\ UNCHANGED <<table, netVars, iface, resolv, bak, reset, tuns, resolved,
                 sniff, races>>

\* Has the session's resolv.conf been restored already?
Restored(s) == reset[s].pc = "done"

\* The goroutine copies resolv.conf away, sleeps two seconds and writes it.
DnsCopy(s) ==
  /\ dnsJob[s] = "copy"
  /\ bak' = resolv
  /\ dnsJob' = [dnsJob EXCEPT ![s] = "write"]
  /\ races' = races \cup {r \in {"lateDns"} : Restored(s)}
  /\ UNCHANGED <<table, netVars, iface, resolv, set, reset, tuns, resolved, sniff>>

\* Mutant of DnsWrite: the copy is made again after the sleep.
DnsWriteCopies(s) ==
  /\ dnsJob[s] = "write"
  /\ resolv' = s /\ bak' = s
  /\ dnsJob' = [dnsJob EXCEPT ![s] = "done"]
  /\ races' = races \cup {r \in {"lateDns"} : Restored(s)}
  /\ UNCHANGED <<table, netVars, iface, set, reset, tuns, resolved, sniff>>

DnsWrite(s) ==
  /\ dnsJob[s] = "write"
  /\ resolv' = s
  /\ dnsJob' = [dnsJob EXCEPT ![s] = "done"]
  /\ races' = races \cup {r \in {"lateDns"} : Restored(s)}
  /\ UNCHANGED <<table, netVars, iface, bak, set, reset, tuns, resolved, sniff>>

(***************************************************************************)
(* dynamicSplitRoutes, for names of DynamicSplitExcludeDomains             *)
(***************************************************************************)

\* DynamicSplitExcludeResolved has no entry for the name.
SniffLoad(k, s, ips) ==
  /\ sniff[k].pc = "none" /\ s \in tuns /\ resolved[s] = {}
  /\ sniff' = [sniff EXCEPT ![k] = [pc |-> "store", sess |-> s, ips |-> ips]]
  /\ UNCHANGED <<table, netVars, iface, resolv, bak, set, reset, tuns, dnsJob,
                 resolved, races>>

\* Has ResetRoutes read DynamicSplitExcludeResolved already?
Ranged(s) == reset[s].pc \in {"dns", "done"}

SniffStore(k) ==
  LET s == sniff[k].sess IN
  /\ sniff[k].pc = "store"
  /\ resolved' = [resolved EXCEPT ![s] = sniff[k].ips]
  /\ sniff' = [sniff EXCEPT ![k].pc = "add"]
  /\ races' = races \cup {r \in {"overwritten"} : resolved[s] \notin {{}, sniff[k].ips}}
  /\ UNCHANGED <<table, netVars, iface, resolv, bak, set, reset, tuns, dnsJob>>

\* DynamicAddExcludeRoutes: through the interface that is the local one now.
SniffAdd(k) ==
  LET s == sniff[k].sess IN
  /\ sniff[k].pc = "add" /\ localInterface # 0
  /\ table' = IF Live(localInterface)
                THEN Plus(table, Routes(sniff[k].ips, localInterface, 5)) ELSE table
  /\ sniff' = [sniff EXCEPT ![k] = NoSniff]
  /\ races' = races \cup {r \in {"lateSniff"} : Ranged(s)}
  /\ UNCHANGED <<netVars, iface, resolv, bak, set, reset, tuns, dnsJob, resolved>>

(***************************************************************************)
(* ResetRoutes                                                             *)
(***************************************************************************)

\* Mutant of ResetBegin: the default route is left as SetRoutes made it.
ResetBeginKeeps(s) ==
  /\ set[s] \notin {"new", "tun", "panicked"} /\ reset[s].pc = "none"
  /\ localInterface # 0
  /\ reset' = [reset EXCEPT ![s] = [pc |-> "server", dev |-> localInterface]]
  /\ races' = races \cup {r \in {"overlap"} : ~SetDone(s)}
  /\ UNCHANGED <<table, netVars, iface, resolv, bak, set, tuns, jobVars>>

\* SplitInclude holds 0.0.0.0/0 once SetRoutes has put it there.
ResetBegin(s) ==
  /\ set[s] \notin {"new", "tun", "panicked"} /\ reset[s].pc = "none"
  /\ localInterface # 0
  /\ reset' = [reset EXCEPT ![s] =
                 [pc |-> IF Global /\ set[s] \notin {"server", "refused"}
                           THEN "delDefault" ELSE "server",
                  dev |-> localInterface]]
  /\ races' = races \cup {r \in {"overlap"} : ~SetDone(s)}
  /\ UNCHANGED <<table, netVars, iface, resolv, bak, set, tuns, jobVars>>

ResetDelDefault(s) ==
  /\ reset[s].pc = "delDefault"
  /\ table' = Minus(table, Zero, reset[s].dev)
  /\ reset' = [reset EXCEPT ![s].pc = "addDefault"]
  /\ UNCHANGED <<netVars, iface, resolv, bak, set, tuns, jobVars, races>>

\* Mutant of ResetAddDefault: the default route is not put back.
ResetDropsDefault(s) ==
  /\ reset[s].pc = "addDefault"
  /\ reset' = [reset EXCEPT ![s].pc = "server"]
  /\ UNCHANGED <<table, netVars, iface, resolv, bak, set, tuns, jobVars, races>>

ResetAddDefault(s) ==
  /\ reset[s].pc = "addDefault"
  /\ AddDefault(reset[s].dev, 0)
  /\ reset' = [reset EXCEPT ![s].pc = "server"]
  /\ UNCHANGED <<netVars, iface, resolv, bak, set, tuns, jobVars>>

\* RouteDel of each destination.
WithoutAll(T, dests, dev) ==
  T \ UNION {Preferred(At(T, d, dev)) : d \in dests}

\* The server's route, then the excluded ones.
ResetStatic(s) ==
  /\ reset[s].pc = "server"
  /\ table' = WithoutAll(Minus(table, Server, reset[s].dev), Exclude, reset[s].dev)
  /\ reset' = [reset EXCEPT ![s].pc = "dynamic"]
  /\ UNCHANGED <<netVars, iface, resolv, bak, set, tuns, jobVars, races>>

\* Mutant of ResetDynamic: the dynamic routes are forgotten.
ResetNoDynamic(s) ==
  /\ reset[s].pc = "dynamic"
  /\ reset' = [reset EXCEPT ![s].pc = "dns"]
  /\ UNCHANGED <<table, netVars, iface, resolv, bak, set, tuns, jobVars, races>>

\* DynamicSplitExcludeResolved.Range.
ResetDynamic(s) ==
  /\ reset[s].pc = "dynamic"
  /\ table' = WithoutAll(table, resolved[s], reset[s].dev)
  /\ reset' = [reset EXCEPT ![s].pc = "dns"]
  /\ UNCHANGED <<netVars, iface, resolv, bak, set, tuns, jobVars, races>>

\* restoreDNS.
RestoreDNS(s) ==
  /\ reset[s].pc = "dns"
  /\ resolv' = bak
  /\ reset' = [reset EXCEPT ![s].pc = "done"]
  /\ UNCHANGED <<table, netVars, iface, bak, set, tuns, jobVars, races>>

(***************************************************************************)
(* The tun device, a crash                                                 *)
(***************************************************************************)

\* The device is closed, by either of its goroutines: the kernel drops the
\* routes through it (external).
TunGone(s) ==
  /\ s \in tuns
  /\ tuns' = tuns \ {s}
  /\ table' = {q \in table : q.dev # s}
  /\ UNCHANGED <<netVars, iface, resolv, bak, set, reset, jobVars, races>>

\* Why the agent may die: it crashes (once), or ResetRoutes, SetRoutes or
\* DynamicAddExcludeRoutes panics on a nil localInterface in a goroutine of its
\* own, where nobody recovers.
Dies ==
  \/ Crashes /\ "crash" \notin races /\ \E s \in Sessions : set[s] # "new"
  \/ localInterface = 0 /\ \E s \in Sessions : set[s] \in {"server", "panicked"}

\* The agent dies and is started again: what it had in memory and its devices
\* are gone; routes through Phys and resolv.conf stay as they are.
Crash ==
  /\ Dies
  /\ table' = {q \in table : q.dev = Phys}
  /\ localInterface' = 0 /\ initialized' = FALSE /\ iface' = 0 /\ tuns' = {}
  /\ set' = [s \in Sessions |-> IF set[s] = "new" THEN "new" ELSE "failed"]
  /\ reset' = [s \in Sessions |-> IF set[s] = "new" THEN NoReset
                                 ELSE [pc |-> "done", dev |-> 0]]
  /\ dnsJob' = [s \in Sessions |-> "none"]
  /\ resolved' = [s \in Sessions |-> {}]
  /\ sniff' = [k \in Sniffers |-> NoSniff]
  /\ races' = races \cup {"crash"}
  /\ UNCHANGED <<resolv, bak>>

Next ==
  \/ \E s \in Sessions :
       \/ GetLocalInterface(s) \/ KeepLocalInterface(s)
       \/ ConfigInterface(s) \/ SetupTunFails(s)
       \/ SetRoutesPanics(s) \/ AddServer(s) \/ DelDefault(s) \/ LowerDefault(s)
       \/ AddInclude(s) \/ AddExclude(s) \/ SetDNS(s)
       \/ DnsCopy(s) \/ DnsWrite(s)
       \/ ResetBegin(s) \/ ResetDelDefault(s) \/ ResetAddDefault(s)
       \/ ResetStatic(s) \/ ResetDynamic(s) \/ RestoreDNS(s) \/ TunGone(s)
  \/ \E k \in Sniffers :
       \/ \E s \in Sessions, ips \in Replies : SniffLoad(k, s, ips)
       \/ SniffStore(k) \/ SniffAdd(k)
  \/ InterfaceRequest \/ Crash

Spec == Init /\ [][Next]_vars

(***************************************************************************)
(* Properties                                                              *)
(***************************************************************************)

\* Every session that was begun is over and nothing of it is under way.
Settled ==
  /\ tuns = {}
  /\ \A s \in Sessions : /\ set[s] = "new" \/ (SetDone(s) /\ reset[s].pc = "done")
                         /\ dnsJob[s] \in {"none", "done"}
  /\ \A k \in Sniffers : sniff[k].pc = "none"

Spared(rs) == races \cap rs = {}

\* vpnc_linux.go:192-224: when all is over resolv.conf and its copy hold what
\* they held before, unless setDNS's goroutine came after restoreDNS, sessions
\* ran into each other, or the agent crashed (the comment at 220).
ResolvRestored ==
  Settled /\ Spared({"overlap", "early", "lateDns", "crash"}) => resolv = 0 /\ bak = 0

\* When all is over nothing of ours is left in the kernel, whichever of the other
\* calls failed, and the host has its own routes; only, after a session in global
\* mode ResetRoutes has put one default route of priority 0 in place of all of
\* them (vpnc_linux.go:59, 106).  Excluded are the orders of which TLC shows that
\* something is left: ResetRoutes overlaps with SetRoutes or comes after the next
\* session has begun, a sniffer adds routes after Range (lateSniff) or overwrites
\* the answer of another (overwritten), the RouteAdd of a default route fails, or
\* the agent dies.
NoLeftovers ==
  Settled /\ Spared({"overlap", "early", "lateSniff", "overwritten", "addFailed", "crash"})
    => \/ table = Original
       \/ Global /\ table = {[dst |-> Zero, dev |-> Phys, prio |-> 0]}

\* The host keeps a default route through the physical interface, except
\* between RouteDel and RouteAdd, unless one of the RouteAdd whose error is not
\* looked at has failed, ResetRoutes has overlapped with SetRoutes or come after
\* the beginning of the next session, or the agent has died.
DefaultRouteKept ==
  Spared({"overlap", "early", "addFailed", "crash"}) =>
    \/ At(table, Zero, Phys) # {}
    \/ \E s \in Sessions : set[s] = "addDefault" \/ reset[s].pc = "addDefault"

\* GetLocalInterface never takes a tunnel for the local interface, although a
\* tunnel that is reset but still open has a default route: ResetRoutes has put
\* the physical one before it again.  Only a session begun before the previous
\* one is reset, an overlap or a RouteAdd that failed can make it.
LocalIsPhysical ==
  Spared({"early", "overlap", "addFailed"}) => localInterface \in {0, Phys}

\* While a session is up in global mode, traffic goes through its tunnel and
\* the server is reached through the physical interface, whatever the state
\* earlier sessions and a crash left the routes in.
TrafficTunnelled ==
  Spared({"overlap", "early"}) =>
    \A s \in tuns :
      set[s] = "up" /\ reset[s].pc = "none" =>
        /\ Global => \A q \in DefaultVia(table) : q.dev = s
        /\ At(table, Server, Phys) # {}

=============================================================================
