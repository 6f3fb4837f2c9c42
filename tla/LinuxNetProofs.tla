---------------------------- MODULE LinuxNetProofs ----------------------------
(***************************************************************************)
(* Proofs about LinuxNet: for any number of sessions and sniffers, any     *)
(* split routes, answers and default routes of the host, whichever         *)
(* RouteAdd fails and whenever the agent dies.  Every property speaks of   *)
(* behaviours without certain races, and so do the parts of the inductive  *)
(* invariant; "early" and "overlap" are excluded by all of them.           *)
(***************************************************************************)
EXTENDS LinuxNet, TLAPS

Alone == Spared({"overlap", "early"})

(***************************************************************************)
(* The inductive invariant.                                                *)
(***************************************************************************)

Answers    == UNION Replies
SetPlaces  == {"new", "tun", "server", "delDefault", "addDefault", "include", "exclude",
               "dns", "up", "failed", "refused", "panicked"}
ResetSteps == {"none", "delDefault", "addDefault", "server", "dynamic", "dns", "done"}

Types ==
  /\ table \subseteq [dst : Dests, dev : Devices, prio : {0, 5, 6, 10} \cup DefaultPrios]
  /\ localInterface \in {0} \cup Devices /\ iface \in {0} \cup Sessions
  /\ set \in [Sessions -> SetPlaces]
  /\ reset \in [Sessions -> [pc : ResetSteps, dev : {0} \cup Devices]]
  /\ tuns \subseteq Sessions
  /\ dnsJob \in [Sessions -> {"none", "copy", "write", "done"}]
  /\ resolved \in [Sessions -> SUBSET Answers]
  /\ sniff \in [Sniffers -> [pc : {"none", "store", "add"}, sess : {0} \cup Sessions,
                             ips : SUBSET Answers]]

\* Routes go through the physical interface or the tunnel that is open; a session
\* has a tunnel, goroutines and sniffers only once it has got that far.
Basics ==
  /\ \A q \in table : q.dev = Phys \/ q.dev \in tuns
  /\ \A s, t \in tuns : s = t
  /\ \A s \in Sessions :
       /\ set[s] \in {"new", "tun"} =>
            s \notin tuns /\ reset[s] = NoReset /\ localInterface # s
       /\ dnsJob[s] # "none" => set[s] = "up"
       /\ set[s] \in {"delDefault", "addDefault"} => Global
       /\ reset[s].pc \in {"delDefault", "addDefault"} =>
            Global /\ set[s] \notin {"new", "tun", "server", "refused", "panicked"}
  /\ \A k \in Sniffers :
       sniff[k].pc # "none" => sniff[k].sess \in Sessions
                                 /\ set[sniff[k].sess] \notin {"new", "tun"}

\* Sessions that have configured their tunnel and are not reset; those of them
\* whose server has a route; those whose default route is not restored yet.
Active(s)   == set[s] \notin {"new", "tun"} /\ reset[s].pc # "done"
Past(s)     == Active(s) /\ set[s] \notin {"server", "refused", "panicked"}
Lowering(s) == Past(s) /\ reset[s].pc \in {"none", "delDefault", "addDefault"}

\* One session at a time: the earlier ones are over, and the local interface is
\* the physical one from the moment the server's route is in place.
Order ==
  Alone =>
    /\ \A s, t \in Sessions :
         t < s /\ set[s] # "new" => SetDone(t) /\ reset[t].pc = "done"
    /\ \A s \in Sessions :
         /\ reset[s].pc # "none" => SetDone(s)
         /\ Active(s) => tuns \subseteq {s} /\ iface = s
         /\ set[s] \in {"tun", "server"} => localInterface # s
         /\ Past(s) => localInterface = Phys
         /\ Past(s) /\ reset[s].pc # "none" => reset[s].dev = Phys

DefaultRoute(dev, prio) == [dst |-> Zero, dev |-> dev, prio |-> prio]
ServerRoute == [dst |-> Server, dev |-> Phys, prio |-> 0]

\* Default routes: what each session has made of them, and that a tunnel's comes
\* before the physical one while the session is up.
Defaults ==
  Alone =>
    /\ \A q \in table :
         q.dst = Zero => IF q.dev = Phys THEN q.prio \in {0, 10} \cup DefaultPrios
                                       ELSE q.prio = 6 /\ Global
    /\ \A s \in Sessions :
         Global /\ Lowering(s) =>
           /\ set[s] # "delDefault" =>
                \A q \in table : q.dst = Zero /\ q.dev = Phys => q.prio = 10
           /\ set[s] = "addDefault" \/ reset[s].pc = "addDefault" => At(table, Zero, Phys) = {}
           /\ set[s] \in {"exclude", "dns", "up"} /\ reset[s].pc = "none" /\ s \in tuns =>
                DefaultRoute(s, 6) \in table

\* The server's route stays until ResetRoutes deletes it.
ServerKept ==
  Alone =>
    /\ \A q \in table : q.dst = Server /\ q.prio = 0 => q.dev = Phys
    /\ \A s \in Sessions :
         Past(s) /\ reset[s].pc \notin {"dynamic", "dns"} => ServerRoute \in table

\* If no RouteAdd of a default route failed, the default route of a tunnel that is
\* still open after the reset comes behind the physical one.
Physical ==
  Spared({"early", "overlap", "addFailed"}) =>
    /\ localInterface \in {0, Phys}
    /\ \A s \in Sessions : Active(s) /\ reset[s].pc # "none" => reset[s].dev = Phys
    /\ (\A s \in Sessions : ~Lowering(s)) /\ (\E q \in table : q.dst = Zero /\ q.dev # Phys)
         => DefaultRoute(Phys, 0) \in table

\* Without a crash there is a default route, and the host's own are there or
\* that of ResetRoutes is but for the session that has lowered them.
Kept ==
  Spared({"overlap", "early", "addFailed", "crash"}) =>
    /\ DefaultRouteKept
    /\ \/ At(table, Zero, Phys) = Original
       \/ Global /\ At(table, Zero, Phys) = {DefaultRoute(Phys, 0)}
       \/ \E s \in Sessions : Global /\ Lowering(s) /\ set[s] # "delDefault"

\* resolv.conf is the host's or that of a session whose restoreDNS is to come.
Resolv ==
  Spared({"overlap", "early", "lateDns", "crash"}) =>
    /\ bak = 0
    /\ \/ resolv = 0
       \/ resolv \in Sessions /\ reset[resolv].pc # "done" /\ dnsJob[resolv] = "done"

\* The sniffers' routes are in DynamicSplitExcludeResolved when they are added,
\* and every route but the default ones belongs to a tunnel that is open
\* or to a step of ResetRoutes that is to come.
Leftovers ==
  Spared({"overlap", "early", "lateSniff", "overwritten", "addFailed", "crash"}) =>
    /\ \A k \in Sniffers : sniff[k].pc = "add" => sniff[k].ips \subseteq resolved[sniff[k].sess]
    /\ \A q \in table :
         \/ q.dst = Zero /\ q.dev = Phys
         \/ q.dev \in tuns
         \/ /\ q = ServerRoute \/ (q.dev = Phys /\ q.prio = 5 /\ q.dst \in Exclude)
            /\ \E s \in Sessions : Active(s) /\ reset[s].pc \notin {"dynamic", "dns"}
         \/ /\ q.dev = Phys /\ q.prio = 5
            /\ \E s \in Sessions : Active(s) /\ ~Ranged(s) /\ q.dst \in resolved[s]

Inv == Types /\ Basics /\ Order /\ Defaults /\ ServerKept /\ Physical /\ Kept /\ Resolv
         /\ Leftovers

(***************************************************************************)
(* Lemmas about the operators of the model.                                *)
(***************************************************************************)

\* RouteAdd keeps what there is and adds what does not clash with it.
LEMMA PlusAdds ==
  ASSUME NEW T, NEW R
  PROVE  /\ T \subseteq Plus(T, R)
         /\ \A r \in Plus(T, R) : r \in T \/ r \in R
         /\ \A r \in R : r \in Plus(T, R) \/ \E q \in T : q.dst = r.dst /\ q.prio = r.prio
  BY DEF Plus

\* RouteDel takes the preferred route of a destination and an interface.
LEMMA WithoutTakes ==
  ASSUME NEW T, NEW D, NEW dev
  PROVE  /\ WithoutAll(T, D, dev) \subseteq T
         /\ \A q \in T : q.dst \notin D \/ q.dev # dev => q \in WithoutAll(T, D, dev)
         /\ \A q \in T :
              /\ q.dst \in D /\ q.dev = dev
              /\ \A p \in T : p.dst = q.dst /\ p.dev = dev => q.prio <= p.prio
              => q \notin WithoutAll(T, D, dev)
  BY DEF WithoutAll, Preferred, At

LEMMA MinusTakes ==
  ASSUME NEW T, NEW dst, NEW dev
  PROVE  /\ Minus(T, dst, dev) \subseteq T
         /\ \A q \in T : q.dst # dst \/ q.dev # dev => q \in Minus(T, dst, dev)
         /\ \A q \in T :
              /\ q.dst = dst /\ q.dev = dev
              /\ \A p \in T : p.dst = dst /\ p.dev = dev => q.prio <= p.prio
              => q \notin Minus(T, dst, dev)
  BY DEF Minus, Preferred, At

\* A RouteAdd of a default route that is not among the failed ones.
LEMMA DefaultAdded ==
  ASSUME NEW dev, NEW prio, AddDefault(dev, prio), "addFailed" \notin races'
  PROVE  races' = races /\ table' = Plus(table, {DefaultRoute(dev, prio)})
  <1>1. Routes({Zero}, dev, prio) = {DefaultRoute(dev, prio)}
    BY DEF Routes, DefaultRoute
  <1> QED
    BY <1>1 DEF AddDefault

\* While a session is neither new nor reset, every other one is.
LEMMA OneAtATime ==
  ASSUME Inv, Alone, NEW s \in Sessions, NEW t \in Sessions, s # t,
         set[s] # "new", reset[s].pc # "done"
  PROVE  /\ set[t] = "new" \/ (SetDone(t) /\ reset[t].pc = "done")
         /\ ~Active(t)
  <1>1. s \in Nat /\ t \in Nat
    BY SessionsAssumption DEF Sessions
  <1>2. t < s \/ s < t
    BY <1>1
  <1> QED
    BY <1>2 DEF Inv, Order, Active

\* Init establishes the invariant.
LEMMA InitInv == Init => Inv
  <1> SUFFICES ASSUME Init PROVE Inv
    OBVIOUS
  <1> USE SessionsAssumption, PhysAssumption, DefaultsAssumption DEF Init, Original, NoReset, NoSniff
  <1>1. Types
    BY DEF Types, SetPlaces, ResetSteps, Dests, Devices
  <1>2. Basics
    BY DEF Basics, Sessions
  <1>3. Order /\ Resolv
    BY DEF Order, Resolv, Active, Past
  <1>4. Defaults /\ ServerKept /\ Physical
    BY ZeroAssumption DEF Defaults, ServerKept, Physical, Active, Past, Lowering
  <1>5. Kept
    <2>1. At(table, Zero, Phys) = Original
      BY DEF At
    <2>2. PICK p \in DefaultPrios : DefaultRoute(Phys, p) \in Original
      BY DEF DefaultRoute
    <2> HIDE DEF Init, Original
    <2> QED
      BY <2>1, <2>2 DEF Kept, DefaultRouteKept
  <1>6. Leftovers
    BY DEF Leftovers, DefaultRoute
  <1> QED
    BY <1>1, <1>2, <1>3, <1>4, <1>5, <1>6 DEF Inv

\* Every step preserves it.
LEMMA NextInv == Inv /\ [Next]_vars => Inv'
  <1> SUFFICES ASSUME Inv, [Next]_vars PROVE Inv'
    OBVIOUS
  <1> USE SessionsAssumption, PhysAssumption, ZeroAssumption, DefaultsAssumption
      DEF Inv, Types, Basics, NoReset, NoSniff, SetPlaces, ResetSteps, Dests, Devices, Answers,
          jobVars, netVars
  <1>1. ASSUME NEW s \in Sessions, GetLocalInterface(s) \/ KeepLocalInterface(s) PROVE Inv'
    <2>0. /\ Begin(s)
          /\ \/ localInterface' = localInterface
             \/ \E q \in DefaultVia(table) : localInterface' = q.dev
      BY <1>1 DEF GetLocalInterface, KeepLocalInterface
    <2>1. Types'
      BY <2>0 DEF Begin, DefaultVia, Preferred
    <2>2. Basics'
      BY <2>0 DEF Begin, DefaultVia, Preferred
    <2>3. Order'
      <3> SUFFICES ASSUME Alone' PROVE Order'
        BY DEF Order
      <3>1. Alone /\ \A t \in Sessions : t < s => SetDone(t) /\ reset[t].pc = "done"
        <4>1. races \subseteq races' /\ "early" \notin races'
          BY <2>0 DEF Begin, Spared, Alone
        <4>2. \A t \in Sessions : t < s => t \in 1..(s - 1)
          BY DEF Sessions
        <4> QED
          BY <2>0, <4>1, <4>2 DEF Begin, Spared, Alone
      <3>2. \A t \in Sessions : set[t] = "new" \/ (SetDone(t) /\ reset[t].pc = "done")
        <4> TAKE t \in Sessions
        <4>1. t < s \/ t = s \/ s < t
          BY DEF Sessions
        <4> QED
          BY <2>0, <3>1, <4>1 DEF Begin, Order, SetDone
      <3>3. localInterface' # s
        BY <2>0 DEF Begin, DefaultVia, Preferred
      <3>4. \A t \in Sessions : ~Active(t)'
        BY <2>0, <3>2 DEF Begin, Active, SetDone
      <3>5. \A t, u \in Sessions : t < u /\ set'[u] # "new" => SetDone(t)' /\ reset'[t].pc = "done"
        <4> SUFFICES ASSUME NEW t \in Sessions, NEW u \in Sessions, t < u, set'[u] # "new"
                     PROVE  SetDone(t)' /\ reset'[t].pc = "done"
          OBVIOUS
        <4>1. t # s
          BY <2>0, <3>1 DEF Begin, Order, SetDone, Sessions
        <4> QED
          BY <2>0, <3>1, <4>1 DEF Begin, Order, SetDone
      <3>6. \A t \in Sessions : reset'[t].pc # "none" => SetDone(t)'
        BY <2>0, <3>2 DEF Begin, SetDone
      <3>7. \A t \in Sessions : set'[t] \in {"tun", "server"} => t = s
        BY <2>0, <3>2 DEF Begin, SetDone
      <3> QED
        BY <3>3, <3>4, <3>5, <3>6, <3>7 DEF Order, Past
    <2>4. Defaults'
      BY <2>0 DEF Begin, DefaultVia, Preferred, Defaults, Active, Past,
         Lowering, SetDone, Spared, Alone, Ranged, Order, DefaultRoute, At
    <2>5. ServerKept'
      BY <2>0 DEF Begin, DefaultVia, Preferred, ServerKept, Active, Past,
         Lowering, SetDone, Spared, Alone, Ranged, Order, ServerRoute
    <2>6. Physical'
      <3> SUFFICES ASSUME Spared({"early", "overlap", "addFailed"})' PROVE Physical'
        BY DEF Physical
      <3> Alone'
        BY DEF Alone, Spared
      <3>1. Alone /\ \A t \in Sessions : t < s => SetDone(t) /\ reset[t].pc = "done"
        <4>1. races \subseteq races' /\ "early" \notin races'
          BY <2>0 DEF Begin, Spared, Alone
        <4>2. \A t \in Sessions : t < s => t \in 1..(s - 1)
          BY DEF Sessions
        <4> QED
          BY <2>0, <4>1, <4>2 DEF Begin, Spared, Alone
      <3>2. \A t \in Sessions : set[t] = "new" \/ (SetDone(t) /\ reset[t].pc = "done")
        <4> TAKE t \in Sessions
        <4>1. t < s \/ t = s \/ s < t
          BY DEF Sessions
        <4> QED
          BY <2>0, <3>1, <4>1 DEF Begin, Order, SetDone
      <3>3. Spared({"early", "overlap", "addFailed"})
        BY <2>0 DEF Begin, Spared
      <3>4. \A t \in Sessions : ~Active(t)' /\ ~Lowering(t)
        BY <2>0, <3>2 DEF Begin, Active, Past, Lowering, SetDone
      <3>5. localInterface' \in {0, Phys}
        <4> SUFFICES ASSUME NEW q \in DefaultVia(table), localInterface' = q.dev
                     PROVE  q.dev = Phys
          BY <2>0, <3>3 DEF Physical
        <4>2. q \in table /\ q.dst = Zero /\ \A p \in table : p.dst = Zero => q.prio <= p.prio
          BY DEF DefaultVia, Preferred
        <4>3. ASSUME q.dev # Phys PROVE FALSE
          <5>1. DefaultRoute(Phys, 0) \in table
            BY <3>3, <3>4, <4>2, <4>3 DEF Physical
          <5>2. q.prio = 6
            BY <3>1, <4>2, <4>3 DEF Defaults
          <5> QED
            BY <4>2, <5>1, <5>2 DEF DefaultRoute
        <4> QED
          BY <4>3
      <3> QED
        BY <2>0, <3>3, <3>4, <3>5 DEF Begin, Physical, Lowering, Past
    <2>7. Kept'
      BY <2>0 DEF Begin, DefaultVia, Preferred, Kept, Active, Past, Lowering,
         SetDone, Spared, Alone, Ranged, Order, Defaults, DefaultRoute, DefaultRouteKept, At
    <2>8. Resolv'
      BY <2>0 DEF Begin, DefaultVia, Preferred, Resolv, Active, Past, Lowering,
         SetDone, Spared, Alone, Ranged, Order
    <2>9. Leftovers'
      <3> SUFFICES ASSUME Spared({"overlap", "early", "lateSniff", "overwritten", "addFailed", "crash"})'
                   PROVE  Leftovers'
        BY DEF Leftovers
      <3>1. Spared({"overlap", "early", "lateSniff", "overwritten", "addFailed", "crash"})
        BY <2>0 DEF Begin, Spared
      <3>2. UNCHANGED <<table, tuns, reset, resolved, sniff>>
        BY <2>0 DEF Begin, jobVars
      <3>3. \A t \in Sessions : (Active(t) => Active(t)') /\ (Lowering(t) => Lowering(t)')
        BY <2>0 DEF Begin, Active, Past, Lowering
      <3> HIDE DEF Types, Basics
      <3> QED
        BY <3>1, <3>2, <3>3 DEF Leftovers, Ranged
    <2> QED
      BY <2>1, <2>2, <2>3, <2>4, <2>5, <2>6, <2>7, <2>8, <2>9
  <1>2. ASSUME NEW s \in Sessions, ConfigInterface(s) PROVE Inv'
    <2>1. Types'
      BY <1>2 DEF ConfigInterface
    <2>2. Basics'
      BY <1>2 DEF ConfigInterface
    <2>3. Order'
      <3> SUFFICES ASSUME Alone' PROVE Order'
        BY DEF Order
      <3>1. Alone
        BY <1>2 DEF ConfigInterface, Alone, Spared
      <3>2. \A t \in Sessions \ {s} :
              ~Active(t) /\ (set[t] = "new" \/ (SetDone(t) /\ reset[t].pc = "done"))
        BY <1>2, <3>1, OneAtATime DEF ConfigInterface
      <3> QED
        BY <1>2, <3>1, <3>2 DEF ConfigInterface, Order, Active, Past, SetDone
    <2>4. Defaults'
      BY <1>2 DEF ConfigInterface, Defaults, Active, Past, Lowering, SetDone, Spared, Alone,
         Ranged, Order, DefaultRoute, At
    <2>5. ServerKept'
      BY <1>2 DEF ConfigInterface, ServerKept, Active, Past, Lowering, SetDone, Spared,
         Alone, Ranged, Order, ServerRoute
    <2>6. Physical'
      BY <1>2 DEF ConfigInterface, Physical, Active, Past, Lowering, SetDone, Spared, Alone,
         Ranged, Order, Defaults, DefaultRoute
    <2>7. Kept'
      BY <1>2 DEF ConfigInterface, Kept, Active, Past, Lowering, SetDone, Spared, Alone,
         Ranged, Order, Defaults, DefaultRoute, DefaultRouteKept, At
    <2>8. Resolv'
      BY <1>2 DEF ConfigInterface, Resolv, Active, Past, Lowering, SetDone, Spared, Alone,
         Ranged, Order
    <2>9. Leftovers'
      BY <1>2 DEF ConfigInterface, Leftovers, Active, Past, Lowering, SetDone, Spared,
         Alone, Ranged, Order, Defaults, ServerKept, Physical, DefaultRoute, ServerRoute
    <2> QED
      BY <2>1, <2>2, <2>3, <2>4, <2>5, <2>6, <2>7, <2>8, <2>9
  <1>3. ASSUME NEW s \in Sessions, SetupTunFails(s) PROVE Inv'
    <2>1. Types'
      BY <1>3 DEF SetupTunFails
    <2>2. Basics'
      BY <1>3 DEF SetupTunFails
    <2>3. Order'
      <3> SUFFICES ASSUME Alone' PROVE Order'
        BY DEF Order
      <3>1. Alone
        BY <1>3 DEF SetupTunFails, Alone, Spared
      <3>2. \A t \in Sessions \ {s} :
              ~Active(t) /\ (set[t] = "new" \/ (SetDone(t) /\ reset[t].pc = "done"))
        BY <1>3, <3>1, OneAtATime DEF SetupTunFails
      <3> QED
        BY <1>3, <3>1, <3>2 DEF SetupTunFails, Order, Active, Past, SetDone
    <2>4. Defaults'
      BY <1>3 DEF SetupTunFails, Defaults, Active, Past, Lowering, SetDone, Spared, Alone,
         Ranged, Order, DefaultRoute, At
    <2>5. ServerKept'
      BY <1>3 DEF SetupTunFails, ServerKept, Active, Past, Lowering, SetDone, Spared, Alone,
         Ranged, Order, ServerRoute
    <2>6. Physical'
      BY <1>3 DEF SetupTunFails, Physical, Active, Past, Lowering, SetDone, Spared, Alone,
         Ranged, Order, Defaults, DefaultRoute
    <2>7. Kept'
      BY <1>3 DEF SetupTunFails, Kept, Active, Past, Lowering, SetDone, Spared, Alone,
         Ranged, Order, Defaults, DefaultRoute, DefaultRouteKept, At
    <2>8. Resolv'
      BY <1>3 DEF SetupTunFails, Resolv, Active, Past, Lowering, SetDone, Spared, Alone,
         Ranged, Order
    <2>9. Leftovers'
      BY <1>3 DEF SetupTunFails, Leftovers, Active, Past, Lowering, SetDone, Spared, Alone,
         Ranged, Order, Defaults, ServerKept, Physical, DefaultRoute, ServerRoute
    <2> QED
      BY <2>1, <2>2, <2>3, <2>4, <2>5, <2>6, <2>7, <2>8, <2>9
  <1>4. ASSUME NEW s \in Sessions, AddServer(s) PROVE Inv'
    <2>1. Types'
      BY <1>4 DEF AddServer, AddStage, Plus, Routes, Live
    <2>2. Basics'
      BY <1>4 DEF AddServer, AddStage, Plus, Routes, Live
    <2>3. Order'
      <3> SUFFICES ASSUME Alone' PROVE Order'
        BY DEF Order
      <3>1. Alone
        BY <1>4 DEF AddServer, AddStage, Alone, Spared
      <3>2. \A t \in Sessions \ {s} :
              ~Active(t) /\ (set[t] = "new" \/ (SetDone(t) /\ reset[t].pc = "done"))
        BY <1>4, <3>1, OneAtATime DEF AddServer, AddStage, Order, SetDone
      <3>3. ASSUME set'[s] # "refused" PROVE localInterface = Phys
        <4>1. Live(localInterface)
          <5>1. PICK done \in SUBSET {Server} :
                  /\ done # {} => Live(localInterface)
                  /\ set' = [set EXCEPT ![s] = IF done = {Server}
                                                THEN IF Global THEN "delDefault" ELSE "include"
                                                ELSE IF "server" = "server" THEN "refused"
                                                ELSE "failed"]
            BY <1>4 DEF AddServer, AddStage
          <5>2. done # {Server} => set'[s] = "refused"
            BY <5>1
          <5> QED
            BY <3>3, <5>1, <5>2
        <4>2. tuns \subseteq {s} /\ localInterface # s
          BY <1>4, <3>1 DEF AddServer, AddStage, Order, Active, SetDone
        <4> QED
          BY <4>1, <4>2 DEF Live
      <3> QED
        BY <1>4, <3>1, <3>2, <3>3 DEF AddServer, AddStage, Order, Active, Past, SetDone
    <2>4. Defaults'
      BY <1>4 DEF AddServer, AddStage, Plus, Routes, Live, Defaults, Active, Past, Lowering,
         SetDone, Spared, Alone, Ranged, Order, DefaultRoute, At
    <2>5. ServerKept'
      <3> SUFFICES ASSUME Alone' PROVE ServerKept'
        BY DEF ServerKept
      <3>1. Alone
        BY <1>4 DEF AddServer, AddStage, Alone, Spared
      <3>2. tuns \subseteq {s} /\ localInterface # s
        BY <1>4, <3>1 DEF AddServer, AddStage, Order, Active, SetDone
      <3>3. PICK done \in SUBSET {Server} :
              /\ done # {} => Live(localInterface)
              /\ table' = Plus(table, Routes(done, localInterface, 0))
              /\ set' = [set EXCEPT ![s] = IF done = {Server}
                                            THEN IF Global THEN "delDefault" ELSE "include"
                                            ELSE "refused"]
              /\ reset' = reset
        BY <1>4 DEF AddServer, AddStage
      <3>4. done # {} => done = {Server} /\ localInterface = Phys
        BY <3>2, <3>3 DEF Live
      <3>5. \A q \in table' : q \in table \/ q = ServerRoute
        <4>1. done # {} => Routes(done, localInterface, 0) = {ServerRoute}
          BY <3>4 DEF Routes, ServerRoute
        <4>2. done = {} => Routes(done, localInterface, 0) = {}
          BY DEF Routes
        <4> QED
          BY <3>3, <4>1, <4>2, PlusAdds
      <3>6. \A q \in table' : q.dst = Server /\ q.prio = 0 => q.dev = Phys
        BY <3>1, <3>5 DEF ServerKept, ServerRoute
      <3>7. ASSUME set'[s] # "refused" PROVE ServerRoute \in table'
        <4>1. done = {Server} /\ localInterface = Phys
          <5>1. set'[s] = IF done = {Server} THEN IF Global THEN "delDefault" ELSE "include"
                          ELSE "refused"
            BY <3>3
          <5>2. done = {Server}
            BY <3>7, <5>1
          <5> QED
            BY <3>4, <5>2
        <4>2. table' = Plus(table, {ServerRoute})
          <5>1. Routes({Server}, Phys, 0) = {ServerRoute}
            BY DEF Routes, ServerRoute
          <5> QED
            BY <3>3, <4>1, <5>1
        <4>3. ServerRoute \in table' \/ \E q \in table : q.dst = Server /\ q.prio = 0
          BY <4>2, PlusAdds DEF ServerRoute
        <4>4. ASSUME NEW q \in table, q.dst = Server, q.prio = 0 PROVE q = ServerRoute
          BY <3>1, <4>4 DEF ServerKept, ServerRoute
        <4> QED
          BY <4>2, <4>3, <4>4, PlusAdds
      <3>8. table \subseteq table'
        BY <3>3, PlusAdds
      <3>9. \A t \in Sessions : Past(t)' => Past(t) \/ (t = s /\ set'[s] # "refused")
        BY <3>3 DEF Past, Active
      <3> HIDE DEF Types, Basics
      <3> QED
        BY <3>1, <3>3, <3>6, <3>7, <3>8, <3>9 DEF ServerKept
    <2>6. Physical'
      BY <1>4 DEF AddServer, AddStage, Plus, Routes, Live, Physical, Active, Past, Lowering,
         SetDone, Spared, Alone, Ranged, Order, Defaults, DefaultRoute
    <2>7. Kept'
      BY <1>4 DEF AddServer, AddStage, Plus, Routes, Live, Kept, Active, Past, Lowering,
         SetDone, Spared, Alone, Ranged, Order, Defaults, DefaultRoute, DefaultRouteKept, At
    <2>8. Resolv'
      BY <1>4 DEF AddServer, AddStage, Plus, Routes, Live, Resolv, Active, Past, Lowering,
         SetDone, Spared, Alone, Ranged, Order
    <2>9. Leftovers'
      BY <1>4 DEF AddServer, AddStage, Plus, Routes, Live, Leftovers, Active, Past,
         Lowering, SetDone, Spared, Alone, Ranged, Order, Defaults, ServerKept, Physical,
         DefaultRoute, ServerRoute
    <2> QED
      BY <2>1, <2>2, <2>3, <2>4, <2>5, <2>6, <2>7, <2>8, <2>9
  <1>5. ASSUME NEW s \in Sessions, DelDefault(s) PROVE Inv'
    <2>1. Types'
      BY <1>5 DEF DelDefault
    <2>2. Basics'
      BY <1>5 DEF DelDefault
    <2>3. Order'
      BY <1>5 DEF DelDefault, Order, Active, Past, Lowering, SetDone, Spared, Alone, Ranged
    <2>4. Defaults'
      BY <1>5 DEF DelDefault, Defaults, Active, Past, Lowering, SetDone, Spared, Alone,
         Ranged, Order, DefaultRoute, At
    <2>5. ServerKept'
      <3>1. table' \subseteq table /\ \A q \in table : q.dst # Zero => q \in table'
        BY <1>5 DEF DelDefault, At
      <3>2. ServerRoute.dst = Server /\ Server # Zero
        BY DEF ServerRoute
      <3>3. \A t \in Sessions : Past(t)' => Past(t)
        BY <1>5 DEF DelDefault, Past, Active
      <3> QED
        BY <1>5, <3>1, <3>2, <3>3 DEF DelDefault, ServerKept, Alone, Spared
    <2>6. Physical'
      BY <1>5 DEF DelDefault, Physical, Active, Past, Lowering, SetDone, Spared, Alone,
         Ranged, Order, Defaults, DefaultRoute
    <2>7. Kept'
      <3> SUFFICES ASSUME Spared({"overlap", "early", "addFailed", "crash"})' PROVE Kept'
        BY DEF Kept
      <3>1. Spared({"overlap", "early", "addFailed", "crash"}) /\ Alone
        BY <1>5 DEF DelDefault, Spared, Alone
      <3>2. reset[s].pc = "none" /\ Global
        BY <1>5, <3>1 DEF DelDefault, Order, SetDone
      <3>3. set'[s] = "addDefault" /\ reset' = reset
        BY <1>5 DEF DelDefault
      <3>4. Lowering(s)'
        BY <3>2, <3>3 DEF Lowering, Past, Active
      <3> QED
        BY <3>2, <3>3, <3>4 DEF Kept, DefaultRouteKept
    <2>8. Resolv'
      BY <1>5 DEF DelDefault, Resolv, Active, Past, Lowering, SetDone, Spared, Alone,
         Ranged, Order
    <2>9. Leftovers'
      BY <1>5 DEF DelDefault, Leftovers, Active, Past, Lowering, SetDone, Spared, Alone,
         Ranged, Order, Defaults, ServerKept, Physical, DefaultRoute, ServerRoute
    <2> QED
      BY <2>1, <2>2, <2>3, <2>4, <2>5, <2>6, <2>7, <2>8, <2>9
  <1>6. ASSUME NEW s \in Sessions, LowerDefault(s) PROVE Inv'
    <2>1. Types'
      BY <1>6 DEF LowerDefault, AddDefault, Plus, Routes, Live
    <2>2. Basics'
      BY <1>6 DEF LowerDefault, AddDefault, Plus, Routes, Live
    <2>3. Order'
      BY <1>6 DEF LowerDefault, AddDefault, Plus, Routes, Live, Order, Active, Past,
         Lowering, SetDone, Spared, Alone, Ranged
    <2>4. Defaults'
      BY <1>6 DEF LowerDefault, AddDefault, Plus, Routes, Live, Defaults, Active, Past,
         Lowering, SetDone, Spared, Alone, Ranged, Order, DefaultRoute, At
    <2>5. ServerKept'
      BY <1>6 DEF LowerDefault, AddDefault, Plus, Routes, Live, ServerKept, Active, Past,
         Lowering, SetDone, Spared, Alone, Ranged, Order, ServerRoute
    <2>6. Physical'
      BY <1>6 DEF LowerDefault, AddDefault, Plus, Routes, Live, Physical, Active, Past,
         Lowering, SetDone, Spared, Alone, Ranged, Order, Defaults, DefaultRoute
    <2>7. Kept'
      <3> SUFFICES ASSUME Spared({"overlap", "early", "addFailed", "crash"})' PROVE Kept'
        BY DEF Kept
      <3>1. Spared({"overlap", "early", "addFailed", "crash"}) /\ Alone
        BY <1>6 DEF LowerDefault, AddDefault, Spared, Alone
      <3>2. localInterface = Phys
        BY <1>6, <3>1 DEF LowerDefault, Order, Past, Active, SetDone
      <3>3. races' = races /\ table' = Plus(table, {DefaultRoute(Phys, 10)})
        <4>1. AddDefault(localInterface, 10) /\ "addFailed" \notin races'
          BY <1>6 DEF LowerDefault, Spared
        <4>2. races' = races /\ table' = Plus(table, {DefaultRoute(localInterface, 10)})
          BY <4>1, DefaultAdded
        <4> QED
          BY <3>2, <4>2
      <3>4. table \subseteq table' /\ (\A q \in table' : q \in table \/ q = DefaultRoute(Phys, 10))
        BY <3>3, PlusAdds
      <3>5. \E q \in table' : q.dst = Zero /\ q.dev = Phys
        <4>1. CASE DefaultRoute(Phys, 10) \in table'
          BY <4>1 DEF DefaultRoute
        <4>2. CASE DefaultRoute(Phys, 10) \notin table'
          <5>1. PICK q \in table : q.dst = Zero /\ q.prio = 10
            BY <3>3, <4>2, PlusAdds DEF DefaultRoute
          <5> QED
            BY <3>1, <3>4, <5>1 DEF Defaults
        <4> QED
          BY <4>1, <4>2
      <3>6. At(table', Zero, Phys) # {}
        BY <3>5 DEF At
      <3>7. Lowering(s)' /\ Global /\ set'[s] # "delDefault"
        BY <1>6, <3>1 DEF LowerDefault, Lowering, Past, Active, Order, SetDone
      <3> QED
        BY <3>6, <3>7 DEF Kept, DefaultRouteKept
    <2>8. Resolv'
      BY <1>6 DEF LowerDefault, AddDefault, Plus, Routes, Live, Resolv, Active, Past,
         Lowering, SetDone, Spared, Alone, Ranged, Order
    <2>9. Leftovers'
      BY <1>6 DEF LowerDefault, AddDefault, Plus, Routes, Live, Leftovers, Active, Past,
         Lowering, SetDone, Spared, Alone, Ranged, Order, Defaults, ServerKept, Physical,
         DefaultRoute, ServerRoute
    <2> QED
      BY <2>1, <2>2, <2>3, <2>4, <2>5, <2>6, <2>7, <2>8, <2>9
  <1>7. ASSUME NEW s \in Sessions, AddInclude(s) PROVE Inv'
    <2>1. Types'
      BY <1>7 DEF AddInclude, AddStage, Plus, Routes, Live, Includes
    <2>2. Basics'
      BY <1>7 DEF AddInclude, AddStage, Plus, Routes, Live, Includes
    <2>3. Order'
      BY <1>7 DEF AddInclude, AddStage, Plus, Routes, Live, Includes, Order, Active, Past,
         Lowering, SetDone, Spared, Alone, Ranged
    <2>4. Defaults'
      <3> SUFFICES ASSUME Alone' PROVE Defaults'
        BY DEF Defaults
      <3>1. Alone
        BY <1>7 DEF AddInclude, AddStage, Alone, Spared
      <3>2. set[s] = "include" /\ reset[s].pc = "none" /\ iface = s /\ tuns \subseteq {s}
        BY <1>7, <3>1 DEF AddInclude, AddStage, Order, Active, SetDone
      <3>3. PICK done \in SUBSET Includes :
              /\ table' = Plus(table, Routes(done, s, 6))
              /\ set' = [set EXCEPT ![s] = IF done = Includes THEN "exclude" ELSE "failed"]
              /\ reset' = reset /\ tuns' = tuns
        BY <1>7, <3>2 DEF AddInclude, AddStage
      <3>4. table \subseteq table'
              /\ \A q \in table' : q \in table \/ (q.dst \in done /\ q.dev = s /\ q.prio = 6)
        <4>1. \A q \in Routes(done, s, 6) : q.dst \in done /\ q.dev = s /\ q.prio = 6
          BY DEF Routes
        <4> QED
          BY <3>3, <4>1, PlusAdds
      <3>5. Zero \in Includes => Global
        BY DEF Includes
      <3>6. \A q \in table' :
              q.dst = Zero => IF q.dev = Phys THEN q.prio \in {0, 10} \cup DefaultPrios
                                              ELSE q.prio = 6 /\ Global
        BY <3>1, <3>4, <3>5 DEF Defaults
      <3>7. \A t \in Sessions \ {s} : ~Lowering(t)'
        <4>1. \A t \in Sessions \ {s} : ~Active(t)
          BY <3>1, <3>2, OneAtATime
        <4> QED
          BY <3>3, <4>1 DEF Lowering, Past, Active
      <3>8. Global => \A q \in table' : q.dst = Zero /\ q.dev = Phys => q.prio = 10
        <4>1. Lowering(s)
          BY <3>2 DEF Lowering, Past, Active
        <4> QED
          BY <3>1, <3>2, <3>4, <4>1 DEF Defaults
      <3>9. ASSUME Global, set'[s] = "exclude" PROVE DefaultRoute(s, 6) \in table'
        <4>1. table' = Plus(table, {DefaultRoute(s, 6)})
          <5>1. done = Includes
            <6>1. set'[s] = IF done = Includes THEN "exclude" ELSE "failed"
              BY <3>3
            <6> QED
              BY <3>9, <6>1
          <5>2. Routes({Zero}, s, 6) = {DefaultRoute(s, 6)}
            BY DEF Routes, DefaultRoute
          <5> QED
            BY <3>3, <3>9, <5>1, <5>2 DEF Includes
        <4>2. DefaultRoute(s, 6) \in table' \/ \E q \in table : q.dst = Zero /\ q.prio = 6
          BY <4>1, PlusAdds DEF DefaultRoute
        <4>3. ASSUME NEW q \in table, q.dst = Zero, q.prio = 6 PROVE q = DefaultRoute(s, 6)
          <5>1. q.dev # Phys
            <6>1. q \in table'
              BY <3>4
            <6> QED
              BY <3>8, <3>9, <4>3, <6>1
          <5>2. q.dev = s
            BY <3>2, <5>1
          <5> QED
            BY <4>3, <5>2 DEF DefaultRoute
        <4> QED
          BY <3>4, <4>2, <4>3
      <3>10. set'[s] \in {"exclude", "failed"} /\ reset'[s].pc = "none"
        BY <3>2, <3>3
      <3> HIDE DEF Types, Basics
      <3> QED
        BY <3>6, <3>7, <3>8, <3>9, <3>10 DEF Defaults
    <2>5. ServerKept'
      BY <1>7 DEF AddInclude, AddStage, Plus, Routes, Live, Includes, ServerKept, Active,
         Past, Lowering, SetDone, Spared, Alone, Ranged, Order, ServerRoute
    <2>6. Physical'
      BY <1>7 DEF AddInclude, AddStage, Plus, Routes, Live, Includes, Physical, Active,
         Past, Lowering, SetDone, Spared, Alone, Ranged, Order, Defaults, DefaultRoute
    <2>7. Kept'
      BY <1>7 DEF AddInclude, AddStage, Plus, Routes, Live, Includes, Kept, Active, Past,
         Lowering, SetDone, Spared, Alone, Ranged, Order, Defaults, DefaultRoute,
         DefaultRouteKept, At
    <2>8. Resolv'
      BY <1>7 DEF AddInclude, AddStage, Plus, Routes, Live, Includes, Resolv, Active, Past,
         Lowering, SetDone, Spared, Alone, Ranged, Order
    <2>9. Leftovers'
      BY <1>7 DEF AddInclude, AddStage, Plus, Routes, Live, Includes, Leftovers, Active,
         Past, Lowering, SetDone, Spared, Alone, Ranged, Order, Defaults, ServerKept,
         Physical, DefaultRoute, ServerRoute
    <2> QED
      BY <2>1, <2>2, <2>3, <2>4, <2>5, <2>6, <2>7, <2>8, <2>9
  <1>8. ASSUME NEW s \in Sessions, AddExclude(s) PROVE Inv'
    <2>1. Types'
      BY <1>8 DEF AddExclude, AddStage, Plus, Routes, Live
    <2>2. Basics'
      BY <1>8 DEF AddExclude, AddStage, Plus, Routes, Live
    <2>3. Order'
      BY <1>8 DEF AddExclude, AddStage, Plus, Routes, Live, Order, Active, Past, Lowering,
         SetDone, Spared, Alone, Ranged
    <2>4. Defaults'
      BY <1>8 DEF AddExclude, AddStage, Plus, Routes, Live, Defaults, Active, Past,
         Lowering, SetDone, Spared, Alone, Ranged, Order, DefaultRoute, At
    <2>5. ServerKept'
      BY <1>8 DEF AddExclude, AddStage, Plus, Routes, Live, ServerKept, Active, Past,
         Lowering, SetDone, Spared, Alone, Ranged, Order, ServerRoute
    <2>6. Physical'
      BY <1>8 DEF AddExclude, AddStage, Plus, Routes, Live, Physical, Active, Past,
         Lowering, SetDone, Spared, Alone, Ranged, Order, Defaults, DefaultRoute
    <2>7. Kept'
      BY <1>8 DEF AddExclude, AddStage, Plus, Routes, Live, Kept, Active, Past, Lowering,
         SetDone, Spared, Alone, Ranged, Order, Defaults, DefaultRoute, DefaultRouteKept, At
    <2>8. Resolv'
      BY <1>8 DEF AddExclude, AddStage, Plus, Routes, Live, Resolv, Active, Past, Lowering,
         SetDone, Spared, Alone, Ranged, Order
    <2>9. Leftovers'
      BY <1>8 DEF AddExclude, AddStage, Plus, Routes, Live, Leftovers, Active, Past,
         Lowering, SetDone, Spared, Alone, Ranged, Order, Defaults, ServerKept, Physical,
         DefaultRoute, ServerRoute
    <2> QED
      BY <2>1, <2>2, <2>3, <2>4, <2>5, <2>6, <2>7, <2>8, <2>9
  <1>9. ASSUME NEW s \in Sessions, SetDNS(s) PROVE Inv'
    <2>1. Types'
      BY <1>9 DEF SetDNS
    <2>2. Basics'
      BY <1>9 DEF SetDNS
    <2>3. Order'
      BY <1>9 DEF SetDNS, Order, Active, Past, Lowering, SetDone, Spared, Alone, Ranged
    <2>4. Defaults'
      BY <1>9 DEF SetDNS, Defaults, Active, Past, Lowering, SetDone, Spared, Alone, Ranged,
         Order, DefaultRoute, At
    <2>5. ServerKept'
      BY <1>9 DEF SetDNS, ServerKept, Active, Past, Lowering, SetDone, Spared, Alone,
         Ranged, Order, ServerRoute
    <2>6. Physical'
      BY <1>9 DEF SetDNS, Physical, Active, Past, Lowering, SetDone, Spared, Alone, Ranged,
         Order, Defaults, DefaultRoute
    <2>7. Kept'
      BY <1>9 DEF SetDNS, Kept, Active, Past, Lowering, SetDone, Spared, Alone, Ranged,
         Order, Defaults, DefaultRoute, DefaultRouteKept, At
    <2>8. Resolv'
      BY <1>9 DEF SetDNS, Resolv, Active, Past, Lowering, SetDone, Spared, Alone, Ranged,
         Order
    <2>9. Leftovers'
      BY <1>9 DEF SetDNS, Leftovers, Active, Past, Lowering, SetDone, Spared, Alone, Ranged,
         Order, Defaults, ServerKept, Physical, DefaultRoute, ServerRoute
    <2> QED
      BY <2>1, <2>2, <2>3, <2>4, <2>5, <2>6, <2>7, <2>8, <2>9
  <1>10. ASSUME NEW s \in Sessions, DnsCopy(s) PROVE Inv'
    <2>1. Types'
      BY <1>10 DEF DnsCopy, Restored
    <2>2. Basics'
      BY <1>10 DEF DnsCopy, Restored
    <2>3. Order'
      BY <1>10 DEF DnsCopy, Restored, Order, Active, Past, Lowering, SetDone, Spared, Alone,
         Ranged
    <2>4. Defaults'
      BY <1>10 DEF DnsCopy, Restored, Defaults, Active, Past, Lowering, SetDone, Spared,
         Alone, Ranged, Order, DefaultRoute, At
    <2>5. ServerKept'
      BY <1>10 DEF DnsCopy, Restored, ServerKept, Active, Past, Lowering, SetDone, Spared,
         Alone, Ranged, Order, ServerRoute
    <2>6. Physical'
      BY <1>10 DEF DnsCopy, Restored, Physical, Active, Past, Lowering, SetDone, Spared,
         Alone, Ranged, Order, Defaults, DefaultRoute
    <2>7. Kept'
      BY <1>10 DEF DnsCopy, Restored, Kept, Active, Past, Lowering, SetDone, Spared, Alone,
         Ranged, Order, Defaults, DefaultRoute, DefaultRouteKept, At
    <2>8. Resolv'
      <3> SUFFICES ASSUME Spared({"overlap", "early", "lateDns", "crash"})' PROVE Resolv'
        BY DEF Resolv
      <3>1. Spared({"overlap", "early", "lateDns", "crash"}) /\ reset[s].pc # "done"
        <4>1. races \subseteq races' /\ (reset[s].pc = "done" => "lateDns" \in races')
          BY <1>10 DEF DnsCopy, Restored
        <4> QED
          BY <4>1 DEF Spared
      <3>2. Alone /\ set[s] = "up" /\ dnsJob[s] = "copy"
        BY <1>10, <3>1 DEF DnsCopy, Alone, Spared
      <3>3. resolv = 0
        <4>1. resolv \in Sessions /\ reset[resolv].pc # "done" /\ dnsJob[resolv] = "done"
                => resolv = s
          BY <3>1, <3>2, OneAtATime DEF SetDone
        <4> QED
          BY <3>1, <3>2, <4>1 DEF Resolv
      <3> QED
        BY <1>10, <3>1, <3>3 DEF DnsCopy, Resolv
    <2>9. Leftovers'
      BY <1>10 DEF DnsCopy, Restored, Leftovers, Active, Past, Lowering, SetDone, Spared,
         Alone, Ranged, Order, Defaults, ServerKept, Physical, DefaultRoute, ServerRoute
    <2> QED
      BY <2>1, <2>2, <2>3, <2>4, <2>5, <2>6, <2>7, <2>8, <2>9
  <1>11. ASSUME NEW s \in Sessions, DnsWrite(s) PROVE Inv'
    <2>1. Types'
      BY <1>11 DEF DnsWrite, Restored
    <2>2. Basics'
      BY <1>11 DEF DnsWrite, Restored
    <2>3. Order'
      BY <1>11 DEF DnsWrite, Restored, Order, Active, Past, Lowering, SetDone, Spared,
         Alone, Ranged
    <2>4. Defaults'
      BY <1>11 DEF DnsWrite, Restored, Defaults, Active, Past, Lowering, SetDone, Spared,
         Alone, Ranged, Order, DefaultRoute, At
    <2>5. ServerKept'
      BY <1>11 DEF DnsWrite, Restored, ServerKept, Active, Past, Lowering, SetDone, Spared,
         Alone, Ranged, Order, ServerRoute
    <2>6. Physical'
      BY <1>11 DEF DnsWrite, Restored, Physical, Active, Past, Lowering, SetDone, Spared,
         Alone, Ranged, Order, Defaults, DefaultRoute
    <2>7. Kept'
      BY <1>11 DEF DnsWrite, Restored, Kept, Active, Past, Lowering, SetDone, Spared, Alone,
         Ranged, Order, Defaults, DefaultRoute, DefaultRouteKept, At
    <2>8. Resolv'
      <3> SUFFICES ASSUME Spared({"overlap", "early", "lateDns", "crash"})' PROVE Resolv'
        BY DEF Resolv
      <3>1. Spared({"overlap", "early", "lateDns", "crash"}) /\ reset[s].pc # "done"
        <4>1. races \subseteq races' /\ (reset[s].pc = "done" => "lateDns" \in races')
          BY <1>11 DEF DnsWrite, Restored
        <4> QED
          BY <4>1 DEF Spared
      <3>2. Alone /\ set[s] = "up" /\ dnsJob[s] = "write"
        BY <1>11, <3>1 DEF DnsWrite, Alone, Spared
      <3>3. resolv = 0
        <4>1. resolv \in Sessions /\ reset[resolv].pc # "done" /\ dnsJob[resolv] = "done"
                => resolv = s
          BY <3>1, <3>2, OneAtATime DEF SetDone
        <4> QED
          BY <3>1, <3>2, <4>1 DEF Resolv
      <3> QED
        BY <1>11, <3>1, <3>3 DEF DnsWrite, Resolv
    <2>9. Leftovers'
      BY <1>11 DEF DnsWrite, Restored, Leftovers, Active, Past, Lowering, SetDone, Spared,
         Alone, Ranged, Order, Defaults, ServerKept, Physical, DefaultRoute, ServerRoute
    <2> QED
      BY <2>1, <2>2, <2>3, <2>4, <2>5, <2>6, <2>7, <2>8, <2>9
  <1>12. ASSUME NEW s \in Sessions, ResetBegin(s) PROVE Inv'
    <2>1. Types'
      BY <1>12 DEF ResetBegin
    <2>2. Basics'
      BY <1>12 DEF ResetBegin
    <2>3. Order'
      <3> SUFFICES ASSUME Alone' PROVE Order'
        BY DEF Order
      <3>1. Alone /\ SetDone(s)
        <4>1. races \subseteq races' /\ (~SetDone(s) => "overlap" \in races')
          BY <1>12 DEF ResetBegin
        <4> QED
          BY <4>1 DEF Alone, Spared
      <3>2. \A t \in Sessions \ {s} :
              ~Active(t) /\ (set[t] = "new" \/ (SetDone(t) /\ reset[t].pc = "done"))
        BY <1>12, <3>1, OneAtATime DEF ResetBegin
      <3> QED
        BY <1>12, <3>1, <3>2 DEF ResetBegin, Order, Active, Past, SetDone
    <2>4. Defaults'
      BY <1>12 DEF ResetBegin, Defaults, Active, Past, Lowering, SetDone, Spared, Alone,
         Ranged, Order, DefaultRoute, At
    <2>5. ServerKept'
      BY <1>12 DEF ResetBegin, ServerKept, Active, Past, Lowering, SetDone, Spared, Alone,
         Ranged, Order, ServerRoute
    <2>6. Physical'
      BY <1>12 DEF ResetBegin, Physical, Active, Past, Lowering, SetDone, Spared, Alone,
         Ranged, Order, Defaults, DefaultRoute
    <2>7. Kept'
      BY <1>12 DEF ResetBegin, Kept, Active, Past, Lowering, SetDone, Spared, Alone, Ranged,
         Order, Defaults, DefaultRoute, DefaultRouteKept, At
    <2>8. Resolv'
      BY <1>12 DEF ResetBegin, Resolv, Active, Past, Lowering, SetDone, Spared, Alone,
         Ranged, Order
    <2>9. Leftovers'
      BY <1>12 DEF ResetBegin, Leftovers, Active, Past, Lowering, SetDone, Spared, Alone,
         Ranged, Order, Defaults, ServerKept, Physical, DefaultRoute, ServerRoute
    <2> QED
      BY <2>1, <2>2, <2>3, <2>4, <2>5, <2>6, <2>7, <2>8, <2>9
  <1>13. ASSUME NEW s \in Sessions, ResetDelDefault(s) PROVE Inv'
    <2>1. Types'
      BY <1>13 DEF ResetDelDefault, Minus, Preferred
    <2>2. Basics'
      BY <1>13 DEF ResetDelDefault, Minus, Preferred
    <2>3. Order'
      BY <1>13 DEF ResetDelDefault, Minus, Preferred, Order, Active, Past, Lowering,
         SetDone, Spared, Alone, Ranged
    <2>4. Defaults'
      BY <1>13 DEF ResetDelDefault, Minus, Preferred, Defaults, Active, Past, Lowering,
         SetDone, Spared, Alone, Ranged, Order, DefaultRoute, At
    <2>5. ServerKept'
      <3>1. table' \subseteq table /\ \A q \in table : q.dst # Zero => q \in table'
        BY <1>13, MinusTakes DEF ResetDelDefault
      <3>2. ServerRoute.dst = Server /\ Server # Zero
        BY DEF ServerRoute
      <3>3. \A t \in Sessions :
              /\ Past(t)' => Past(t)
              /\ reset'[t].pc \notin {"dynamic", "dns"} => reset[t].pc \notin {"dynamic", "dns"}
        BY <1>13 DEF ResetDelDefault, Past, Active
      <3> QED
        BY <1>13, <3>1, <3>2, <3>3 DEF ResetDelDefault, ServerKept, Alone, Spared
    <2>6. Physical'
      BY <1>13 DEF ResetDelDefault, Minus, Preferred, Physical, Active, Past, Lowering,
         SetDone, Spared, Alone, Ranged, Order, Defaults, DefaultRoute
    <2>7. Kept'
      BY <1>13 DEF ResetDelDefault, Minus, Preferred, Kept, Active, Past, Lowering, SetDone,
         Spared, Alone, Ranged, Order, Defaults, DefaultRoute, DefaultRouteKept, At
    <2>8. Resolv'
      BY <1>13 DEF ResetDelDefault, Minus, Preferred, Resolv, Active, Past, Lowering,
         SetDone, Spared, Alone, Ranged, Order
    <2>9. Leftovers'
      BY <1>13 DEF ResetDelDefault, Minus, Preferred, Leftovers, Active, Past, Lowering,
         SetDone, Spared, Alone, Ranged, Order, Defaults, ServerKept, Physical,
         DefaultRoute, ServerRoute
    <2> QED
      BY <2>1, <2>2, <2>3, <2>4, <2>5, <2>6, <2>7, <2>8, <2>9
  <1>14. ASSUME NEW s \in Sessions, ResetAddDefault(s) PROVE Inv'
    <2>1. Types'
      BY <1>14 DEF ResetAddDefault, AddDefault, Plus, Routes, Live
    <2>2. Basics'
      BY <1>14 DEF ResetAddDefault, AddDefault, Plus, Routes, Live
    <2>3. Order'
      BY <1>14 DEF ResetAddDefault, AddDefault, Plus, Routes, Live, Order, Active, Past,
         Lowering, SetDone, Spared, Alone, Ranged
    <2>4. Defaults'
      BY <1>14 DEF ResetAddDefault, AddDefault, Plus, Routes, Live, Defaults, Active, Past,
         Lowering, SetDone, Spared, Alone, Ranged, Order, DefaultRoute, At
    <2>5. ServerKept'
      BY <1>14 DEF ResetAddDefault, AddDefault, Plus, Routes, Live, ServerKept, Active,
         Past, Lowering, SetDone, Spared, Alone, Ranged, Order, ServerRoute
    <2>6. Physical'
      <3> SUFFICES ASSUME Spared({"early", "overlap", "addFailed"})' PROVE Physical'
        BY DEF Physical
      <3>1. Spared({"early", "overlap", "addFailed"}) /\ Alone
        BY <1>14 DEF ResetAddDefault, AddDefault, Spared, Alone
      <3>2. reset[s].dev = Phys
        BY <1>14, <3>1 DEF ResetAddDefault, Order, Past, Active, SetDone
      <3>3. races' = races /\ table' = Plus(table, {DefaultRoute(Phys, 0)})
        <4>1. AddDefault(reset[s].dev, 0) /\ "addFailed" \notin races'
          BY <1>14 DEF ResetAddDefault, Spared
        <4>2. races' = races /\ table' = Plus(table, {DefaultRoute(reset[s].dev, 0)})
          BY <4>1, DefaultAdded
        <4> QED
          BY <3>2, <4>2
      <3>4. table \subseteq table' /\ (\A q \in table' : q \in table \/ q = DefaultRoute(Phys, 0))
        BY <3>3, PlusAdds
      <3>5. DefaultRoute(Phys, 0) \in table'
        <4>1. DefaultRoute(Phys, 0) \in table' \/ \E q \in table : q.dst = Zero /\ q.prio = 0
          BY <3>3, PlusAdds DEF DefaultRoute
        <4>2. ASSUME NEW q \in table, q.dst = Zero, q.prio = 0 PROVE FALSE
          BY <1>14, <3>1, <4>2 DEF ResetAddDefault, Defaults, Lowering, Past, Active, Order, SetDone
        <4> QED
          BY <4>1, <4>2
      <3>6. \A t \in Sessions :
              Active(t) /\ reset[t].pc # "none" => reset[t].dev = Phys
        BY <3>1 DEF Physical
      <3>7. \A t \in Sessions :
              /\ Active(t)' => Active(t) /\ reset'[t].dev = reset[t].dev
              /\ reset'[t].pc # "none" => reset[t].pc # "none"
        BY <1>14 DEF ResetAddDefault, Active
      <3> QED
        BY <1>14, <3>1, <3>5, <3>6, <3>7 DEF ResetAddDefault, Physical
    <2>7. Kept'
      <3> SUFFICES ASSUME Spared({"overlap", "early", "addFailed", "crash"})' PROVE Kept'
        BY DEF Kept
      <3>1. Spared({"overlap", "early", "addFailed", "crash"}) /\ Alone
        BY <1>14 DEF ResetAddDefault, AddDefault, Spared, Alone
      <3>2. reset[s].dev = Phys
        BY <1>14, <3>1 DEF ResetAddDefault, Order, Past, Active, SetDone
      <3>3. races' = races /\ table' = Plus(table, {DefaultRoute(Phys, 0)})
        <4>1. AddDefault(reset[s].dev, 0) /\ "addFailed" \notin races'
          BY <1>14 DEF ResetAddDefault, Spared
        <4>2. races' = races /\ table' = Plus(table, {DefaultRoute(reset[s].dev, 0)})
          BY <4>1, DefaultAdded
        <4> QED
          BY <3>2, <4>2
      <3>4. table \subseteq table' /\ (\A q \in table' : q \in table \/ q = DefaultRoute(Phys, 0))
        BY <3>3, PlusAdds
      <3>5. DefaultRoute(Phys, 0) \in table'
        <4>1. DefaultRoute(Phys, 0) \in table' \/ \E q \in table : q.dst = Zero /\ q.prio = 0
          BY <3>3, PlusAdds DEF DefaultRoute
        <4>2. ASSUME NEW q \in table, q.dst = Zero, q.prio = 0 PROVE FALSE
          BY <1>14, <3>1, <4>2 DEF ResetAddDefault, Defaults, Lowering, Past, Active, Order, SetDone
        <4> QED
          BY <4>1, <4>2
      <3>6. Global /\ At(table, Zero, Phys) = {}
        <4>1. Global /\ Lowering(s) /\ reset[s].pc = "addDefault"
          BY <1>14 DEF ResetAddDefault, Lowering, Past, Active
        <4> QED
          BY <3>1, <4>1 DEF Defaults
      <3>7. At(table', Zero, Phys) = {DefaultRoute(Phys, 0)}
        BY <3>4, <3>5, <3>6 DEF At, DefaultRoute
      <3> QED
        BY <3>6, <3>7 DEF Kept, DefaultRouteKept
    <2>8. Resolv'
      BY <1>14 DEF ResetAddDefault, AddDefault, Plus, Routes, Live, Resolv, Active, Past,
         Lowering, SetDone, Spared, Alone, Ranged, Order
    <2>9. Leftovers'
      <3> SUFFICES ASSUME Spared({"overlap", "early", "lateSniff", "overwritten", "addFailed", "crash"})'
                   PROVE  Leftovers'
        BY DEF Leftovers
      <3>1. /\ Spared({"overlap", "early", "lateSniff", "overwritten", "addFailed", "crash"})
            /\ Alone /\ Spared({"early", "overlap", "addFailed"})
        BY <1>14 DEF ResetAddDefault, AddDefault, Spared, Alone
      <3>2. reset[s].dev = Phys
        BY <1>14, <3>1 DEF ResetAddDefault, Order, Past, Active, SetDone
      <3>3. races' = races /\ table' = Plus(table, {DefaultRoute(Phys, 0)})
        <4>1. AddDefault(reset[s].dev, 0) /\ "addFailed" \notin races'
          BY <1>14 DEF ResetAddDefault, Spared
        <4>2. races' = races /\ table' = Plus(table, {DefaultRoute(reset[s].dev, 0)})
          BY <4>1, DefaultAdded
        <4> QED
          BY <3>2, <4>2
      <3>4. table \subseteq table' /\ (\A q \in table' : q \in table \/ q = DefaultRoute(Phys, 0))
        BY <3>3, PlusAdds
      <3>5. \A q \in table' : q \in table \/ (q.dst = Zero /\ q.dev = Phys)
        BY <3>4 DEF DefaultRoute
      <3>6. \A t \in Sessions :
              /\ Active(t) => Active(t)'
              /\ reset[t].pc \notin {"dynamic", "dns"} => reset'[t].pc \notin {"dynamic", "dns"}
              /\ ~Ranged(t) => ~Ranged(t)'
        BY <1>14 DEF ResetAddDefault, Active, Ranged
      <3>7. UNCHANGED <<tuns, resolved, sniff>>
        BY <1>14 DEF ResetAddDefault
      <3> HIDE DEF Types, Basics
      <3> QED
        BY <3>1, <3>4, <3>5, <3>6, <3>7 DEF Leftovers
    <2> QED
      BY <2>1, <2>2, <2>3, <2>4, <2>5, <2>6, <2>7, <2>8, <2>9
  <1>15. ASSUME NEW s \in Sessions, ResetStatic(s) PROVE Inv'
    <2>1. Types'
      BY <1>15 DEF ResetStatic, WithoutAll, Minus, Preferred
    <2>2. Basics'
      BY <1>15 DEF ResetStatic, WithoutAll, Minus, Preferred
    <2>3. Order'
      BY <1>15 DEF ResetStatic, WithoutAll, Minus, Preferred, Order, Active, Past, Lowering,
         SetDone, Spared, Alone, Ranged
    <2>4. Defaults'
      BY <1>15 DEF ResetStatic, WithoutAll, Minus, Preferred, Defaults, Active, Past,
         Lowering, SetDone, Spared, Alone, Ranged, Order, DefaultRoute, At
    <2>5. ServerKept'
      BY <1>15 DEF ResetStatic, WithoutAll, Minus, Preferred, ServerKept, Active, Past,
         Lowering, SetDone, Spared, Alone, Ranged, Order, ServerRoute
    <2>6. Physical'
      <3> SUFFICES ASSUME Spared({"early", "overlap", "addFailed"})' PROVE Physical'
        BY DEF Physical
      <3>1. Spared({"early", "overlap", "addFailed"}) /\ Alone
        BY <1>15 DEF ResetStatic, Spared, Alone
      <3>2. table' \subseteq table /\ \A q \in table : q.dst = Zero => q \in table'
        BY <1>15, MinusTakes, WithoutTakes DEF ResetStatic
      <3>3. \A t \in Sessions :
              /\ Active(t)' => Active(t) /\ reset'[t].dev = reset[t].dev
              /\ reset'[t].pc # "none" => reset[t].pc # "none"
              /\ Lowering(t) => Lowering(t)'
        BY <1>15 DEF ResetStatic, Active, Past, Lowering
      <3>4. DefaultRoute(Phys, 0).dst = Zero
        BY DEF DefaultRoute
      <3> QED
        BY <1>15, <3>1, <3>2, <3>3, <3>4 DEF ResetStatic, Physical
    <2>7. Kept'
      BY <1>15 DEF ResetStatic, WithoutAll, Minus, Preferred, Kept, Active, Past, Lowering,
         SetDone, Spared, Alone, Ranged, Order, Defaults, DefaultRoute, DefaultRouteKept, At
    <2>8. Resolv'
      BY <1>15 DEF ResetStatic, WithoutAll, Minus, Preferred, Resolv, Active, Past,
         Lowering, SetDone, Spared, Alone, Ranged, Order
    <2>9. Leftovers'
      <3> SUFFICES ASSUME Spared({"overlap", "early", "lateSniff", "overwritten", "addFailed", "crash"})'
                   PROVE  Leftovers'
        BY DEF Leftovers
      <3>1. /\ Spared({"overlap", "early", "lateSniff", "overwritten", "addFailed", "crash"})
            /\ Alone /\ Spared({"early", "overlap", "addFailed"})
        BY <1>15 DEF ResetStatic, Spared, Alone
      <3>2. \A t \in Sessions \ {s} : ~Active(t)
        BY <1>15, <3>1, OneAtATime DEF ResetStatic
      <3>3. Active(s) /\ reset[s].dev = Phys /\ ~Lowering(s)
        BY <1>15, <3>1 DEF ResetStatic, Active, Past, Lowering, Physical
      <3>4. table' = WithoutAll(Minus(table, Server, Phys), Exclude, Phys) /\ table' \subseteq table
        BY <1>15, <3>3, MinusTakes, WithoutTakes DEF ResetStatic
      <3>5. UNCHANGED <<tuns, resolved, sniff>>
        BY <1>15 DEF ResetStatic
      <3>6. Phys \notin tuns
        OBVIOUS
      <3>7. Active(s)' /\ ~Ranged(s)'
        BY <1>15 DEF ResetStatic, Active, Ranged
      <3> DEFINE T == Minus(table, Server, Phys)
      <3>8. T \subseteq table /\ ServerRoute \notin T
        <4>1. ServerRoute.dst = Server /\ ServerRoute.dev = Phys /\ ServerRoute.prio = 0
          BY DEF ServerRoute
        <4>2. \A p \in table : p.prio \in Nat
          <5>1. {0, 5, 6, 10} \cup DefaultPrios \subseteq Nat
            BY DefaultsAssumption
          <5>2. \A p \in table : p.prio \in {0, 5, 6, 10} \cup DefaultPrios
            BY DEF Types
          <5> QED
            BY <5>1, <5>2
        <4>3. \A p \in table : ServerRoute.prio <= p.prio
          BY <4>1, <4>2
        <4> QED
          BY <4>1, <4>3, MinusTakes
      <3>9. ASSUME NEW q \in table',
                   q = ServerRoute \/ (q.dev = Phys /\ q.prio = 5 /\ q.dst \in Exclude)
            PROVE  FALSE
        <4>1. q \in T /\ q.dev = Phys /\ q.prio = 5 /\ q.dst \in Exclude
          BY <3>4, <3>8, <3>9, WithoutTakes
        <4>2. ASSUME NEW p \in T, p.dst = q.dst, p.dev = Phys PROVE q.prio <= p.prio
          <5>1. p.prio = 5
            BY <3>1, <3>6, <3>8, <4>1, <4>2 DEF Leftovers, DefaultRoute
          <5> QED
            BY <4>1, <5>1
        <4> QED
          BY <3>4, <4>1, <4>2, WithoutTakes
      <3> HIDE DEF Types, Basics, T
      <3> QED
        BY <3>1, <3>2, <3>3, <3>4, <3>5, <3>7, <3>9 DEF Leftovers, Lowering, Past
    <2> QED
      BY <2>1, <2>2, <2>3, <2>4, <2>5, <2>6, <2>7, <2>8, <2>9
  <1>16. ASSUME NEW s \in Sessions, ResetDynamic(s) PROVE Inv'
    <2>1. Types'
      BY <1>16 DEF ResetDynamic, WithoutAll, Preferred
    <2>2. Basics'
      BY <1>16 DEF ResetDynamic, WithoutAll, Preferred
    <2>3. Order'
      BY <1>16 DEF ResetDynamic, WithoutAll, Preferred, Order, Active, Past, Lowering,
         SetDone, Spared, Alone, Ranged
    <2>4. Defaults'
      BY <1>16 DEF ResetDynamic, WithoutAll, Preferred, Defaults, Active, Past, Lowering,
         SetDone, Spared, Alone, Ranged, Order, DefaultRoute, At
    <2>5. ServerKept'
      BY <1>16 DEF ResetDynamic, WithoutAll, Preferred, ServerKept, Active, Past, Lowering,
         SetDone, Spared, Alone, Ranged, Order, ServerRoute
    <2>6. Physical'
      <3> SUFFICES ASSUME Spared({"early", "overlap", "addFailed"})' PROVE Physical'
        BY DEF Physical
      <3>1. Spared({"early", "overlap", "addFailed"}) /\ Alone
        BY <1>16 DEF ResetDynamic, Spared, Alone
      <3>2. table' \subseteq table /\ \A q \in table : q.dst = Zero => q \in table'
        BY <1>16, WithoutTakes DEF ResetDynamic
      <3>3. \A t \in Sessions :
              /\ Active(t)' => Active(t) /\ reset'[t].dev = reset[t].dev
              /\ reset'[t].pc # "none" => reset[t].pc # "none"
              /\ Lowering(t) => Lowering(t)'
        BY <1>16 DEF ResetDynamic, Active, Past, Lowering
      <3>4. DefaultRoute(Phys, 0).dst = Zero
        BY DEF DefaultRoute
      <3> QED
        BY <1>16, <3>1, <3>2, <3>3, <3>4 DEF ResetDynamic, Physical
    <2>7. Kept'
      BY <1>16 DEF ResetDynamic, WithoutAll, Preferred, Kept, Active, Past, Lowering,
         SetDone, Spared, Alone, Ranged, Order, Defaults, DefaultRoute, DefaultRouteKept, At
    <2>8. Resolv'
      BY <1>16 DEF ResetDynamic, WithoutAll, Preferred, Resolv, Active, Past, Lowering,
         SetDone, Spared, Alone, Ranged, Order
    <2>9. Leftovers'
      <3> SUFFICES ASSUME Spared({"overlap", "early", "lateSniff", "overwritten", "addFailed", "crash"})'
                   PROVE  Leftovers'
        BY DEF Leftovers
      <3>1. /\ Spared({"overlap", "early", "lateSniff", "overwritten", "addFailed", "crash"})
            /\ Alone /\ Spared({"early", "overlap", "addFailed"})
        BY <1>16 DEF ResetDynamic, Spared, Alone
      <3>2. \A t \in Sessions \ {s} : ~Active(t)
        BY <1>16, <3>1, OneAtATime DEF ResetDynamic
      <3>3. Active(s) /\ reset[s].dev = Phys /\ ~Lowering(s)
        BY <1>16, <3>1 DEF ResetDynamic, Active, Past, Lowering, Physical
      <3>4. table' = WithoutAll(table, resolved[s], Phys) /\ table' \subseteq table
        BY <1>16, <3>3, WithoutTakes DEF ResetDynamic
      <3>5. UNCHANGED <<tuns, resolved, sniff>>
        BY <1>16 DEF ResetDynamic
      <3>6. Phys \notin tuns
        OBVIOUS
      <3>7. reset[s].pc = "dynamic" /\ resolved[s] \subseteq Answers
        BY <1>16 DEF ResetDynamic
      <3>8. ASSUME NEW q \in table', q.dev = Phys, q.prio = 5, q.dst \in resolved[s]
            PROVE  FALSE
        <4>1. q \in table
          BY <3>4
        <4>2. ASSUME NEW p \in table, p.dst = q.dst, p.dev = Phys PROVE q.prio <= p.prio
          <5>1. p.prio = 5
            BY <3>1, <3>2, <3>6, <3>7, <3>8, <4>2 DEF Leftovers, DefaultRoute, ServerRoute
          <5> QED
            BY <3>8, <5>1
        <4> QED
          BY <3>4, <3>8, <4>1, <4>2, WithoutTakes
      <3> HIDE DEF Types, Basics
      <3> QED
        BY <3>1, <3>2, <3>3, <3>4, <3>5, <3>7, <3>8 DEF Leftovers, Lowering, Past
    <2> QED
      BY <2>1, <2>2, <2>3, <2>4, <2>5, <2>6, <2>7, <2>8, <2>9
  <1>17. ASSUME NEW s \in Sessions, RestoreDNS(s) PROVE Inv'
    <2>1. Types'
      BY <1>17 DEF RestoreDNS
    <2>2. Basics'
      BY <1>17 DEF RestoreDNS
    <2>3. Order'
      BY <1>17 DEF RestoreDNS, Order, Active, Past, Lowering, SetDone, Spared, Alone, Ranged
    <2>4. Defaults'
      BY <1>17 DEF RestoreDNS, Defaults, Active, Past, Lowering, SetDone, Spared, Alone,
         Ranged, Order, DefaultRoute, At
    <2>5. ServerKept'
      BY <1>17 DEF RestoreDNS, ServerKept, Active, Past, Lowering, SetDone, Spared, Alone,
         Ranged, Order, ServerRoute
    <2>6. Physical'
      BY <1>17 DEF RestoreDNS, Physical, Active, Past, Lowering, SetDone, Spared, Alone,
         Ranged, Order, Defaults, DefaultRoute
    <2>7. Kept'
      BY <1>17 DEF RestoreDNS, Kept, Active, Past, Lowering, SetDone, Spared, Alone, Ranged,
         Order, Defaults, DefaultRoute, DefaultRouteKept, At
    <2>8. Resolv'
      BY <1>17 DEF RestoreDNS, Resolv, Active, Past, Lowering, SetDone, Spared, Alone,
         Ranged, Order
    <2>9. Leftovers'
      BY <1>17 DEF RestoreDNS, Leftovers, Active, Past, Lowering, SetDone, Spared, Alone,
         Ranged, Order, Defaults, ServerKept, Physical, DefaultRoute, ServerRoute
    <2> QED
      BY <2>1, <2>2, <2>3, <2>4, <2>5, <2>6, <2>7, <2>8, <2>9
  <1>18. ASSUME NEW s \in Sessions, TunGone(s) PROVE Inv'
    <2>1. Types'
      BY <1>18 DEF TunGone
    <2>2. Basics'
      BY <1>18 DEF TunGone
    <2>3. Order'
      BY <1>18 DEF TunGone, Order, Active, Past, Lowering, SetDone, Spared, Alone, Ranged
    <2>4. Defaults'
      BY <1>18 DEF TunGone, Defaults, Active, Past, Lowering, SetDone, Spared, Alone,
         Ranged, Order, DefaultRoute, At
    <2>5. ServerKept'
      BY <1>18 DEF TunGone, ServerKept, Active, Past, Lowering, SetDone, Spared, Alone,
         Ranged, Order, ServerRoute
    <2>6. Physical'
      BY <1>18 DEF TunGone, Physical, Active, Past, Lowering, SetDone, Spared, Alone,
         Ranged, Order, Defaults, DefaultRoute
    <2>7. Kept'
      BY <1>18 DEF TunGone, Kept, Active, Past, Lowering, SetDone, Spared, Alone, Ranged,
         Order, Defaults, DefaultRoute, DefaultRouteKept, At
    <2>8. Resolv'
      BY <1>18 DEF TunGone, Resolv, Active, Past, Lowering, SetDone, Spared, Alone, Ranged,
         Order
    <2>9. Leftovers'
      BY <1>18 DEF TunGone, Leftovers, Active, Past, Lowering, SetDone, Spared, Alone,
         Ranged, Order, Defaults, ServerKept, Physical, DefaultRoute, ServerRoute
    <2> QED
      BY <2>1, <2>2, <2>3, <2>4, <2>5, <2>6, <2>7, <2>8, <2>9
  <1>19. ASSUME NEW k \in Sniffers, NEW s \in Sessions, NEW ips \in Replies, SniffLoad(k, s, ips)
         PROVE  Inv'
    <2>1. Types'
      BY <1>19 DEF SniffLoad
    <2>2. Basics'
      BY <1>19 DEF SniffLoad
    <2>3. Order'
      BY <1>19 DEF SniffLoad, Order, Active, Past, Lowering, SetDone, Spared, Alone, Ranged
    <2>4. Defaults'
      BY <1>19 DEF SniffLoad, Defaults, Active, Past, Lowering, SetDone, Spared, Alone,
         Ranged, Order, DefaultRoute, At
    <2>5. ServerKept'
      BY <1>19 DEF SniffLoad, ServerKept, Active, Past, Lowering, SetDone, Spared, Alone,
         Ranged, Order, ServerRoute
    <2>6. Physical'
      BY <1>19 DEF SniffLoad, Physical, Active, Past, Lowering, SetDone, Spared, Alone,
         Ranged, Order, Defaults, DefaultRoute
    <2>7. Kept'
      BY <1>19 DEF SniffLoad, Kept, Active, Past, Lowering, SetDone, Spared, Alone, Ranged,
         Order, Defaults, DefaultRoute, DefaultRouteKept, At
    <2>8. Resolv'
      BY <1>19 DEF SniffLoad, Resolv, Active, Past, Lowering, SetDone, Spared, Alone,
         Ranged, Order
    <2>9. Leftovers'
      BY <1>19 DEF SniffLoad, Leftovers, Active, Past, Lowering, SetDone, Spared, Alone,
         Ranged, Order, Defaults, ServerKept, Physical, DefaultRoute, ServerRoute
    <2> QED
      BY <2>1, <2>2, <2>3, <2>4, <2>5, <2>6, <2>7, <2>8, <2>9
  <1>20. ASSUME NEW k \in Sniffers, SniffStore(k) PROVE Inv'
    <2>1. Types'
      BY <1>20 DEF SniffStore
    <2>2. Basics'
      BY <1>20 DEF SniffStore
    <2>3. Order'
      BY <1>20 DEF SniffStore, Order, Active, Past, Lowering, SetDone, Spared, Alone, Ranged
    <2>4. Defaults'
      BY <1>20 DEF SniffStore, Defaults, Active, Past, Lowering, SetDone, Spared, Alone,
         Ranged, Order, DefaultRoute, At
    <2>5. ServerKept'
      BY <1>20 DEF SniffStore, ServerKept, Active, Past, Lowering, SetDone, Spared, Alone,
         Ranged, Order, ServerRoute
    <2>6. Physical'
      BY <1>20 DEF SniffStore, Physical, Active, Past, Lowering, SetDone, Spared, Alone,
         Ranged, Order, Defaults, DefaultRoute
    <2>7. Kept'
      BY <1>20 DEF SniffStore, Kept, Active, Past, Lowering, SetDone, Spared, Alone, Ranged,
         Order, Defaults, DefaultRoute, DefaultRouteKept, At
    <2>8. Resolv'
      BY <1>20 DEF SniffStore, Resolv, Active, Past, Lowering, SetDone, Spared, Alone,
         Ranged, Order
    <2>9. Leftovers'
      <3> SUFFICES ASSUME Spared({"overlap", "early", "lateSniff", "overwritten", "addFailed", "crash"})'
                   PROVE  Leftovers'
        BY DEF Leftovers
      <3>1. /\ Spared({"overlap", "early", "lateSniff", "overwritten", "addFailed", "crash"})
            /\ Alone /\ Spared({"early", "overlap", "addFailed"})
        BY <1>20 DEF SniffStore, Spared, Alone
      <3>2. \A t \in Sessions : resolved[t] \subseteq resolved'[t]
        <4>1. sniff[k].sess \in Sessions
          BY <1>20 DEF SniffStore
        <4>2. resolved[sniff[k].sess] \in {{}, sniff[k].ips}
          <5>1. "overwritten" \notin races'
            BY DEF Spared
          <5> QED
            BY <1>20, <5>1 DEF SniffStore
        <4> QED
          BY <1>20, <4>1, <4>2 DEF SniffStore
      <3>3. \A j \in Sniffers :
              sniff'[j].pc = "add" => sniff'[j].ips \subseteq resolved'[sniff'[j].sess]
        <4> SUFFICES ASSUME NEW j \in Sniffers, sniff'[j].pc = "add"
                     PROVE  sniff'[j].ips \subseteq resolved'[sniff'[j].sess]
          OBVIOUS
        <4>1. CASE j = k
          BY <1>20, <4>1 DEF SniffStore
        <4>2. CASE j # k
          BY <1>20, <3>1, <3>2, <4>2 DEF SniffStore, Leftovers
        <4> QED
          BY <4>1, <4>2
      <3>4. UNCHANGED <<table, tuns, set, reset>>
        BY <1>20 DEF SniffStore
      <3>5. \A t \in Sessions : (Active(t) => Active(t)') /\ (Lowering(t) => Lowering(t)')
        BY <3>4 DEF Active, Past, Lowering
      <3> HIDE DEF Types, Basics
      <3> QED
        BY <3>1, <3>2, <3>3, <3>4, <3>5 DEF Leftovers, Ranged
    <2> QED
      BY <2>1, <2>2, <2>3, <2>4, <2>5, <2>6, <2>7, <2>8, <2>9
  <1>21. ASSUME NEW k \in Sniffers, SniffAdd(k) PROVE Inv'
    <2>1. Types'
      BY <1>21 DEF SniffAdd, Plus, Routes, Live
    <2>2. Basics'
      BY <1>21 DEF SniffAdd, Plus, Routes, Live
    <2>3. Order'
      BY <1>21 DEF SniffAdd, Plus, Routes, Live, Order, Active, Past, Lowering, SetDone,
         Spared, Alone, Ranged
    <2>4. Defaults'
      BY <1>21 DEF SniffAdd, Plus, Routes, Live, Defaults, Active, Past, Lowering, SetDone,
         Spared, Alone, Ranged, Order, DefaultRoute, At
    <2>5. ServerKept'
      BY <1>21 DEF SniffAdd, Plus, Routes, Live, ServerKept, Active, Past, Lowering,
         SetDone, Spared, Alone, Ranged, Order, ServerRoute
    <2>6. Physical'
      BY <1>21 DEF SniffAdd, Plus, Routes, Live, Physical, Active, Past, Lowering, SetDone,
         Spared, Alone, Ranged, Order, Defaults, DefaultRoute
    <2>7. Kept'
      BY <1>21 DEF SniffAdd, Plus, Routes, Live, Kept, Active, Past, Lowering, SetDone,
         Spared, Alone, Ranged, Order, Defaults, DefaultRoute, DefaultRouteKept, At
    <2>8. Resolv'
      BY <1>21 DEF SniffAdd, Plus, Routes, Live, Resolv, Active, Past, Lowering, SetDone,
         Spared, Alone, Ranged, Order
    <2>9. Leftovers'
      <3> SUFFICES ASSUME Spared({"overlap", "early", "lateSniff", "overwritten", "addFailed", "crash"})'
                   PROVE  Leftovers'
        BY DEF Leftovers
      <3>1. /\ Spared({"overlap", "early", "lateSniff", "overwritten", "addFailed", "crash"})
            /\ Alone /\ Spared({"early", "overlap", "addFailed"})
        BY <1>21 DEF SniffAdd, Spared, Alone
      <3> DEFINE s == sniff[k].sess
      <3>2. s \in Sessions /\ ~Ranged(s) /\ Active(s)
        <4>1. "lateSniff" \notin races'
          BY DEF Spared
        <4> QED
          BY <1>21, <4>1 DEF SniffAdd, Ranged, Active
      <3>3. localInterface = Phys
        BY <1>21, <3>1 DEF SniffAdd, Physical
      <3>4. \A q \in table' : q \in table \/ (q.dev = Phys /\ q.prio = 5 /\ q.dst \in resolved[s])
        <4>1. sniff[k].ips \subseteq resolved[s]
          BY <1>21, <3>1 DEF SniffAdd, Leftovers
        <4>2. \A q \in Routes(sniff[k].ips, Phys, 5) :
                q.dev = Phys /\ q.prio = 5 /\ q.dst \in sniff[k].ips
          BY DEF Routes
        <4> QED
          BY <1>21, <3>3, <4>1, <4>2, PlusAdds DEF SniffAdd
      <3>5. UNCHANGED <<tuns, set, reset, resolved>>
        BY <1>21 DEF SniffAdd
      <3>6. \A t \in Sessions : (Active(t) => Active(t)') /\ (Lowering(t) => Lowering(t)')
        BY <3>5 DEF Active, Past, Lowering
      <3>7. \A j \in Sniffers :
              sniff'[j].pc = "add" => sniff'[j].ips \subseteq resolved[sniff'[j].sess]
        BY <1>21, <3>1 DEF SniffAdd, Leftovers
      <3> HIDE DEF Types, Basics, s
      <3> QED
        BY <3>1, <3>2, <3>4, <3>5, <3>6, <3>7 DEF Leftovers, Ranged
    <2> QED
      BY <2>1, <2>2, <2>3, <2>4, <2>5, <2>6, <2>7, <2>8, <2>9
  <1>22. CASE Crash
    <2>1. Types'
      BY <1>22 DEF Crash
    <2>2. Basics'
      BY <1>22 DEF Crash, Sessions
    <2>3. Order'
      BY <1>22 DEF Crash, Order, Active, Past, Lowering, SetDone, Spared, Alone, Ranged
    <2>4. Defaults'
      BY <1>22 DEF Crash, Defaults, Active, Past, Lowering, SetDone, Spared, Alone, Ranged,
         Order, DefaultRoute, At
    <2>5. ServerKept'
      BY <1>22 DEF Crash, ServerKept, Active, Past, Lowering, SetDone, Spared, Alone,
         Ranged, Order, ServerRoute
    <2>6. Physical'
      BY <1>22 DEF Crash, Physical, Active, Past, Lowering, SetDone, Spared, Alone, Ranged,
         Order, Defaults, DefaultRoute
    <2>7. Kept'
      BY <1>22 DEF Crash, Kept, Active, Past, Lowering, SetDone, Spared, Alone, Ranged,
         Order, Defaults, DefaultRoute, DefaultRouteKept, At
    <2>8. Resolv'
      BY <1>22 DEF Crash, Resolv, Active, Past, Lowering, SetDone, Spared, Alone, Ranged,
         Order
    <2>9. Leftovers'
      BY <1>22 DEF Crash, Leftovers, Active, Past, Lowering, SetDone, Spared, Alone, Ranged,
         Order, Defaults, ServerKept, Physical, DefaultRoute, ServerRoute
    <2> QED
      BY <2>1, <2>2, <2>3, <2>4, <2>5, <2>6, <2>7, <2>8, <2>9
  <1>23. ASSUME NEW s \in Sessions, SetRoutesPanics(s) PROVE Inv'
    <2>1. Types'
      BY <1>23 DEF SetRoutesPanics
    <2>2. Basics'
      BY <1>23 DEF SetRoutesPanics
    <2>3. Order'
      BY <1>23 DEF SetRoutesPanics, Order, Active, Past, Lowering, SetDone, Spared, Alone, Ranged
    <2>4. Defaults'
      BY <1>23 DEF SetRoutesPanics, Defaults, Active, Past, Lowering, SetDone, Spared,
         Alone, Ranged, Order, DefaultRoute, At
    <2>5. ServerKept'
      BY <1>23 DEF SetRoutesPanics, ServerKept, Active, Past, Lowering, SetDone, Spared,
         Alone, Ranged, Order, ServerRoute
    <2>6. Physical'
      BY <1>23 DEF SetRoutesPanics, Physical, Active, Past, Lowering, SetDone, Spared,
         Alone, Ranged, Order, Defaults, DefaultRoute
    <2>7. Kept'
      BY <1>23 DEF SetRoutesPanics, Kept, Active, Past, Lowering, SetDone, Spared, Alone,
         Ranged, Order, Defaults, DefaultRoute, DefaultRouteKept, At
    <2>8. Resolv'
      BY <1>23 DEF SetRoutesPanics, Resolv, Active, Past, Lowering, SetDone, Spared, Alone,
         Ranged, Order
    <2>9. Leftovers'
      BY <1>23 DEF SetRoutesPanics, Leftovers, Active, Past, Lowering, SetDone, Spared,
         Alone, Ranged, Order, Defaults, ServerKept, Physical, DefaultRoute, ServerRoute
    <2> QED
      BY <2>1, <2>2, <2>3, <2>4, <2>5, <2>6, <2>7, <2>8, <2>9
  <1>24. CASE InterfaceRequest
    <2>1. Types'
      BY <1>24 DEF InterfaceRequest
    <2>2. Basics'
      BY <1>24 DEF InterfaceRequest
    <2>3. Order'
      BY <1>24 DEF InterfaceRequest, Order, Active, Past, Lowering, SetDone, Spared, Alone, Ranged
    <2>4. Defaults'
      BY <1>24 DEF InterfaceRequest, Defaults, Active, Past, Lowering, SetDone, Spared,
         Alone, Ranged, Order, DefaultRoute, At
    <2>5. ServerKept'
      BY <1>24 DEF InterfaceRequest, ServerKept, Active, Past, Lowering, SetDone, Spared,
         Alone, Ranged, Order, ServerRoute
    <2>6. Physical'
      BY <1>24 DEF InterfaceRequest, Physical, Active, Past, Lowering, SetDone, Spared,
         Alone, Ranged, Order, Defaults, DefaultRoute
    <2>7. Kept'
      BY <1>24 DEF InterfaceRequest, Kept, Active, Past, Lowering, SetDone, Spared, Alone,
         Ranged, Order, Defaults, DefaultRoute, DefaultRouteKept, At
    <2>8. Resolv'
      BY <1>24 DEF InterfaceRequest, Resolv, Active, Past, Lowering, SetDone, Spared, Alone,
         Ranged, Order
    <2>9. Leftovers'
      BY <1>24 DEF InterfaceRequest, Leftovers, Active, Past, Lowering, SetDone, Spared,
         Alone, Ranged, Order, Defaults, ServerKept, Physical, DefaultRoute, ServerRoute
    <2> QED
      BY <2>1, <2>2, <2>3, <2>4, <2>5, <2>6, <2>7, <2>8, <2>9
  <1>25. CASE UNCHANGED vars
    <2>1. Types'
      BY <1>25 DEF vars
    <2>2. Basics'
      BY <1>25 DEF vars
    <2>3. Order'
      BY <1>25 DEF vars, Order, Active, Past, Lowering, SetDone, Spared, Alone, Ranged
    <2>4. Defaults'
      BY <1>25 DEF vars, Defaults, Active, Past, Lowering, SetDone, Spared, Alone, Ranged,
         Order, DefaultRoute, At
    <2>5. ServerKept'
      BY <1>25 DEF vars, ServerKept, Active, Past, Lowering, SetDone, Spared, Alone, Ranged,
         Order, ServerRoute
    <2>6. Physical'
      BY <1>25 DEF vars, Physical, Active, Past, Lowering, SetDone, Spared, Alone, Ranged,
         Order, Defaults, DefaultRoute
    <2>7. Kept'
      BY <1>25 DEF vars, Kept, Active, Past, Lowering, SetDone, Spared, Alone, Ranged,
         Order, Defaults, DefaultRoute, DefaultRouteKept, At
    <2>8. Resolv'
      BY <1>25 DEF vars, Resolv, Active, Past, Lowering, SetDone, Spared, Alone, Ranged,
         Order
    <2>9. Leftovers'
      BY <1>25 DEF vars, Leftovers, Active, Past, Lowering, SetDone, Spared, Alone, Ranged,
         Order, Defaults, ServerKept, Physical, DefaultRoute, ServerRoute
    <2> QED
      BY <2>1, <2>2, <2>3, <2>4, <2>5, <2>6, <2>7, <2>8, <2>9
  <1> QED
    BY <1>1, <1>2, <1>3, <1>4, <1>5, <1>6, <1>7, <1>8, <1>9, <1>10, <1>11, <1>12,
       <1>13, <1>14, <1>15, <1>16, <1>17, <1>18, <1>19, <1>20, <1>21, <1>22, <1>25, <1>23, <1>24 DEF Next

\* The invariant holds throughout.
LEMMA Invariant == Spec => []Inv
  BY InitInv, NextInv, PTL DEF Spec

(***************************************************************************)
(* Theorems                                                                *)
(***************************************************************************)

\* GetLocalInterface (vpnc_linux.go:159-178) never takes a tunnel for the local
\* interface, unless a session begins before the previous one is reset, a reset
\* overlaps with SetRoutes or the RouteAdd of a default route fails.
THEOREM LocalPhysical == Spec => []LocalIsPhysical
  <1>1. Inv => LocalIsPhysical
    BY DEF Inv, Physical, LocalIsPhysical
  <1> QED
    BY <1>1, Invariant, PTL

\* As long as no RouteAdd of a default route has failed (its error is not looked
\* at, vpnc_linux.go:60, 106), ResetRoutes has neither overlapped with SetRoutes
\* nor come after the beginning of the next session, and the agent has not died,
\* the host has a default route through the physical interface but for the moment
\* between RouteDel and RouteAdd (vpnc_linux.go:57-61, 100-110).
THEOREM HostKeepsDefault == Spec => []DefaultRouteKept
  <1>1. Inv => DefaultRouteKept
    BY DEF Inv, Kept, DefaultRouteKept
  <1> QED
    BY <1>1, Invariant, PTL

\* While a session is up in global mode the tunnel's default route is preferred to
\* the physical one (vpnc_linux.go:54-73), and the server's own route is there,
\* whatever a crash, a failed RouteAdd or the sniffers have left behind, unless a
\* session began before an earlier one was reset or a reset overlapped.
THEOREM AllThroughTunnel == Spec => []TrafficTunnelled
  <1>1. Inv => TrafficTunnelled
    <2> SUFFICES ASSUME Inv, Alone, NEW s \in tuns, set[s] = "up", reset[s].pc = "none"
                 PROVE  /\ Global => \A q \in DefaultVia(table) : q.dev = s
                        /\ At(table, Server, Phys) # {}
      BY DEF TrafficTunnelled, Alone
    <2>1. s \in Sessions /\ Past(s) /\ Lowering(s)
      BY DEF Inv, Types, Past, Active, Lowering
    <2>2. ASSUME Global, NEW q \in DefaultVia(table) PROVE q.dev = s
      <3>1. q \in table /\ q.dst = Zero /\ \A p \in table : p.dst = Zero => q.prio <= p.prio
        BY DEF DefaultVia, Preferred
      <3>2. DefaultRoute(s, 6) \in table
        BY <2>1, <2>2 DEF Inv, Defaults
      <3>3. q.prio <= 6
        BY <3>1, <3>2 DEF DefaultRoute
      <3>4. q.dev # Phys
        BY <2>1, <2>2, <3>1, <3>3 DEF Inv, Defaults
      <3> QED
        BY <3>1, <3>4 DEF Inv, Basics
    <2>3. ServerRoute \in At(table, Server, Phys)
      BY <2>1 DEF Inv, ServerKept, ServerRoute, At
    <2> QED
      BY <2>2, <2>3
  <1> QED
    BY <1>1, Invariant, PTL

\* When all is over resolv.conf and its copy are the host's again
\* (vpnc_linux.go:192-224), unless setDNS's goroutine ran after restoreDNS,
\* sessions ran into each other or the agent crashed.
THEOREM HostDNSBack == Spec => []ResolvRestored
  <1>1. Inv => ResolvRestored
    BY DEF Inv, Basics, Resolv, ResolvRestored, Settled
  <1> QED
    BY <1>1, Invariant, PTL

\* When all is over ResetRoutes (vpnc_linux.go:96-136) has taken away whatever
\* was added, and the host has its own routes or, after global mode, one default
\* route of priority 0 in their place; unless ResetRoutes ran while SetRoutes did
\* or after the next session had begun, a sniffer added routes after Range or
\* overwrote another's answer, a RouteAdd of a default route failed or the agent
\* died.
THEOREM NothingLeft == Spec => []NoLeftovers
  <1>1. Inv => NoLeftovers
    <2> SUFFICES ASSUME Inv, Settled,
                        Spared({"overlap", "early", "lateSniff", "overwritten", "addFailed",
                                "crash"})
                 PROVE  table = Original \/ (Global /\ table = {DefaultRoute(Phys, 0)})
      BY DEF NoLeftovers, DefaultRoute
    <2>1. \A s \in Sessions : ~Active(s) /\ ~Lowering(s)
      BY DEF Inv, Basics, Settled, Active, Past, Lowering
    <2>2. table = At(table, Zero, Phys)
      BY <2>1 DEF Inv, Leftovers, Settled, At
    <2>3. \/ At(table, Zero, Phys) = Original
          \/ Global /\ At(table, Zero, Phys) = {DefaultRoute(Phys, 0)}
      BY <2>1 DEF Inv, Kept, Spared
    <2> QED
      BY <2>2, <2>3
  <1> QED
    BY <1>1, Invariant, PTL

=============================================================================
