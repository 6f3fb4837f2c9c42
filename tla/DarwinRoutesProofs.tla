-------------------------- MODULE DarwinRoutesProofs --------------------------
(***************************************************************************)
(* Proofs about DarwinRoutes: for any number of sessions, any routes, DNS  *)
(* servers and answers, whatever the kernel and scutil refuse and whenever *)
(* the process crashes.  What needs sessions that follow one another says  *)
(* so with Orderly.                                                        *)
(***************************************************************************)
EXTENDS DarwinRoutes, TLAPS

(***************************************************************************)
(* The inductive invariant.                                                *)
(***************************************************************************)

Phases == {"new", "set", "dns", "scutil", "up", "failed", "dnsErr", "reset", "restore",
           "ended"}
Typs   == {"ADD", "DELETE"}
AckSet == {"ok", "EEXIST", "ESRCH", "error", "lost"}

Types ==
  /\ table \in [Dests -> Gateways \cup {NoRoute, System}]
  /\ fd => tunnelGateway \in Gateways
  /\ installed \subseteq [dst : Dests, gw : Gateways]
  /\ dns \subseteq Sessions
  /\ phase \in [Sessions -> Phases]
  /\ local \in [Sessions -> LocalGateways \cup {NoRoute}]
  /\ gone \subseteq Sessions
  /\ job \in [kind : {"none", "set", "dns", "reset", "dyn"}, sess : 0..MaxSessions,
              stage : {"idle", "write", "undo"}]
  /\ todo \subseteq [n : Nat, typ : Typs, dst : Dests, gw : Gateways]
  /\ written \subseteq [typ : Typs, dst : Dests, gw : Gateways, ack : AckSet]

\* Who holds the mutex, for which session, and with what in the pipe.
Holder ==
  /\ job.kind = "none" <=> job = Idle
  /\ job.stage = "idle" <=> job = Idle
  /\ job = Idle => todo = {} /\ written = {} /\ ~aborted
  /\ aborted => todo = {}
  /\ job.kind \in {"set", "dns", "reset"} => job.sess \in Sessions
  /\ job.kind = "set" => phase[job.sess] = "set"
  /\ job.kind = "reset" => phase[job.sess] = "reset" /\ job.stage = "write"
  /\ job.kind = "dns" => phase[job.sess] = "scutil"
  /\ \A s \in Sessions :
       /\ phase[s] \in {"set", "reset"} => job.sess = s /\ job.kind = phase[s]
       /\ phase[s] \in {"set", "dns", "scutil", "up"} => local[s] \in LocalGateways
  /\ DNS = <<>> => dns = {} /\ \A s \in Sessions : phase[s] \notin {"dns", "scutil"}
  /\ ~fd => installed = {} /\ todo = {} /\ written = {} /\ job.kind \in {"none", "reset"}

\* What a batch consists of.
Contents ==
  /\ job.kind = "reset" \/ job.stage = "undo" =>
       /\ \A r \in todo : r.typ = "DELETE"
       /\ \A r \in written : r.typ = "DELETE"
  /\ job.kind \in {"dns", "dyn"} /\ job.stage = "write" =>
       /\ \A r \in todo : r.typ = "ADD"
       /\ \A r \in written : r.typ = "ADD"
  /\ job.kind = "dyn" /\ job.stage = "write" => \A r \in todo : r.dst \in Items(Answers)
  /\ job.kind = "set" /\ job.stage = "write" =>
       todo \subseteq SetRoutesRequests(job.sess, local[job.sess])

\* The host's own routes, but for one to the server, are where they were, and
\* nothing we keep, confirm or are about to delete is one of them.
HostRoutes == SystemRoutes \ {Server}

Foreign ==
  /\ \A d \in Dests : table[d] = System => d \in SystemRoutes
  /\ \A d \in HostRoutes : table[d] = System
  /\ \A r \in installed : r.dst \notin HostRoutes
  /\ \A r \in todo : r.typ = "DELETE" => r.dst \notin HostRoutes
  /\ \A r \in written : r.ack = "ok" => r.dst \notin HostRoutes

Added(d)     == \E r \in written : r.typ = "ADD" /\ r.ack = "ok" /\ r.dst = d
Deleted(d)   == \E r \in written : r.typ = "DELETE" /\ r.ack = "ok" /\ r.dst = d
ToDelete(d)  == \E r \in todo : r.typ = "DELETE" /\ r.dst = d
Installed(d) == \E r \in installed : r.dst = d

\* Every route of ours in the kernel is accounted for: it is about to be deleted
\* by a reset or a roll back, the batch under way has it confirmed, or it is in
\* installed and will stay there.
Accounted ==
  ~spoilt =>
    \A d \in Dests :
      table[d] \in Gateways =>
        \/ (job.kind = "reset" \/ job.stage = "undo") /\ ToDelete(d)
        \/ job.stage = "write" /\ Added(d)
        \/ job.kind # "reset" /\ Installed(d) /\ ~Deleted(d)

\* With sessions one after another: one at most is neither new nor ended, and the
\* socket is open only for it.
OneSession ==
  Orderly =>
    /\ \A s, t \in Sessions :
         phase[s] \notin {"new", "ended"} /\ phase[t] \notin {"new", "ended"} => s = t
    /\ fd => \E s \in Sessions : phase[s] \notin {"new", "ended", "restore"}
    /\ \A s \in Sessions : phase[s] \in {"set", "dns", "scutil", "up", "dnsErr"} => fd
    /\ ~spoilt =>
         \A s \in dns : phase[s] = "restore" \/ (phase[s] \in {"up", "reset"} /\ fd)

\* Then SetRoutes starts from a clean table, so that all there is comes from its
\* own batch, and after a failure all there is comes from the sniffers.
OwnBatch ==
  Orderly /\ ~spoilt =>
    \A d \in Dests :
      table[d] \in Gateways =>
        /\ job.kind = "set" => \/ job.stage = "write" /\ Added(d)
                               \/ job.stage = "undo" /\ ToDelete(d)
        /\ \A s \in Sessions : phase[s] = "failed" => d \in Items(Answers)

\* What the session settled is not touched by the batches that follow.
Untouched(d) == ~Added(d) /\ ~ToDelete(d)

ServerDelete(g) == [n |-> 1, typ |-> "DELETE", dst |-> Server, gw |-> g]
ServerAdd(g)    == [n |-> 2, typ |-> "ADD", dst |-> Server, gw |-> g]

\* The server's route: deleted, then added, then left alone.
ServerRoute ==
  Orderly =>
    /\ job.kind = "set" /\ job.stage = "write" /\ ~Failed =>
         LET g == local[job.sess] IN
         /\ ServerDelete(g) \in todo \/ table[Server] = NoRoute => ServerAdd(g) \in todo
         /\ ServerDelete(g) \notin todo => table[Server] \in {NoRoute, g}
    /\ \A s \in Sessions :
         phase[s] \in {"dns", "scutil", "up"} => table[Server] = local[s] /\ Untouched(Server)

Included == Items(Include) \ (SystemRoutes \cup {Server})
Excluded == Items(Exclude) \ (SystemRoutes \cup {Server} \cup Items(Include))

\* The split routes of a session: added one after the other, then left alone.
SplitRoutes ==
  Orderly /\ ~spoilt =>
    /\ job.kind = "set" /\ job.stage = "write" /\ ~Failed /\ job.sess \notin gone =>
         LET s == job.sess IN
         /\ \A d \in Included :
              \/ table[d] = s
              \/ /\ table[d] = NoRoute
                 /\ \E r \in todo : r.dst = d /\ r.n <= 2 + Len(Include)
         /\ \A d \in Excluded :
              \/ table[d] = local[s]
              \/ table[d] = NoRoute /\ \E r \in todo : r.dst = d
    /\ \A s \in Sessions \ gone :
         phase[s] \in {"dns", "scutil", "up"} =>
           /\ \A d \in Included : table[d] = s /\ Untouched(d)
           /\ \A d \in Excluded : table[d] = local[s] /\ Untouched(d)

Inv == Types /\ Holder /\ Contents /\ Foreign /\ Accounted /\ OneSession /\ OwnBatch
         /\ ServerRoute /\ SplitRoutes

(***************************************************************************)
(* Lemmas about the operators of the model.                                *)
(***************************************************************************)

Request == [n : Nat, typ : Typs, dst : Dests, gw : Gateways]

\* Batch: a numbered request for each of the destinations.
LEMMA BatchRequests ==
  ASSUME NEW typ \in Typs, NEW first \in Nat, NEW q \in Seq(Dests), NEW gw \in Gateways
  PROVE  /\ Batch(typ, first, q, gw) \subseteq Request
         /\ \A r \in Batch(typ, first, q, gw) :
              /\ r.typ = typ /\ r.gw = gw /\ r.dst \in Items(q)
              /\ first < r.n /\ r.n <= first + Len(q)
         /\ \A d \in Items(q) : \E r \in Batch(typ, first, q, gw) : r.dst = d
  <1> DEFINE req(i) == [n |-> first + i, typ |-> typ, dst |-> q[i], gw |-> gw]
  <1>1. Batch(typ, first, q, gw) = {req(i) : i \in 1..Len(q)}
    BY DEF Batch
  <1>2. \A i \in 1..Len(q) : q[i] \in Dests /\ q[i] \in Items(q) /\ first + i \in Nat
    BY DEF Items
  <1>3. \A d \in Items(q) : \E i \in 1..Len(q) : d = q[i]
    BY DEF Items
  <1>4. \A d \in Items(q) : \E r \in Batch(typ, first, q, gw) : r.dst = d
    <2> TAKE d \in Items(q)
    <2>1. PICK i \in 1..Len(q) : d = q[i]
      BY <1>3
    <2>2. req(i) \in Batch(typ, first, q, gw) /\ req(i).dst = d
      BY <1>1, <2>1
    <2> QED
      BY <2>2
  <1>5. Batch(typ, first, q, gw) \subseteq Request
    BY <1>1, <1>2 DEF Request
  <1>6. \A r \in Batch(typ, first, q, gw) :
          /\ r.typ = typ /\ r.gw = gw /\ r.dst \in Items(q)
          /\ first < r.n /\ r.n <= first + Len(q)
    BY <1>1, <1>2
  <1> QED
    BY <1>4, <1>5, <1>6

\* The lists of the session consist of destinations.
LEMMA Lists ==
  /\ Include \in Seq(Dests) /\ Exclude \in Seq(Dests)
  /\ DNS \in Seq(Dests) /\ Answers \in Seq(Dests)
  BY RoutesAssumption DEF Dests

\* SetRoutes deletes the server's route, adds it, then adds what the session
\* includes and, after that, what it excludes.
LEMMA SetRequests ==
  ASSUME NEW s \in Sessions, NEW g \in LocalGateways
  PROVE  /\ SetRoutesRequests(s, g) \subseteq Request
         /\ ServerDelete(g) \in SetRoutesRequests(s, g)
         /\ ServerAdd(g) \in SetRoutesRequests(s, g)
         /\ \A r \in SetRoutesRequests(s, g) :
              \/ r = ServerDelete(g)
              \/ r = ServerAdd(g)
              \/ r.typ = "ADD" /\ r.gw = s /\ r.dst \in Items(Include)
                   /\ 2 < r.n /\ r.n <= 2 + Len(Include)
              \/ r.typ = "ADD" /\ r.gw = g /\ r.dst \in Items(Exclude) /\ r.n > 2 + Len(Include)
         /\ \A d \in Items(Include) :
              \E r \in SetRoutesRequests(s, g) : r.dst = d /\ r.n <= 2 + Len(Include)
         /\ \A d \in Items(Exclude) : \E r \in SetRoutesRequests(s, g) : r.dst = d
  <1> DEFINE one == <<Server>>
  <1>1. Len(Include) \in Nat /\ s \in Gateways /\ g \in Gateways
    BY Lists DEF Gateways
  <1>2. one \in Seq(Dests) /\ DOMAIN one = {1} /\ one[1] = Server
    BY DEF Dests
  <1>3. Batch("DELETE", 0, one, g) = {ServerDelete(g)}
    BY <1>2 DEF Batch, ServerDelete
  <1>4. Batch("ADD", 1, one, g) = {ServerAdd(g)}
    BY <1>2 DEF Batch, ServerAdd
  <1>5. ServerDelete(g) \in Request /\ ServerAdd(g) \in Request
    BY <1>1 DEF ServerDelete, ServerAdd, Request, Typs, Dests
  <1>6. SetRoutesRequests(s, g) =
          {ServerDelete(g), ServerAdd(g)} \cup Batch("ADD", 2, Include, s)
            \cup Batch("ADD", 2 + Len(Include), Exclude, g)
    BY <1>3, <1>4 DEF SetRoutesRequests
  <1> HIDE DEF one
  <1>7. Typs = {"ADD", "DELETE"} /\ 2 + Len(Include) \in Nat
    BY <1>1 DEF Typs
  <1>8. /\ Batch("ADD", 2, Include, s) \subseteq Request
        /\ \A r \in Batch("ADD", 2, Include, s) :
             /\ r.typ = "ADD" /\ r.gw = s /\ r.dst \in Items(Include)
             /\ 2 < r.n /\ r.n <= 2 + Len(Include)
        /\ \A d \in Items(Include) : \E r \in Batch("ADD", 2, Include, s) : r.dst = d
    BY <1>1, <1>7, Lists, BatchRequests
  <1>9. /\ Batch("ADD", 2 + Len(Include), Exclude, g) \subseteq Request
        /\ \A r \in Batch("ADD", 2 + Len(Include), Exclude, g) :
             r.typ = "ADD" /\ r.gw = g /\ r.dst \in Items(Exclude) /\ 2 + Len(Include) < r.n
        /\ \A d \in Items(Exclude) :
             \E r \in Batch("ADD", 2 + Len(Include), Exclude, g) : r.dst = d
    BY <1>1, <1>7, Lists, BatchRequests
  <1>10. \A d \in Items(Include) :
           \E r \in SetRoutesRequests(s, g) : r.dst = d /\ r.n <= 2 + Len(Include)
    BY <1>6, <1>8
  <1>11. \A d \in Items(Exclude) : \E r \in SetRoutesRequests(s, g) : r.dst = d
    BY <1>6, <1>9
  <1>12. \A r \in SetRoutesRequests(s, g) :
           \/ r = ServerDelete(g)
           \/ r = ServerAdd(g)
           \/ r.typ = "ADD" /\ r.gw = s /\ r.dst \in Items(Include)
                /\ 2 < r.n /\ r.n <= 2 + Len(Include)
           \/ r.typ = "ADD" /\ r.gw = g /\ r.dst \in Items(Exclude) /\ r.n > 2 + Len(Include)
    <2> TAKE r \in SetRoutesRequests(s, g)
    <2>1. CASE r \in Batch("ADD", 2 + Len(Include), Exclude, g)
      <3>1. r.n \in Nat /\ 2 + Len(Include) < r.n
        BY <2>1, <1>9 DEF Request
      <3> QED
        BY <2>1, <3>1, <1>9, <1>7
    <2>2. CASE r \notin Batch("ADD", 2 + Len(Include), Exclude, g)
      BY <2>2, <1>6, <1>8
    <2> QED
      BY <2>1, <2>2
  <1>13. SetRoutesRequests(s, g) \subseteq Request
    BY <1>5, <1>6, <1>8, <1>9
  <1> QED
    BY <1>6, <1>10, <1>11, <1>12, <1>13

\* Flush drops the routes through the given tunnels and leaves the others.
LEMMA Flushed ==
  ASSUME NEW ss \in SUBSET Sessions, table \in [Dests -> Gateways \cup {NoRoute, System}]
  PROVE  /\ Flush(ss) \in [Dests -> Gateways \cup {NoRoute, System}]
         /\ \A d \in Dests : /\ Flush(ss)[d] \in Gateways => Flush(ss)[d] = table[d]
                             /\ table[d] \notin ss => Flush(ss)[d] = table[d]
                             /\ Flush(ss)[d] = System <=> table[d] = System
  BY GatewaysAssumption DEF Flush, Gateways

\* Every confirmed ADD is one of Routes("ADD"), and those are all.
LEMMA ConfirmedAdds ==
  ASSUME written \subseteq [typ : Typs, dst : Dests, gw : Gateways, ack : AckSet]
  PROVE  /\ Routes("ADD") \subseteq [dst : Dests, gw : Gateways]
         /\ \A r \in Routes("ADD") : Added(r.dst)
         /\ \A r \in Routes("DELETE") : Deleted(r.dst)
         /\ \A d \in Dests : Added(d) => \E r \in Routes("ADD") : r.dst = d
  <1>1. /\ Routes("ADD") \subseteq [dst : Dests, gw : Gateways]
        /\ \A r \in Routes("ADD") : Added(r.dst)
        /\ \A r \in Routes("DELETE") : Deleted(r.dst)
    BY DEF Routes, Added, Deleted
  <1>2. ASSUME NEW d \in Dests, Added(d) PROVE \E r \in Routes("ADD") : r.dst = d
    <2>1. PICK w \in written : w.typ = "ADD" /\ w.ack = "ok" /\ w.dst = d
      BY <1>2 DEF Added
    <2>2. [dst |-> w.dst, gw |-> w.gw] \in Routes("ADD")
      BY <2>1 DEF Routes
    <2> QED
      BY <2>1, <2>2
  <1> QED
    BY <1>1, <1>2

\* The roll back deletes exactly what the batch has confirmed.
LEMMA RollsBack ==
  ASSUME written \subseteq [typ : Typs, dst : Dests, gw : Gateways, ack : AckSet]
  PROVE  /\ RollbackRequests \subseteq Request
         /\ \A r \in RollbackRequests : r.typ = "DELETE" /\ Added(r.dst)
         /\ \A d \in Dests : Added(d) => \E r \in RollbackRequests : r.dst = d
  <1> DEFINE undo(r) == [n |-> 0, typ |-> "DELETE", dst |-> r.dst, gw |-> r.gw]
  <1>1. RollbackRequests = {undo(r) : r \in Routes("ADD")}
    BY DEF RollbackRequests
  <1>2. \A r \in Routes("ADD") : r.dst \in Dests /\ r.gw \in Gateways /\ Added(r.dst)
    BY ConfirmedAdds
  <1>3. \A d \in Dests : Added(d) => \E r \in RollbackRequests : r.dst = d
    <2> SUFFICES ASSUME NEW d \in Dests, Added(d)
                 PROVE  \E r \in RollbackRequests : r.dst = d
      OBVIOUS
    <2>1. PICK r \in Routes("ADD") : r.dst = d
      BY ConfirmedAdds
    <2>2. undo(r) \in RollbackRequests /\ undo(r).dst = d
      BY <1>1, <2>1
    <2> QED
      BY <2>2
  <1>4. RollbackRequests \subseteq Request
    BY <1>1, <1>2 DEF Request, Typs
  <1>5. \A r \in RollbackRequests : r.typ = "DELETE" /\ Added(r.dst)
    BY <1>1, <1>2
  <1> QED
    BY <1>3, <1>4, <1>5

\* What was installed and not deleted stays, and what a batch that did not break
\* off has confirmed joins it.
LEMMA Collects ==
  ASSUME written \subseteq [typ : Typs, dst : Dests, gw : Gateways, ack : AckSet],
         installed \subseteq [dst : Dests, gw : Gateways]
  PROVE  /\ Collected \subseteq [dst : Dests, gw : Gateways]
         /\ \A r \in Collected : r \in installed \/ Added(r.dst)
         /\ \A d \in Dests : Installed(d) /\ ~Deleted(d) => \E r \in Collected : r.dst = d
         /\ \A d \in Dests : Added(d) /\ ~aborted => \E r \in Collected : r.dst = d
  BY ConfirmedAdds DEF Collected, ApplyResults, Installed

(***************************************************************************)
(* One turn of the write loop.                                             *)
(***************************************************************************)

Entry(r, b) == [typ |-> r.typ, dst |-> r.dst, gw |-> r.gw, ack |-> b]

\* The kernel did what r asks for; the answer says so, or is lost.
Obeyed(r) ==
  /\ table[r.dst] = NoRoute <=> r.typ = "ADD"
  /\ table' = [table EXCEPT ![r.dst] = IF r.typ = "ADD" THEN r.gw ELSE NoRoute]
  /\ todo' = todo \ {r} /\ aborted' = aborted
  /\ \/ written' = written \cup {Entry(r, "ok")} /\ (spoilt => spoilt')
     \/ written' = written \cup {Entry(r, "lost")} /\ spoilt'

\* There was nothing to do, and write or the answer says so.
Needless(r) ==
  /\ table[r.dst] = NoRoute <=> r.typ = "DELETE"
  /\ table' = table /\ todo' = todo \ {r}
  /\ \/ written' = written /\ ~aborted'
     \/ aborted' = aborted /\ \E b \in {"EEXIST", "ESRCH"} : written' = written \cup {Entry(r, b)}
  /\ spoilt => spoilt'

\* The kernel refused, or its answer is lost: the batch has failed.
Refused(r) ==
  /\ table' = table
  /\ \/ todo' = {} /\ aborted' /\ written' = written
     \/ /\ todo' = todo \ {r} /\ aborted' = aborted
        /\ \E b \in {"error", "lost"} : written' = written \cup {Entry(r, b)}
  /\ spoilt \/ r.typ = "DELETE" => spoilt'

Turn(r) ==
  /\ job.stage \in {"write", "undo"}
  /\ \A q \in todo : r.n <= q.n
  /\ Obeyed(r) \/ Needless(r) \/ Refused(r)
  /\ UNCHANGED <<sockVars, dns, sessVars, job>>

LEMMA WriteTurns ==
  ASSUME Types, WriteRequest
  PROVE  \E r \in todo : Turn(r)
  <1>1. PICK r \in todo, a \in {"ok", "EEXIST", "ESRCH", "error"} :
          /\ job.stage \in {"write", "undo"}
          /\ \A q \in todo : r.n <= q.n
          /\ a \in KernelAnswers(r)
          /\ IF a = "ok" THEN Done(r) ELSE UNCHANGED table
          /\ \/ /\ a # "ok"
                /\ aborted' = ~Tolerated(r, a)
                /\ todo' = IF aborted' THEN {} ELSE todo \ {r}
                /\ UNCHANGED written
                /\ spoilt' = (spoilt \/ (aborted' /\ r.typ = "DELETE"))
             \/ \E b \in Acks(a) :
                  /\ written' = written \cup {Entry(r, b)}
                  /\ todo' = todo \ {r}
                  /\ spoilt' = (spoilt \/ b = "lost" \/ (b = "error" /\ r.typ = "DELETE"))
                  /\ UNCHANGED aborted
          /\ UNCHANGED <<sockVars, dns, sessVars, job>>
    BY DEF WriteRequest, Entry
  <1>2. r.typ \in Typs
    BY DEF Types
  <1>3. CASE a = "ok"
    <2>1. table[r.dst] = NoRoute <=> r.typ = "ADD"
      BY <1>1, <1>2, <1>3 DEF KernelAnswers, Typs
    <2>2. table' = [table EXCEPT ![r.dst] = IF r.typ = "ADD" THEN r.gw ELSE NoRoute]
      BY <1>1, <1>3 DEF Done
    <2>3. PICK b \in {"ok", "lost"} :
            /\ written' = written \cup {Entry(r, b)} /\ todo' = todo \ {r} /\ aborted' = aborted
            /\ spoilt' = (spoilt \/ b = "lost" \/ (b = "error" /\ r.typ = "DELETE"))
      BY <1>1, <1>3 DEF Acks
    <2>4. Obeyed(r)
      BY <2>1, <2>2, <2>3 DEF Obeyed
    <2> QED
      BY <1>1, <2>4 DEF Turn
  <1>4. CASE a = "error"
    <2>1. Refused(r)
      BY <1>1, <1>2, <1>4 DEF Refused, Acks, Tolerated
    <2> QED
      BY <1>1, <2>1 DEF Turn
  <1>5. CASE a \in {"EEXIST", "ESRCH"}
    <2>1. Tolerated(r, a) /\ (table[r.dst] = NoRoute <=> r.typ = "DELETE")
      BY <1>1, <1>2, <1>5 DEF KernelAnswers, Tolerated, Typs
    <2>2. table' = table
      BY <1>1, <1>5
    <2>3. ASSUME todo' = (IF aborted' THEN {} ELSE todo \ {r}) /\ aborted' = ~Tolerated(r, a)
               /\ written' = written /\ spoilt' = (spoilt \/ (aborted' /\ r.typ = "DELETE"))
          PROVE  Needless(r)
      BY <2>1, <2>2, <2>3 DEF Needless
    <2>4. ASSUME \E b \in Acks(a) :
                 /\ written' = written \cup {Entry(r, b)}
                 /\ todo' = todo \ {r}
                 /\ spoilt' = (spoilt \/ b = "lost" \/ (b = "error" /\ r.typ = "DELETE"))
                 /\ UNCHANGED aborted
          PROVE  Needless(r) \/ Refused(r)
      <3>1. PICK b \in {"EEXIST", "ESRCH", "lost"} :
              /\ written' = written \cup {Entry(r, b)} /\ todo' = todo \ {r}
              /\ spoilt' = (spoilt \/ b = "lost") /\ aborted' = aborted
        BY <2>4, <1>5 DEF Acks
      <3>2. CASE b = "lost"
        BY <2>2, <3>1, <3>2 DEF Refused
      <3>3. CASE b # "lost"
        BY <2>1, <2>2, <3>1, <3>3 DEF Needless
      <3> QED
        BY <3>2, <3>3
    <2>5. Needless(r) \/ Refused(r)
      BY <1>1, <1>5, <2>3, <2>4
    <2> QED
      BY <1>1, <2>5 DEF Turn
  <1> QED
    BY <1>3, <1>4, <1>5

\* A batch that has failed stays failed, and a refusal is a failure.
LEMMA StaysFailed ==
  ASSUME Types, NEW r \in todo, Obeyed(r) \/ Needless(r) \/ Refused(r), aborted => todo = {}
  PROVE  Failed \/ Refused(r) => Failed'
  <1>1. ~aborted
    OBVIOUS
  <1>2. ASSUME Failed PROVE Failed'
    <2>1. PICK w \in written : w.ack # "ok" /\ ~Tolerated(w, w.ack)
      BY <1>1, <1>2 DEF Failed
    <2>2. w \in written'
      BY DEF Obeyed, Needless, Refused
    <2> QED
      BY <2>1, <2>2 DEF Failed, Tolerated
  <1>3. ASSUME Refused(r) PROVE Failed'
    <2>1. CASE aborted'
      BY <2>1 DEF Failed
    <2>2. CASE \E b \in {"error", "lost"} : written' = written \cup {Entry(r, b)}
      <3>1. PICK b \in {"error", "lost"} : Entry(r, b) \in written'
        BY <2>2
      <3>2. Entry(r, b).ack = b
        BY DEF Entry
      <3> QED
        BY <3>1, <3>2 DEF Failed, Tolerated
    <2> QED
      BY <1>3, <2>1, <2>2 DEF Refused
  <1> QED
    BY <1>2, <1>3

\* A turn of the write loop preserves the invariant.
LEMMA WriteInv == Inv /\ WriteRequest => Inv'
  <1> SUFFICES ASSUME Inv, WriteRequest PROVE Inv'
    OBVIOUS
  <1>1. PICK r \in todo : Turn(r)
    BY WriteTurns DEF Inv
  <1>2. /\ r.typ \in {"ADD", "DELETE"} /\ r.dst \in Dests /\ r.gw \in Gateways /\ r.n \in Nat
        /\ \A b \in AckSet : /\ Entry(r, b).typ = r.typ /\ Entry(r, b).dst = r.dst
                             /\ Entry(r, b).gw = r.gw /\ Entry(r, b).ack = b
    BY DEF Inv, Types, Typs, Entry
  <1>3. fd' = fd /\ tunnelGateway' = tunnelGateway /\ localGateway' = localGateway
          /\ installed' = installed /\ dns' = dns /\ phase' = phase /\ local' = local
          /\ gone' = gone /\ job' = job /\ (spoilt => spoilt') /\ job.stage \in {"write", "undo"}
    BY <1>1 DEF Turn, Obeyed, Needless, Refused, sockVars, sessVars
  <1>4. todo' \subseteq todo /\ (todo' = todo \ {r} \/ (todo' = {} /\ Refused(r))) /\ ~aborted
          /\ (aborted' => todo' = {})
    <2>1. ~aborted
      BY DEF Inv, Holder
    <2>2. todo' = todo \ {r} \/ (todo' = {} /\ Refused(r))
      BY <1>1 DEF Turn, Obeyed, Needless, Refused
    <2>3. aborted' = aborted \/ ~aborted' \/ todo' = {}
      BY <1>1 DEF Turn, Obeyed, Needless, Refused
    <2> QED
      BY <2>1, <2>2, <2>3
  <1>5. /\ \A d \in Dests : d # r.dst => table'[d] = table[d]
        /\ table' \in [Dests -> Gateways \cup {NoRoute, System}]
        /\ Obeyed(r) => /\ table'[r.dst] = IF r.typ = "ADD" THEN r.gw ELSE NoRoute
                        /\ table[r.dst] = NoRoute <=> r.typ = "ADD"
        /\ ~Obeyed(r) => table' = table /\ (Needless(r) \/ Refused(r))
    BY <1>1, <1>2 DEF Turn, Obeyed, Needless, Refused, Inv, Types
  <1>6. \E b \in AckSet : /\ written' \subseteq written \cup {Entry(r, b)}
                          /\ b = "ok" => Obeyed(r)
    BY <1>1 DEF Turn, Obeyed, Needless, Refused, AckSet
  <1>7. /\ written \subseteq written'
        /\ Obeyed(r) /\ ~spoilt' => Entry(r, "ok") \in written'
    BY <1>1 DEF Turn, Obeyed, Needless, Refused
  <1>8. \A d \in Dests :
          /\ Added(d)' => Added(d) \/ (r.typ = "ADD" /\ d = r.dst /\ Obeyed(r))
          /\ Added(d) => Added(d)'
          /\ Deleted(d)' => Deleted(d) \/ (r.typ = "DELETE" /\ d = r.dst /\ Obeyed(r))
          /\ ToDelete(d)' => ToDelete(d)
          /\ ToDelete(d) => ToDelete(d)' \/ d = r.dst \/ Refused(r)
    BY <1>2, <1>4, <1>6, <1>7 DEF Added, Deleted, ToDelete
  <1>9. Obeyed(r) /\ ~spoilt' /\ r.typ = "ADD" => Added(r.dst)'
    BY <1>2, <1>7 DEF Added, AckSet
  <1>10. Refused(r) /\ r.typ = "DELETE" => spoilt'
    BY DEF Refused
  <1>11. Failed \/ Refused(r) => Failed'
    BY <1>1, StaysFailed DEF Turn, Inv, Holder
  <1>12. Types'
    <2>1. written' \subseteq [typ : Typs, dst : Dests, gw : Gateways, ack : AckSet]
      BY <1>2, <1>6 DEF Inv, Types, Entry, Typs
    <2> QED
      BY <1>3, <1>4, <1>5, <2>1 DEF Inv, Types
  <1>13. Holder'
    BY <1>1, <1>3, <1>4 DEF Inv, Holder, Idle
  <1>14. Contents'
    BY <1>2, <1>3, <1>4, <1>6 DEF Inv, Contents
  <1>15. Foreign'
    <2>1. Obeyed(r) => r.dst \notin HostRoutes
      BY <1>2, <1>5, GatewaysAssumption DEF Inv, Foreign
    <2>2. HostRoutes \subseteq Dests
      BY DEF HostRoutes, Dests
    <2>3. /\ \A d \in HostRoutes : table'[d] = System
          /\ \A d \in Dests : table'[d] = System => d \in SystemRoutes
      BY <1>2, <1>5, <2>1, <2>2, GatewaysAssumption DEF Inv, Foreign
    <2>4. \A w \in written' : w.ack = "ok" => w.dst \notin HostRoutes
      BY <1>2, <1>6, <2>1 DEF Inv, Foreign
    <2> QED
      BY <1>3, <1>4, <2>3, <2>4 DEF Inv, Foreign
  <1>16. Accounted'
    <2> SUFFICES ASSUME ~spoilt', NEW d \in Dests, table'[d] \in Gateways
                 PROVE  \/ (job.kind = "reset" \/ job.stage = "undo") /\ ToDelete(d)'
                        \/ job.stage = "write" /\ Added(d)'
                        \/ job.kind # "reset" /\ Installed(d) /\ ~Deleted(d)'
      BY <1>3 DEF Accounted, Installed
    <2>1. NoRoute \notin Gateways
      BY GatewaysAssumption
    <2>2. ~spoilt
      BY <1>3
    <2>3. CASE job.kind = "reset" \/ job.stage = "undo"
      <3>1. r.typ = "DELETE"
        BY <2>3 DEF Inv, Contents
      <3>2. d # r.dst /\ ~Refused(r)
        BY <1>1, <1>2, <1>5, <1>10, <2>1, <3>1 DEF Turn, Needless
      <3> QED
        BY <1>3, <1>5, <1>8, <2>2, <2>3, <3>1, <3>2 DEF Inv, Accounted, Contents, Added
    <2>4. CASE ~(job.kind = "reset" \/ job.stage = "undo")
      <3>1. CASE d = r.dst /\ Obeyed(r)
        BY <1>2, <1>3, <1>5, <1>9, <2>1, <2>4, <3>1
      <3>2. CASE ~(d = r.dst /\ Obeyed(r))
        BY <1>2, <1>3, <1>5, <1>8, <2>2, <2>4, <3>2 DEF Inv, Accounted
      <3> QED
        BY <3>1, <3>2
    <2> QED
      BY <2>3, <2>4
  <1>17. OneSession'
    BY <1>3 DEF Inv, OneSession
  <1>18. OwnBatch'
    <2> SUFFICES ASSUME Orderly, ~spoilt', NEW d \in Dests, table'[d] \in Gateways
                 PROVE  /\ job.kind = "set" => \/ job.stage = "write" /\ Added(d)'
                                               \/ job.stage = "undo" /\ ToDelete(d)'
                        /\ \A s \in Sessions : phase[s] = "failed" => d \in Items(Answers)
      BY <1>3 DEF OwnBatch
    <2>1. NoRoute \notin Gateways
      BY GatewaysAssumption
    <2>2. ~spoilt
      BY <1>3
    <2>3. ASSUME job.kind = "set", job.stage = "write" PROVE Added(d)'
      <3>1. CASE d = r.dst /\ Obeyed(r)
        BY <1>2, <1>5, <1>9, <2>1, <3>1
      <3>2. CASE ~(d = r.dst /\ Obeyed(r))
        BY <1>2, <1>5, <1>8, <2>2, <2>3, <3>2 DEF Inv, OwnBatch
      <3> QED
        BY <3>1, <3>2
    <2>4. ASSUME job.kind = "set", job.stage = "undo" PROVE ToDelete(d)'
      <3>1. r.typ = "DELETE"
        BY <2>4 DEF Inv, Contents
      <3>2. d # r.dst /\ ~Refused(r)
        BY <1>1, <1>2, <1>5, <1>10, <2>1, <3>1 DEF Turn, Needless
      <3> QED
        BY <1>5, <1>8, <2>2, <2>4, <3>2 DEF Inv, OwnBatch
    <2>5. ASSUME NEW s \in Sessions, phase[s] = "failed" PROVE d \in Items(Answers)
      <3>1. CASE d = r.dst /\ Obeyed(r)
        <4>1. r.typ = "ADD"
          BY <1>5, <2>1, <3>1
        <4>2. job.kind = "dyn" /\ job.stage = "write"
          BY <1>3, <2>5, <4>1 DEF Inv, Types, Holder, OneSession, Contents, Idle
        <4> QED
          BY <3>1, <4>2 DEF Inv, Contents
      <3>2. CASE ~(d = r.dst /\ Obeyed(r))
        BY <1>5, <2>2, <2>5, <3>2 DEF Inv, OwnBatch
      <3> QED
        BY <3>1, <3>2
    <2> QED
      BY <1>3, <2>3, <2>4, <2>5
  <1>19. ServerRoute'
    <2>1. ASSUME Orderly, job.kind = "set", job.stage = "write", ~Failed'
          PROVE  LET g == local[job.sess] IN
                 /\ ServerDelete(g) \in todo' \/ table'[Server] = NoRoute => ServerAdd(g) \in todo'
                 /\ ServerDelete(g) \notin todo' => table'[Server] \in {NoRoute, g}
      <3> DEFINE g == local[job.sess]
      <3>1. job.sess \in Sessions /\ g \in LocalGateways /\ g # NoRoute /\ Server \in Dests
        BY <2>1, GatewaysAssumption DEF Inv, Holder, Gateways, Dests
      <3>2. todo \subseteq SetRoutesRequests(job.sess, g)
        BY <2>1 DEF Inv, Contents
      <3>3. \/ r = ServerDelete(g)
            \/ r = ServerAdd(g)
            \/ r.n > 2 /\ r.typ = "ADD"
        <4>1. \/ r = ServerDelete(g)
              \/ r = ServerAdd(g)
              \/ 2 < r.n /\ r.typ = "ADD"
              \/ r.n > 2 + Len(Include) /\ r.typ = "ADD"
          BY <3>1, <3>2, SetRequests
        <4>2. Len(Include) \in Nat
          BY Lists
        <4> QED
          BY <1>2, <4>1, <4>2
      <3>4. /\ ServerDelete(g) \in todo \/ table[Server] = NoRoute => ServerAdd(g) \in todo
            /\ ServerDelete(g) \notin todo => table[Server] \in {NoRoute, g}
            /\ ~Refused(r) /\ todo' = todo \ {r}
        BY <1>4, <1>11, <2>1 DEF Inv, ServerRoute
      <3>5. /\ ServerDelete(g).n = 1 /\ ServerDelete(g).typ = "DELETE" /\ ServerDelete(g).dst = Server
            /\ ServerAdd(g).n = 2 /\ ServerAdd(g).typ = "ADD" /\ ServerAdd(g).dst = Server
            /\ ServerAdd(g).gw = g /\ ServerAdd(g) # ServerDelete(g)
        BY DEF ServerDelete, ServerAdd
      <3>6. \A q \in todo : r.n <= q.n
        BY <1>1 DEF Turn
      <3>7. Needless(r) => (table[r.dst] = NoRoute <=> r.typ = "DELETE")
        BY DEF Needless
      <3> SUFFICES
            /\ ServerDelete(g) \in todo' \/ table'[Server] = NoRoute => ServerAdd(g) \in todo'
            /\ ServerDelete(g) \notin todo' => table'[Server] \in {NoRoute, g}
        OBVIOUS
      <3> HIDE DEF g
      <3>8. CASE r = ServerDelete(g)
        BY <1>5, <3>1, <3>4, <3>5, <3>7, <3>8
      <3>9. CASE r = ServerAdd(g)
        <4>1. ServerDelete(g) \notin todo
          BY <3>5, <3>6, <3>9
        <4> QED
          BY <1>5, <3>1, <3>4, <3>5, <3>7, <3>9, <4>1
      <3>10. CASE r.n > 2 /\ r.typ = "ADD"
        <4>1. ServerDelete(g) \notin todo /\ ServerAdd(g) \notin todo
          BY <1>2, <3>5, <3>6, <3>10
        <4> QED
          BY <1>5, <3>1, <3>4, <3>10, <4>1
      <3> QED
        BY <3>3, <3>8, <3>9, <3>10
    <2>2. ASSUME Orderly, NEW s \in Sessions, phase[s] \in {"dns", "scutil", "up"}
          PROVE  table'[Server] = local[s] /\ ~Added(Server)' /\ ~ToDelete(Server)'
      <3>1. table[Server] = local[s] /\ ~Added(Server) /\ ~ToDelete(Server) /\ Server \in Dests
        BY <2>2 DEF Inv, ServerRoute, Untouched, Dests
      <3>2. table[Server] # NoRoute
        BY <2>2, <3>1, GatewaysAssumption DEF Inv, Holder, Gateways
      <3>3. ~(r.dst = Server /\ Obeyed(r))
        BY <1>2, <1>5, <3>1, <3>2 DEF ToDelete
      <3> QED
        BY <1>5, <1>8, <3>1, <3>3
    <2> QED
      BY <1>3, <2>1, <2>2 DEF ServerRoute, Untouched
  <1>20. SplitRoutes'
    <2> SUFFICES ASSUME Orderly, ~spoilt' PROVE SplitRoutes'
      BY DEF SplitRoutes
    <2>1. ~spoilt /\ Included \subseteq Dests /\ Excluded \subseteq Dests
      BY <1>3 DEF Included, Excluded, Dests
    <2>2. ASSUME job.kind = "set", job.stage = "write", ~Failed', job.sess \notin gone
          PROVE  /\ \A d \in Included :
                      \/ table'[d] = job.sess
                      \/ table'[d] = NoRoute /\ \E q \in todo' : q.dst = d /\ q.n <= 2 + Len(Include)
                 /\ \A d \in Excluded :
                      \/ table'[d] = local[job.sess]
                      \/ table'[d] = NoRoute /\ \E q \in todo' : q.dst = d
      <3> DEFINE g == local[job.sess]
                 s == job.sess
      <3>1. s \in Sessions /\ g \in LocalGateways /\ s # NoRoute /\ g # NoRoute
        BY <2>2, GatewaysAssumption DEF Inv, Holder, Gateways
      <3>2. todo \subseteq SetRoutesRequests(s, g)
        BY <2>2 DEF Inv, Contents
      <3>3. ~Refused(r) /\ todo' = todo \ {r} /\ ~Failed
        BY <1>4, <1>11, <2>2
      <3>4. /\ \A d \in Included :
                 \/ table[d] = s
                 \/ table[d] = NoRoute /\ \E q \in todo : q.dst = d /\ q.n <= 2 + Len(Include)
            /\ \A d \in Excluded :
                 table[d] = g \/ (table[d] = NoRoute /\ \E q \in todo : q.dst = d)
        <4>1. SplitRoutes
          BY DEF Inv
        <4> QED
          BY <2>1, <2>2, <3>3, <4>1 DEF SplitRoutes
      <3>5. \/ r.dst = Server
            \/ r.typ = "ADD" /\ r.gw = s /\ r.dst \in Items(Include)
            \/ r.typ = "ADD" /\ r.gw = g /\ r.dst \in Items(Exclude) /\ r.n > 2 + Len(Include)
        <4>1. \/ r = ServerDelete(g)
              \/ r = ServerAdd(g)
              \/ r.typ = "ADD" /\ r.gw = s /\ r.dst \in Items(Include)
              \/ r.typ = "ADD" /\ r.gw = g /\ r.dst \in Items(Exclude) /\ r.n > 2 + Len(Include)
          BY <3>1, <3>2, SetRequests
        <4>2. ServerDelete(g).dst = Server /\ ServerAdd(g).dst = Server
          BY DEF ServerDelete, ServerAdd
        <4> QED
          BY <4>1, <4>2
      <3>6. r.dst # Server => (Obeyed(r) => table[r.dst] = NoRoute /\ table'[r.dst] = r.gw)
                              /\ (Needless(r) => table[r.dst] # NoRoute)
        BY <1>5, <3>5 DEF Needless
      <3>7. Len(Include) \in Nat /\ \A q \in todo : r.n <= q.n /\ q.n \in Nat
        BY <1>1, Lists DEF Turn, Inv, Types
      <3>8. Server \notin Included /\ Server \notin Excluded
              /\ \A d \in Excluded : d \notin Items(Include)
        BY DEF Included, Excluded
      <3> HIDE DEF g, s
      <3>9. ASSUME NEW d \in Included
            PROVE  \/ table'[d] = s
                   \/ table'[d] = NoRoute /\ \E q \in todo' : q.dst = d /\ q.n <= 2 + Len(Include)
        <4>1. CASE d # r.dst
          BY <1>5, <2>1, <3>3, <3>4, <4>1
        <4>2. CASE d = r.dst /\ table[d] = s
          BY <1>5, <3>1, <3>3, <3>6, <3>8, <4>2
        <4>3. CASE d = r.dst /\ table[d] = NoRoute
          <5>1. PICK q \in todo : q.dst = d /\ q.n <= 2 + Len(Include)
            BY <3>1, <3>4, <4>3
          <5>2. r.n <= 2 + Len(Include)
            BY <1>2, <3>7, <5>1
          <5>3. r.gw = s /\ Obeyed(r)
            BY <1>2, <1>5, <3>3, <3>5, <3>6, <3>7, <3>8, <4>3, <5>2
          <5> QED
            BY <3>6, <3>8, <4>3, <5>3
        <4> QED
          BY <3>4, <4>1, <4>2, <4>3
      <3>10. ASSUME NEW d \in Excluded
             PROVE  table'[d] = g \/ (table'[d] = NoRoute /\ \E q \in todo' : q.dst = d)
        <4>1. CASE d # r.dst
          BY <1>5, <2>1, <3>3, <3>4, <4>1
        <4>2. CASE d = r.dst /\ table[d] = g
          BY <1>5, <3>1, <3>3, <3>6, <3>8, <4>2
        <4>3. CASE d = r.dst /\ table[d] = NoRoute
          <5>1. r.gw = g /\ Obeyed(r)
            BY <1>5, <3>3, <3>5, <3>6, <3>8, <4>3
          <5> QED
            BY <3>6, <3>8, <4>3, <5>1
        <4> QED
          BY <3>4, <4>1, <4>2, <4>3
      <3> QED
        BY <3>9, <3>10 DEF g, s
    <2>3. ASSUME NEW d \in Dests, NEW v \in Gateways, table[d] = v, Untouched(d)
          PROVE  table'[d] = v /\ Untouched(d)'
      <3>1. table[d] # NoRoute
        BY <2>3, GatewaysAssumption
      <3>2. ~(r.dst = d /\ Obeyed(r))
        BY <1>2, <1>5, <2>3, <3>1 DEF ToDelete, Untouched
      <3> QED
        BY <1>5, <1>8, <2>3, <3>2 DEF Untouched
    <2>4. ASSUME NEW s \in Sessions \ gone, phase[s] \in {"dns", "scutil", "up"}
          PROVE  /\ \A d \in Included : table'[d] = s /\ Untouched(d)'
                 /\ \A d \in Excluded : table'[d] = local[s] /\ Untouched(d)'
      <3>1. s \in Gateways /\ local[s] \in Gateways
        BY <2>4 DEF Inv, Holder, Gateways
      <3> QED
        BY <2>1, <2>3, <2>4, <3>1 DEF Inv, SplitRoutes
    <2> QED
      BY <1>3, <2>2, <2>4 DEF SplitRoutes
  <1> QED
    BY <1>12, <1>13, <1>14, <1>15, <1>16, <1>17, <1>18, <1>19, <1>20 DEF Inv

\* Init establishes the invariant.
LEMMA InitInv == Init => Inv
  BY SessionsAssumption, GatewaysAssumption
  DEF Init, Inv, Types, Phases, Holder, Idle, Contents, Foreign, HostRoutes, Accounted, OneSession,
      OwnBatch, ServerRoute, SplitRoutes, Dests

\* Every step preserves the invariant.
LEMMA NextInv == Inv /\ [Next]_vars => Inv'
  <1> SUFFICES ASSUME Inv, [Next]_vars PROVE Inv'
    OBVIOUS
  <1> USE SessionsAssumption, GatewaysAssumption
      DEF Inv, Types, Holder, Idle, sockVars, pipeVars, sessVars, Typs, AckSet, Phases
  <1>1. CASE WriteRequest
    BY <1>1, WriteInv
  <1>2. CASE Rollback
    <2>1. Types'
      BY <1>2 DEF Rollback, RollbackRequests, Collected, ApplyResults, Routes
    <2>2. Holder'
      <3>1. fd /\ job.kind # "reset"
        BY <1>2, RollsBack DEF Rollback, Holder, Added, Contents
      <3> QED
        BY <1>2, <3>1 DEF Rollback, Holder
    <2>3. Contents'
      BY <1>2 DEF Rollback, RollbackRequests, Collected, ApplyResults, Routes, Contents
    <2>4. Foreign'
      BY <1>2 DEF Rollback, RollbackRequests, Collected, ApplyResults, Routes, Foreign
    <2>5. Accounted'
      <3> SUFFICES ASSUME ~spoilt, NEW d \in Dests, table[d] \in Gateways
                   PROVE  ToDelete(d)' \/ (Installed(d)' /\ ~Deleted(d)')
        <4>1. job.kind' # "reset" /\ job'.stage = "undo"
          BY <1>2, RollsBack DEF Rollback, Contents, Added
        <4> QED
          BY <1>2, <4>1 DEF Accounted, Rollback
      <3>1. CASE Added(d)
        <4>1. PICK r \in RollbackRequests : r.dst = d
          BY <3>1, RollsBack
        <4>2. r.typ = "DELETE" /\ r \in todo'
          BY <1>2, <4>1, RollsBack DEF Rollback
        <4> QED
          BY <4>1, <4>2 DEF ToDelete
      <3>2. CASE Installed(d) /\ ~Deleted(d)
        BY <1>2, <3>2, Collects DEF Rollback, Installed, Deleted
      <3> QED
        BY <1>2, <3>1, <3>2, RollsBack DEF Accounted, Rollback, Contents, Added
    <2>6. OneSession'
      BY <1>2 DEF Rollback, RollbackRequests, Collected, ApplyResults, Routes, OneSession
    <2>7. OwnBatch'
      <3> SUFFICES ASSUME Orderly, ~spoilt, NEW d \in Dests, table[d] \in Gateways, job.kind = "set"
                   PROVE  ToDelete(d)'
        BY <1>2 DEF OwnBatch, Rollback
      <3>1. Added(d)
        BY <1>2 DEF OwnBatch, Rollback
      <3>2. PICK r \in RollbackRequests : r.dst = d
        BY <3>1, RollsBack
      <3>3. r.typ = "DELETE" /\ r \in todo'
        BY <1>2, <3>2, RollsBack DEF Rollback
      <3> QED
        BY <3>2, <3>3 DEF ToDelete
    <2>8. ServerRoute'
      BY <1>2 DEF Rollback, RollbackRequests, Collected, ApplyResults, Routes, ServerRoute,
         Untouched, Added, ToDelete, Failed
    <2>9. SplitRoutes'
      BY <1>2 DEF Rollback, RollbackRequests, Collected, ApplyResults, Routes, SplitRoutes,
         Untouched, Added, ToDelete, Failed
    <2> QED
      BY <2>1, <2>2, <2>3, <2>4, <2>5, <2>6, <2>7, <2>8, <2>9
  <1>3. CASE SetRoutesAdded
    <2>1. Types'
      BY <1>3 DEF SetRoutesAdded, Returns, Release, Collected, ApplyResults, Routes,
         RollbackRequests
    <2>2. Holder'
      BY <1>3 DEF SetRoutesAdded, Returns, Release, Collected, ApplyResults, Routes,
         RollbackRequests
    <2>3. Contents'
      BY <1>3 DEF SetRoutesAdded, Returns, Release, Collected, ApplyResults, Routes,
         RollbackRequests, Contents
    <2>4. Foreign'
      BY <1>3 DEF SetRoutesAdded, Returns, Release, Collected, ApplyResults, Routes,
         RollbackRequests, Foreign
    <2>5. Accounted'
      <3> SUFFICES ASSUME ~spoilt, NEW d \in Dests, table[d] \in Gateways
                   PROVE  Installed(d)'
        BY <1>3 DEF Accounted, SetRoutesAdded, Release, Deleted
      <3>1. ~ToDelete(d)
        BY <1>3 DEF SetRoutesAdded, Returns, ToDelete
      <3>2. job.stage = "write" /\ Added(d) => ~aborted
        BY <1>3, RollsBack DEF SetRoutesAdded, Returns, Failed
      <3>3. installed' = Collected
        BY <1>3 DEF SetRoutesAdded, Release
      <3> QED
        BY <3>1, <3>2, <3>3, Collects DEF Accounted, Installed
    <2>6. OneSession'
      BY <1>3 DEF SetRoutesAdded, Returns, Release, Collected, ApplyResults, Routes,
         RollbackRequests, OneSession
    <2>7. OwnBatch'
      BY <1>3 DEF SetRoutesAdded, Returns, Release, Collected, ApplyResults, Routes,
         RollbackRequests, OwnBatch, Added, ToDelete
    <2>8. ServerRoute'
      BY <1>3 DEF SetRoutesAdded, Returns, Release, Collected, ApplyResults, Routes,
         RollbackRequests, ServerRoute, Untouched, Added, ToDelete, Failed
    <2>9. SplitRoutes'
      BY <1>3 DEF SetRoutesAdded, Returns, Release, Collected, ApplyResults, Routes,
         RollbackRequests, SplitRoutes, Untouched, Added, ToDelete, Failed
    <2> QED
      BY <2>1, <2>2, <2>3, <2>4, <2>5, <2>6, <2>7, <2>8, <2>9
  <1>4. CASE SetRoutesFailed
    <2>1. Types'
      BY <1>4 DEF SetRoutesFailed, Returns, Release, Collected, ApplyResults, Routes,
         RollbackRequests
    <2>2. Holder'
      BY <1>4 DEF SetRoutesFailed, Returns, Release, Collected, ApplyResults, Routes,
         RollbackRequests
    <2>3. Contents'
      BY <1>4 DEF SetRoutesFailed, Returns, Release, Collected, ApplyResults, Routes,
         RollbackRequests, Contents
    <2>4. Foreign'
      BY <1>4 DEF SetRoutesFailed, Returns, Release, Collected, ApplyResults, Routes,
         RollbackRequests, Foreign
    <2>5. Accounted'
      <3> SUFFICES ASSUME ~spoilt, NEW d \in Dests, table[d] \in Gateways
                   PROVE  Installed(d)'
        BY <1>4 DEF Accounted, SetRoutesFailed, Release, Deleted
      <3>1. ~ToDelete(d)
        BY <1>4 DEF SetRoutesFailed, Returns, ToDelete
      <3>2. job.stage = "write" /\ Added(d) => ~aborted
        BY <1>4, RollsBack DEF SetRoutesFailed, Returns, Failed
      <3>3. installed' = Collected
        BY <1>4 DEF SetRoutesFailed, Release
      <3> QED
        BY <3>1, <3>2, <3>3, Collects DEF Accounted, Installed
    <2>6. OneSession'
      BY <1>4 DEF SetRoutesFailed, Returns, Release, Collected, ApplyResults, Routes,
         RollbackRequests, OneSession
    <2>7. OwnBatch'
      <3> SUFFICES ASSUME Orderly, ~spoilt, NEW d \in Dests, table[d] \in Gateways
                   PROVE  FALSE
        BY <1>4 DEF OwnBatch, SetRoutesFailed, Release
      <3>1. ~ToDelete(d)
        BY <1>4 DEF SetRoutesFailed, Returns, ToDelete
      <3>2. job.stage = "write" => ~Added(d)
        BY <1>4, RollsBack DEF SetRoutesFailed, Returns
      <3> QED
        BY <1>4, <3>1, <3>2 DEF OwnBatch, SetRoutesFailed, Returns
    <2>8. ServerRoute'
      BY <1>4 DEF SetRoutesFailed, Returns, Release, Collected, ApplyResults, Routes,
         RollbackRequests, ServerRoute, Untouched, Added, ToDelete, Failed
    <2>9. SplitRoutes'
      BY <1>4 DEF SetRoutesFailed, Returns, Release, Collected, ApplyResults, Routes,
         RollbackRequests, SplitRoutes, Untouched, Added, ToDelete, Failed
    <2> QED
      BY <2>1, <2>2, <2>3, <2>4, <2>5, <2>6, <2>7, <2>8, <2>9
  <1>5. CASE CloseLocked
    <2>1. Types'
      BY <1>5 DEF CloseLocked, Returns, RollbackRequests, Routes
    <2>2. Holder'
      BY <1>5 DEF CloseLocked, Returns, RollbackRequests, Routes
    <2>3. Contents'
      BY <1>5 DEF CloseLocked, Returns, RollbackRequests, Routes, Contents
    <2>4. Foreign'
      BY <1>5 DEF CloseLocked, Returns, RollbackRequests, Routes, Foreign
    <2>5. Accounted'
      <3> SUFFICES ASSUME ~spoilt, NEW d \in Dests, table[d] \in Gateways
                   PROVE  FALSE
        BY <1>5 DEF CloseLocked, Accounted
      <3>1. ~ToDelete(d) /\ job.kind = "reset"
        BY <1>5 DEF CloseLocked, Returns, ToDelete
      <3> QED
        BY <3>1 DEF Accounted, Contents, Added
    <2>6. OneSession'
      <3>1. job.kind = "reset" /\ job.sess \in Sessions /\ phase[job.sess] = "reset"
        BY <1>5 DEF CloseLocked, Returns
      <3> QED
        BY <1>5, <3>1 DEF CloseLocked, OneSession
    <2>7. OwnBatch'
      BY <1>5 DEF CloseLocked, Returns, RollbackRequests, Routes, OwnBatch, Added, ToDelete
    <2>8. ServerRoute'
      BY <1>5 DEF CloseLocked, Returns, RollbackRequests, Routes, ServerRoute, Untouched,
         Added, ToDelete, Failed
    <2>9. SplitRoutes'
      BY <1>5 DEF CloseLocked, Returns, RollbackRequests, Routes, SplitRoutes, Untouched,
         Added, ToDelete, Failed
    <2> QED
      BY <2>1, <2>2, <2>3, <2>4, <2>5, <2>6, <2>7, <2>8, <2>9
  <1>6. CASE DynamicReturn
    <2>1. Types'
      BY <1>6 DEF DynamicReturn, Returns, Release, Collected, ApplyResults, Routes,
         RollbackRequests
    <2>2. Holder'
      BY <1>6 DEF DynamicReturn, Returns, Release, Collected, ApplyResults, Routes,
         RollbackRequests
    <2>3. Contents'
      BY <1>6 DEF DynamicReturn, Returns, Release, Collected, ApplyResults, Routes,
         RollbackRequests, Contents
    <2>4. Foreign'
      BY <1>6 DEF DynamicReturn, Returns, Release, Collected, ApplyResults, Routes,
         RollbackRequests, Foreign
    <2>5. Accounted'
      <3> SUFFICES ASSUME ~spoilt, NEW d \in Dests, table[d] \in Gateways
                   PROVE  Installed(d)'
        BY <1>6 DEF Accounted, DynamicReturn, Release, Deleted
      <3>1. ~ToDelete(d)
        BY <1>6 DEF DynamicReturn, Returns, ToDelete
      <3>2. job.stage = "write" /\ Added(d) => ~aborted
        BY <1>6, RollsBack DEF DynamicReturn, Returns, Failed
      <3>3. installed' = Collected
        BY <1>6 DEF DynamicReturn, Release
      <3> QED
        BY <3>1, <3>2, <3>3, Collects DEF Accounted, Installed
    <2>6. OneSession'
      BY <1>6 DEF DynamicReturn, Returns, Release, Collected, ApplyResults, Routes,
         RollbackRequests, OneSession
    <2>7. OwnBatch'
      BY <1>6 DEF DynamicReturn, Returns, Release, Collected, ApplyResults, Routes,
         RollbackRequests, OwnBatch, Added, ToDelete
    <2>8. ServerRoute'
      BY <1>6 DEF DynamicReturn, Returns, Release, Collected, ApplyResults, Routes,
         RollbackRequests, ServerRoute, Untouched, Added, ToDelete, Failed
    <2>9. SplitRoutes'
      BY <1>6 DEF DynamicReturn, Returns, Release, Collected, ApplyResults, Routes,
         RollbackRequests, SplitRoutes, Untouched, Added, ToDelete, Failed
    <2> QED
      BY <2>1, <2>2, <2>3, <2>4, <2>5, <2>6, <2>7, <2>8, <2>9
  <1>7. CASE Crash
    <2>1. Types'
      BY <1>7 DEF Crash, Flush
    <2>2. Holder'
      BY <1>7 DEF Crash, Flush
    <2>3. Contents'
      BY <1>7 DEF Crash, Flush, Contents
    <2>4. Foreign'
      <3>1. gone' \subseteq Sessions /\ table' = Flush(gone')
        BY <1>7 DEF Crash
      <3> QED
        BY <1>7, <3>1, Flushed DEF Crash, Foreign, HostRoutes, Dests
    <2>5. Accounted'
      BY <1>7 DEF Crash, Flush, Accounted, Added, Deleted, ToDelete, Installed
    <2>6. OneSession'
      BY <1>7 DEF Crash, Flush, OneSession
    <2>7. OwnBatch'
      BY <1>7 DEF Crash, Flush, OwnBatch, Added, ToDelete
    <2>8. ServerRoute'
      BY <1>7 DEF Crash, Flush, ServerRoute, Untouched, Added, ToDelete, Failed
    <2>9. SplitRoutes'
      BY <1>7 DEF Crash, Flush, SplitRoutes, Untouched, Added, ToDelete, Failed
    <2> QED
      BY <2>1, <2>2, <2>3, <2>4, <2>5, <2>6, <2>7, <2>8, <2>9
  <1>8. ASSUME NEW s \in Sessions, NEW g \in LocalGateways, SetRoutes(s, g) PROVE Inv'
    <2>1. Types'
      <3>1. SetRoutesRequests(s, g) \subseteq [n : Nat, typ : Typs, dst : Dests, gw : Gateways]
        BY SetRequests DEF Request
      <3> QED
        BY <1>8, <3>1 DEF SetRoutes, OpenLocked, Start, Types, Gateways, Sessions
    <2>2. Holder'
      BY <1>8 DEF SetRoutes, MayBegin, OpenLocked, Start
    <2>3. Contents'
      BY <1>8 DEF SetRoutes, MayBegin, OpenLocked, Start, Contents
    <2>4. Foreign'
      <3>1. \A r \in SetRoutesRequests(s, g) : r.typ = "DELETE" => r.dst = Server
        <4>1. \A r \in SetRoutesRequests(s, g) :
                r = ServerDelete(g) \/ r = ServerAdd(g) \/ r.typ = "ADD"
          BY SetRequests
        <4>2. ServerDelete(g).dst = Server /\ ServerAdd(g).dst = Server
          BY DEF ServerDelete, ServerAdd
        <4> QED
          BY <4>1, <4>2
      <3> QED
        BY <1>8, <3>1 DEF SetRoutes, OpenLocked, Start, Foreign, HostRoutes
    <2>5. Accounted'
      BY <1>8 DEF SetRoutes, MayBegin, OpenLocked, Start, Accounted, Added, Deleted,
         ToDelete, Installed
    <2>6. OneSession'
      BY <1>8 DEF SetRoutes, MayBegin, OpenLocked, Start, OneSession
    <2>7. OwnBatch'
      <3> SUFFICES ASSUME Orderly, ~spoilt PROVE OwnBatch'
        BY <1>8 DEF SetRoutes, OwnBatch
      <3>1. ~fd /\ \A t \in Sessions : phase[t] \in {"new", "ended"}
        BY <1>8 DEF SetRoutes, MayBegin, OneSession
      <3>2. \A d \in Dests : table[d] \notin Gateways
        BY <1>8, <3>1 DEF SetRoutes, MayBegin, Accounted, Added, Installed
      <3> QED
        BY <1>8, <3>2 DEF SetRoutes, OwnBatch
    <2>8. ServerRoute'
      <3>1. /\ ServerDelete(g) \in todo' /\ ServerAdd(g) \in todo'
            /\ job'.sess = s /\ local'[s] = g
        BY <1>8, SetRequests DEF SetRoutes, Start
      <3>2. Orderly => \A t \in Sessions : phase'[t] \in {"new", "ended", "set"}
        BY <1>8 DEF SetRoutes, MayBegin
      <3> QED
        BY <3>1, <3>2 DEF ServerRoute
    <2>9. SplitRoutes'
      <3> SUFFICES ASSUME Orderly, ~spoilt PROVE SplitRoutes'
        BY <1>8 DEF SetRoutes, SplitRoutes
      <3>1. ~fd /\ \A t \in Sessions : phase[t] \in {"new", "ended"}
        BY <1>8 DEF SetRoutes, MayBegin, OneSession
      <3>2. \A d \in Dests : table[d] \notin Gateways
        BY <1>8, <3>1 DEF SetRoutes, MayBegin, Accounted, Added, Installed
      <3>3. \A d \in Included \cup Excluded : table[d] = NoRoute
        BY <3>2 DEF Foreign, Included, Excluded, Dests
      <3>4. \A t \in Sessions : phase'[t] \in {"new", "ended", "set"}
        BY <1>8, <3>1 DEF SetRoutes
      <3>5. todo' = SetRoutesRequests(s, g) /\ table' = table
        BY <1>8 DEF SetRoutes, Start
      <3>6. \A d \in Included : \E r \in todo' : r.dst = d /\ r.n <= 2 + Len(Include)
        BY <3>5, SetRequests DEF Included
      <3>7. \A d \in Excluded : \E r \in todo' : r.dst = d
        BY <3>5, SetRequests DEF Excluded
      <3> QED
        BY <3>3, <3>4, <3>5, <3>6, <3>7 DEF SplitRoutes
    <2> QED
      BY <2>1, <2>2, <2>3, <2>4, <2>5, <2>6, <2>7, <2>8, <2>9
  <1>9. ASSUME NEW s \in Sessions, NEW g \in LocalGateways, SetRoutesRefused(s, g) PROVE Inv'
    <2>1. Types'
      <3>1. tunnelGateway' \in Gateways \/ ~fd'
        BY <1>9 DEF SetRoutesRefused, OpenLocked, Gateways
      <3> QED
        BY <1>9, <3>1 DEF SetRoutesRefused, OpenLocked
    <2>2. Holder'
      BY <1>9 DEF SetRoutesRefused, MayBegin, OpenLocked
    <2>3. Contents'
      BY <1>9 DEF SetRoutesRefused, MayBegin, OpenLocked, Contents
    <2>4. Foreign'
      BY <1>9 DEF SetRoutesRefused, MayBegin, OpenLocked, Foreign
    <2>5. Accounted'
      BY <1>9 DEF SetRoutesRefused, MayBegin, OpenLocked, Accounted, Added, Deleted,
         ToDelete, Installed
    <2>6. OneSession'
      BY <1>9 DEF SetRoutesRefused, MayBegin, OpenLocked, OneSession
    <2>7. OwnBatch'
      <3> SUFFICES ASSUME Orderly, ~spoilt PROVE OwnBatch'
        BY <1>9 DEF SetRoutesRefused, OwnBatch
      <3>1. ~fd /\ \A t \in Sessions : phase[t] \in {"new", "ended"}
        BY <1>9 DEF SetRoutesRefused, MayBegin, OneSession
      <3>2. \A d \in Dests : table[d] \notin Gateways
        BY <1>9, <3>1 DEF SetRoutesRefused, MayBegin, Accounted, Added, Installed
      <3> QED
        BY <1>9, <3>2 DEF SetRoutesRefused, OwnBatch
    <2>8. ServerRoute'
      BY <1>9 DEF SetRoutesRefused, MayBegin, OpenLocked, ServerRoute, Untouched, Added,
         ToDelete, Failed
    <2>9. SplitRoutes'
      BY <1>9 DEF SetRoutesRefused, MayBegin, OpenLocked, SplitRoutes, Untouched, Added,
         ToDelete, Failed
    <2> QED
      BY <2>1, <2>2, <2>3, <2>4, <2>5, <2>6, <2>7, <2>8, <2>9
  <1>10. ASSUME NEW s \in Sessions, SetDnsRoutes(s) PROVE Inv'
    <2>1. Types'
      <3>1. fd => Batch("ADD", 0, DNS, tunnelGateway) \subseteq
                    [n : Nat, typ : Typs, dst : Dests, gw : Gateways]
        BY BatchRequests, Lists DEF Request
      <3> QED
        BY <1>10, <3>1 DEF SetDnsRoutes, Start, Types, Sessions
    <2>2. Holder'
      BY <1>10 DEF SetDnsRoutes, Start, Batch
    <2>3. Contents'
      BY <1>10 DEF SetDnsRoutes, Start, Batch, Contents
    <2>4. Foreign'
      BY <1>10 DEF SetDnsRoutes, Start, Batch, Foreign
    <2>5. Accounted'
      BY <1>10 DEF SetDnsRoutes, Start, Batch, Accounted, Added, Deleted, ToDelete,
         Installed
    <2>6. OneSession'
      BY <1>10 DEF SetDnsRoutes, Start, Batch, OneSession
    <2>7. OwnBatch'
      BY <1>10 DEF SetDnsRoutes, Start, Batch, OwnBatch, Added, ToDelete
    <2>8. ServerRoute'
      BY <1>10 DEF SetDnsRoutes, Start, Batch, ServerRoute, Untouched, Added, ToDelete,
         Failed
    <2>9. SplitRoutes'
      BY <1>10 DEF SetDnsRoutes, Start, Batch, SplitRoutes, Untouched, Added, ToDelete,
         Failed
    <2> QED
      BY <2>1, <2>2, <2>3, <2>4, <2>5, <2>6, <2>7, <2>8, <2>9
  <1>11. ASSUME NEW s \in Sessions, Scutil(s) PROVE Inv'
    <2>1. Types'
      BY <1>11 DEF Scutil
    <2>2. Holder'
      BY <1>11 DEF Scutil
    <2>3. Contents'
      BY <1>11 DEF Scutil, Contents
    <2>4. Foreign'
      BY <1>11 DEF Scutil, Foreign
    <2>5. Accounted'
      BY <1>11 DEF Scutil, Accounted, Added, Deleted, ToDelete, Installed
    <2>6. OneSession'
      BY <1>11 DEF Scutil, OneSession
    <2>7. OwnBatch'
      BY <1>11 DEF Scutil, OwnBatch, Added, ToDelete
    <2>8. ServerRoute'
      BY <1>11 DEF Scutil, ServerRoute, Untouched, Added, ToDelete, Failed
    <2>9. SplitRoutes'
      BY <1>11 DEF Scutil, SplitRoutes, Untouched, Added, ToDelete, Failed
    <2> QED
      BY <2>1, <2>2, <2>3, <2>4, <2>5, <2>6, <2>7, <2>8, <2>9
  <1>12. ASSUME NEW s \in Sessions, ResetRoutes(s) PROVE Inv'
    <2>1. Types'
      <3>1. todo' \subseteq [n : Nat, typ : Typs, dst : Dests, gw : Gateways]
        BY <1>12 DEF ResetRoutes, Start
      <3> QED
        BY <1>12, <3>1 DEF ResetRoutes, Start, Sessions
    <2>2. Holder'
      BY <1>12 DEF ResetRoutes, Start
    <2>3. Contents'
      BY <1>12 DEF ResetRoutes, Start, Contents
    <2>4. Foreign'
      BY <1>12 DEF ResetRoutes, Start, Foreign
    <2>5. Accounted'
      <3> SUFFICES ASSUME ~spoilt, NEW d \in Dests, table[d] \in Gateways
                   PROVE  ToDelete(d)'
        BY <1>12 DEF ResetRoutes, Start, Accounted
      <3>1. Installed(d)
        BY <1>12 DEF ResetRoutes, Accounted, Added
      <3>2. PICK r \in installed : r.dst = d
        BY <3>1 DEF Installed
      <3>3. [n |-> 0, typ |-> "DELETE", dst |-> r.dst, gw |-> r.gw] \in todo'
        BY <1>12, <3>2 DEF ResetRoutes, Start
      <3> QED
        BY <3>2, <3>3 DEF ToDelete
    <2>6. OneSession'
      BY <1>12 DEF ResetRoutes, Start, OneSession
    <2>7. OwnBatch'
      BY <1>12 DEF ResetRoutes, Start, OwnBatch, Added, ToDelete
    <2>8. ServerRoute'
      <3>1. job'.kind = "reset"
        BY <1>12 DEF ResetRoutes, Start
      <3>2. Orderly => \A t \in Sessions : phase'[t] \notin {"dns", "scutil", "up"}
        BY <1>12 DEF ResetRoutes, OneSession
      <3> QED
        BY <3>1, <3>2 DEF ServerRoute
    <2>9. SplitRoutes'
      <3>1. job'.kind = "reset"
        BY <1>12 DEF ResetRoutes, Start
      <3>2. Orderly => \A t \in Sessions : phase'[t] \notin {"dns", "scutil", "up"}
        BY <1>12 DEF ResetRoutes, OneSession
      <3> QED
        BY <3>1, <3>2 DEF SplitRoutes
    <2> QED
      BY <2>1, <2>2, <2>3, <2>4, <2>5, <2>6, <2>7, <2>8, <2>9
  <1>13. ASSUME NEW s \in Sessions, RestoreDNS(s) PROVE Inv'
    <2>1. Types'
      BY <1>13 DEF RestoreDNS
    <2>2. Holder'
      BY <1>13 DEF RestoreDNS
    <2>3. Contents'
      BY <1>13 DEF RestoreDNS, Contents
    <2>4. Foreign'
      BY <1>13 DEF RestoreDNS, Foreign
    <2>5. Accounted'
      BY <1>13 DEF RestoreDNS, Accounted, Added, Deleted, ToDelete, Installed
    <2>6. OneSession'
      BY <1>13 DEF RestoreDNS, OneSession
    <2>7. OwnBatch'
      BY <1>13 DEF RestoreDNS, OwnBatch, Added, ToDelete
    <2>8. ServerRoute'
      BY <1>13 DEF RestoreDNS, ServerRoute, Untouched, Added, ToDelete, Failed
    <2>9. SplitRoutes'
      BY <1>13 DEF RestoreDNS, SplitRoutes, Untouched, Added, ToDelete, Failed
    <2> QED
      BY <2>1, <2>2, <2>3, <2>4, <2>5, <2>6, <2>7, <2>8, <2>9
  <1>14. ASSUME NEW s \in Sessions, TunGone(s) PROVE Inv'
    <2>1. Types'
      BY <1>14 DEF TunGone, Flush
    <2>2. Holder'
      BY <1>14 DEF TunGone, Flush
    <2>3. Contents'
      BY <1>14 DEF TunGone, Flush, Contents
    <2>4. Foreign'
      <3> QED
        BY <1>14, Flushed DEF TunGone, Foreign, HostRoutes, Dests
    <2>5. Accounted'
      BY <1>14 DEF TunGone, Flush, Accounted, Added, Deleted, ToDelete, Installed
    <2>6. OneSession'
      BY <1>14 DEF TunGone, Flush, OneSession
    <2>7. OwnBatch'
      BY <1>14 DEF TunGone, Flush, OwnBatch, Added, ToDelete
    <2>8. ServerRoute'
      <3>1. /\ table' = Flush({s}) /\ gone' = gone \cup {s} /\ {s} \in SUBSET Sessions
            /\ UNCHANGED <<spoilt, phase, local, job, todo, written, aborted>>
        BY <1>14 DEF TunGone
      <3>2. \A d \in Dests : table[d] \in LocalGateways \cup {NoRoute} => table'[d] = table[d]
        BY <3>1, Flushed DEF Gateways
      <3>3. (Failed' <=> Failed) /\ (Untouched(Server)' <=> Untouched(Server)) /\ Server \in Dests
        BY <3>1 DEF Failed, Tolerated, Untouched, Added, ToDelete, Dests
      <3> QED
        BY <3>1, <3>2, <3>3 DEF ServerRoute
    <2>9. SplitRoutes'
      <3>1. /\ table' = Flush({s}) /\ gone' = gone \cup {s} /\ {s} \in SUBSET Sessions
            /\ UNCHANGED <<spoilt, phase, local, job, todo, written, aborted>>
        BY <1>14 DEF TunGone
      <3>2. \A d \in Dests : table[d] # s => table'[d] = table[d]
        BY <3>1, Flushed
      <3>3. (Failed' <=> Failed) /\ \A d \in Dests : Untouched(d)' <=> Untouched(d)
        BY <3>1 DEF Failed, Tolerated, Untouched, Added, ToDelete
      <3>4. Included \subseteq Dests /\ Excluded \subseteq Dests /\ s # NoRoute /\ s \notin LocalGateways
        BY DEF Included, Excluded, Dests, Gateways
      <3>5. ASSUME Orderly, ~spoilt, job'.kind = "set", job'.stage = "write", ~Failed', job'.sess \notin gone'
            PROVE  LET t == job'.sess IN
                   /\ \A d \in Included :
                        \/ table'[d] = t
                        \/ /\ table'[d] = NoRoute
                           /\ \E r \in todo' : r.dst = d /\ r.n <= 2 + Len(Include)
                   /\ \A d \in Excluded :
                        \/ table'[d] = local'[t]
                        \/ table'[d] = NoRoute /\ \E r \in todo' : r.dst = d
        <4>1. job.sess \notin gone /\ job.sess # s /\ local[job.sess] \in LocalGateways
          BY <3>1, <3>5
        <4>2. /\ \A d \in Included :
                   \/ table[d] = job.sess
                   \/ /\ table[d] = NoRoute
                      /\ \E r \in todo : r.dst = d /\ r.n <= 2 + Len(Include)
              /\ \A d \in Excluded :
                   \/ table[d] = local[job.sess]
                   \/ table[d] = NoRoute /\ \E r \in todo : r.dst = d
          BY <3>1, <3>3, <3>5, <4>1 DEF SplitRoutes
        <4> QED
          BY <3>1, <3>2, <3>4, <4>1, <4>2
      <3>6. ASSUME Orderly, ~spoilt, NEW t \in Sessions \ gone', phase'[t] \in {"dns", "scutil", "up"}
            PROVE  /\ \A d \in Included : table'[d] = t /\ Untouched(d)'
                   /\ \A d \in Excluded : table'[d] = local'[t] /\ Untouched(d)'
        <4>1. t \notin gone /\ t # s /\ local[t] \in LocalGateways
          BY <3>1, <3>6
        <4>2. /\ \A d \in Included : table[d] = t /\ Untouched(d)
              /\ \A d \in Excluded : table[d] = local[t] /\ Untouched(d)
          BY <3>1, <3>6, <4>1 DEF SplitRoutes
        <4>3. /\ \A d \in Included : table'[d] = t
              /\ \A d \in Excluded : table'[d] = local'[t]
          <5>1. \A d \in Included : d \in Dests /\ table[d] # s
            BY <3>4, <4>1, <4>2
          <5>2. \A d \in Excluded : d \in Dests /\ table[d] # s
            BY <3>4, <4>1, <4>2
          <5>3. local'[t] = local[t]
            BY <3>1
          <5> HIDE DEF Inv, Types, Holder
          <5> QED
            BY <3>2, <4>2, <5>1, <5>2, <5>3
        <4>4. \A d \in Included \cup Excluded : Untouched(d)'
          BY <3>3, <3>4, <4>2
        <4> QED
          BY <4>3, <4>4
      <3> HIDE DEF Types, Holder, Inv
      <3> QED
        BY <3>1, <3>5, <3>6 DEF SplitRoutes
    <2> QED
      BY <2>1, <2>2, <2>3, <2>4, <2>5, <2>6, <2>7, <2>8, <2>9
  <1>15. ASSUME NEW gw \in Gateways, DynamicAdd(gw) PROVE Inv'
    <2>1. Types'
      <3>1. Batch("ADD", 0, Answers, gw) \subseteq
              [n : Nat, typ : Typs, dst : Dests, gw : Gateways]
        BY BatchRequests, Lists DEF Request
      <3> QED
        BY <1>15, <3>1 DEF DynamicAdd, Start
    <2>2. Holder'
      BY <1>15 DEF DynamicAdd, Start, Batch
    <2>3. Contents'
      <3>1. \A r \in Batch("ADD", 0, Answers, gw) : r.typ = "ADD" /\ r.dst \in Items(Answers)
        BY BatchRequests, Lists
      <3> QED
        BY <1>15, <3>1 DEF DynamicAdd, Start, Contents
    <2>4. Foreign'
      BY <1>15 DEF DynamicAdd, Start, Batch, Foreign
    <2>5. Accounted'
      BY <1>15 DEF DynamicAdd, Start, Batch, Accounted, Added, Deleted, ToDelete, Installed
    <2>6. OneSession'
      BY <1>15 DEF DynamicAdd, Start, Batch, OneSession
    <2>7. OwnBatch'
      BY <1>15 DEF DynamicAdd, Start, Batch, OwnBatch, Added, ToDelete
    <2>8. ServerRoute'
      BY <1>15 DEF DynamicAdd, Start, Batch, ServerRoute, Untouched, Added, ToDelete, Failed
    <2>9. SplitRoutes'
      BY <1>15 DEF DynamicAdd, Start, Batch, SplitRoutes, Untouched, Added, ToDelete, Failed
    <2> QED
      BY <2>1, <2>2, <2>3, <2>4, <2>5, <2>6, <2>7, <2>8, <2>9
  <1>16. CASE UNCHANGED vars
    BY <1>16 DEF vars, Contents, Foreign, Accounted, OneSession, OwnBatch, ServerRoute,
                   SplitRoutes, Untouched, Added, Deleted, ToDelete, Installed, Failed, Tolerated
  <1> QED
    BY <1>1, <1>2, <1>3, <1>4, <1>5, <1>6, <1>7, <1>8, <1>9, <1>10, <1>11, <1>12,
       <1>13, <1>14, <1>15, <1>16 DEF Next

\* The invariant holds throughout.
LEMMA Invariant == Spec => []Inv
  BY InitInv, NextInv, PTL DEF Spec

(***************************************************************************)
(* The properties.                                                         *)
(***************************************************************************)

\* vpnc_darwin.go:642: no route of the host's own to anywhere but the server is
\* ever deleted or replaced, whatever fails, in whatever order sessions are set
\* up and reset, and although a DELETE does not look at the gateway.
THEOREM HostRoutesKept == Spec => []SystemRoutesKept
  <1>1. Inv => SystemRoutesKept
    BY DEF Inv, Foreign, HostRoutes, SystemRoutesKept
  <1> QED
    BY <1>1, Invariant, PTL

\* In whatever order sessions come, with the socket closed no route of ours is
\* left in the kernel, unless a DELETE failed, an answer was lost or the process
\* crashed.
THEOREM NoRouteOutlivesSocket ==
  Spec => [](~spoilt /\ ~fd => \A d \in Dests : table[d] \in {NoRoute, System})
  <1>1. Inv => (~spoilt /\ ~fd => \A d \in Dests : table[d] \in {NoRoute, System})
    BY DEF Inv, Types, Holder, Accounted, Added, ToDelete, Installed
  <1> QED
    BY <1>1, Invariant, PTL

\* With sessions one after another the DNS servers are gone by then as well, or
\* about to be restored.
THEOREM CleanAfterReset ==
  ASSUME Orderly
  PROVE  Spec => []CleanWhenClosed
  <1>1. Inv => CleanWhenClosed
    BY DEF Inv, Types, Holder, Accounted, Added, ToDelete, Installed, OneSession,
           CleanWhenClosed
  <1> QED
    BY <1>1, Invariant, PTL

\* vpnc_darwin.go:614-695: a SetRoutes that returns an error has rolled back all
\* its batch had put in place.
THEOREM AllOrNothing ==
  ASSUME Orderly
  PROVE  Spec => []FailedLeavesNothing
  <1>1. Inv => FailedLeavesNothing
    BY DEF Inv, Types, OwnBatch, FailedLeavesNothing, Dests
  <1> QED
    BY <1>1, Invariant, PTL

\* The split routes of a session that is up point where the session says, whatever
\* the DNS set-up and the sniffers add, fail to add and roll back meanwhile.
THEOREM SplitInPlace ==
  ASSUME Orderly
  PROVE  Spec => []SplitFollowsSession
  <1>1. Inv => SplitFollowsSession
    BY DEF Inv, SplitRoutes, Included, Excluded, SplitFollowsSession
  <1> QED
    BY <1>1, Invariant, PTL

\* vpnc_darwin.go:129-134: the server is reached through the gateway of the
\* session that is up, also after crashes, lost answers and failed resets.
THEOREM ServerReachable ==
  ASSUME Orderly
  PROVE  Spec => []ServerRouteCurrent
  <1>1. Inv => ServerRouteCurrent
    BY DEF Inv, ServerRoute, ServerRouteCurrent
  <1> QED
    BY <1>1, Invariant, PTL

=============================================================================
