--------------------------- MODULE IsolationProofs --------------------------
(***************************************************************************)
(* What one experiment, a failure or a signal can do to the experiments    *)
(* after it: theorems about module Experiment, for every batch and every   *)
(* bound.                                                                  *)
(***************************************************************************)
EXTENDS ExperimentProofs

-----------------------------------------------------------------------------
(* What stands in the way of a call, one fact of the cluster at a time.     *)

Obstacle(kind, on) == [kind |-> kind, on |-> on, what |-> "-"]

Object(on, what) == [kind |-> "object", on |-> on, what |-> what]

\* A claim is none of them: no call of the providers takes one away.
Obstacles ==
  [kind : {"release", "undeployed", "webhook", "roles"}, on : Releases, what : {"-"}]
  \cup [kind : {"namespace", "inactive"}, on : Namespaces, what : {"-"}]
  \cup [kind : {"object"}, on : Namespaces, what : Objects \ {"claim"}]

Present(o) ==
  \/ o.kind = "release" /\ release[o.on].status # "none"
  \/ o.kind = "undeployed" /\ (release[o.on].status # "deployed" \/ ns[o.on] # "active")
  \/ o.kind \in {"webhook", "roles"} /\ o.kind \in scoped[o.on]
  \/ o.kind = "namespace" /\ ns[o.on] # "absent"
  \/ o.kind = "inactive" /\ ns[o.on] # "active"
  \/ o.kind = "object" /\ o.what \in objects[o.on]

\* What a call that returns nil has done: its effect, or the end of a namespace whose
\* claims were not stripped.
Nil(c, e, a, retention) ==
  \/ Effect(c, e, a, retention)
  \/ c.op = "deleteNs" /\ ns[c.on] # "absent" /\ NamespaceUnstripped(c.on)

\* A call is not refused when none of these is present, and no claim. An installation also wants
\* its namespace gone, so that it starts on an empty volume.
InTheWay(c) ==
  CASE c.op = "uninstall" ->
         IF c.on = "victoria_metrics" THEN {Obstacle("webhook", c.on)} ELSE {}
    [] c.op = "createNs" -> {Obstacle("namespace", c.on)}
    [] c.op = "up" ->
         {Obstacle("release", c.on), Obstacle("namespace", c.on)}
         \cup { Obstacle(kind, c.on) : kind \in ChartScoped(c.on) }
         \cup { Object(c.on, what) : what \in ChartObjects(c.on) }
    [] c.op = "create" ->
         {Obstacle("inactive", c.on), Object(c.on, c.what)}
         \cup IF c.what = "scrape" THEN {Obstacle("webhook", c.on)} ELSE {}
    [] c.op \in {"waitPVC", "query", "collect"} -> {Obstacle("undeployed", c.on)}
    [] OTHER -> {}

\* The call takes the obstacle away.
Removes(c, o) ==
  /\ c.on = o.on
  /\ \/ c.op = "uninstall" /\ o.kind = "release"
     \/ c.op = "webhooks" /\ o.kind = "webhook"
     \/ c.op = "roles" /\ o.kind = "roles"
     \/ c.op = "scrapes" /\ o.on = "victoria_metrics" /\ o.what \in Finalized
     \/ c.op = "deleteNs" /\ o.kind = "namespace"
     \/ c.op = "deleteNs" /\ o.kind = "object" /\ o.what \notin Finalized
     \/ c.op = "createNs" /\ o.kind = "inactive"
     \/ c.op = "up" /\ o.kind \in {"inactive", "undeployed"}

\* The call may put the obstacle there.
Adds(c, o) ==
  /\ c.on = o.on
  /\ \/ c.op = "uninstall" /\ o.kind = "undeployed"
     \/ c.op = "deleteNs" /\ o.kind \in {"inactive", "undeployed"}
     \/ c.op = "createNs" /\ o.kind = "namespace"
     \/ c.op = "up" /\ o.kind \in {"release", "namespace", "webhook", "roles"}
     \/ c.op = "up" /\ o.what \in ChartObjects(c.on)
     \/ c.op = "create" /\ o.what = c.what

\* What is outside of the namespaces comes from the charts.
ScopedFromCharts == \A r \in Releases : scoped[r] \subseteq ChartScoped(r)

\* A namespace that is absent has left finalized custom resources and claims at most, and
\* no volume that could be mounted.
AbsentIsEmpty ==
  \A n \in Namespaces : ns[n] = "absent" =>
    objects[n] \subseteq Finalized \cup {"claim"} /\ (n \in Instruments => ingested[n] = {})

\* Obstacles are told apart by their fields.
LEMMA ObstacleFields ==
  ASSUME NEW o \in Obstacles
  PROVE  /\ o.on \in Namespaces
         /\ \/ /\ o.kind \in {"release", "undeployed", "webhook", "roles"}
               /\ o.on \in Releases /\ o.what = "-"
            \/ o.kind \in {"namespace", "inactive"} /\ o.what = "-"
            \/ o.kind = "object" /\ o.what \in Objects \ {"claim"}
  BY DEF Obstacles, Namespaces

\* Nothing refuses a call when no obstacle of its own is present.
LEMMA NothingInTheWay ==
  ASSUME ScopedFromCharts, NEW c \in Calls, "claim" \notin objects[c.on],
         \A o \in InTheWay(c) : o \in Obstacles /\ ~Present(o)
  PROVE  ~Blocked(c)
<1> USE DEF Obstacle, Object, Present
<1>1. CASE c.op = "uninstall"
  BY <1>1 DEF InTheWay, Blocked
<1>2. CASE c.op = "createNs"
  BY <1>2 DEF InTheWay, Blocked
<1>3. CASE c.op = "up"
  <2>1. ~Present(Obstacle("release", c.on)) /\ ~Present(Obstacle("namespace", c.on))
    BY <1>3 DEF InTheWay
  <2>2. \A kind \in ChartScoped(c.on) : ~Present(Obstacle(kind, c.on))
    BY <1>3 DEF InTheWay
  <2>3. \A what \in ChartObjects(c.on) : ~Present(Object(c.on, what))
    BY <1>3 DEF InTheWay
  <2>4. release[c.on].status = "none" /\ ns[c.on] = "absent"
    BY <2>1
  <2>5. scoped[c.on] = {}
    <3>1. Obstacle("release", c.on) \in Obstacles
      BY <1>3 DEF InTheWay
    <3>2. c.on \in Releases
      BY <3>1, ObstacleFields
    <3> QED
      BY <2>2, <3>2 DEF ScopedFromCharts, ChartScoped
  <2>6. objects[c.on] \cap ChartObjects(c.on) = {}
    BY <2>3
  <2> QED
    BY <1>3, <2>4, <2>5, <2>6 DEF Blocked
<1>4. CASE c.op = "create"
  <2>1. ~Present(Obstacle("inactive", c.on)) /\ ~Present(Object(c.on, c.what))
    BY <1>4 DEF InTheWay
  <2>2. c.what = "scrape" => ~Present(Obstacle("webhook", c.on))
    BY <1>4 DEF InTheWay
  <2> QED
    BY <1>4, <2>1, <2>2 DEF Blocked
<1>5. CASE c.op \in {"waitPVC", "query", "collect"}
  BY <1>5 DEF InTheWay, Blocked
<1> QED
  BY <1>1, <1>2, <1>3, <1>4, <1>5 DEF Blocked

\* A call that returns nil takes the obstacles away that it is there for.
LEMMA NilRemoves ==
  ASSUME ClusterTypeOK, AbsentIsEmpty, NEW c \in Calls, NEW e, NEW a, NEW retention,
         Nil(c, e, a, retention), NEW o \in Obstacles, Removes(c, o)
  PROVE  ~Present(o)'
<1>0. /\ o.on \in Namespaces
      /\ o.kind \in {"release", "undeployed", "webhook", "roles"} => o.on \in Releases
  BY ObstacleFields
<1> USE DEF Present, Nil
<1>1. CASE c.op = "uninstall"
  BY <1>0, <1>1 DEF Removes, Effect, Uninstalled, NoRelease, ClusterTypeOK
<1>2. CASE c.op \in {"webhooks", "roles"}
  BY <1>0, <1>2 DEF Removes, Effect, DeleteScoped, ClusterTypeOK
<1>3. CASE c.op = "scrapes"
  BY <1>0, <1>3, ObstacleFields DEF Removes, Effect, DeleteVMServiceScrape, ClusterTypeOK, Finalized
<1>4. CASE c.op = "deleteNs"
  <2>1. \/ \E kept \in {{}, {"claim"}} : Vanished(c.on, kept)
        \/ ns[c.on] = "absent" /\ UNCHANGED clusterVars
    BY <1>4 DEF Effect, NamespaceGone, NamespaceUnstripped
  <2> QED
    BY <1>0, <1>4, <2>1, ObstacleFields
    DEF Removes, Vanished, ClusterTypeOK, AbsentIsEmpty, clusterVars
<1>5. CASE c.op = "createNs"
  BY <1>0, <1>5 DEF Removes, Effect, CreateNamespace, ClusterTypeOK
<1>6. CASE c.op = "up"
  BY <1>0, <1>6 DEF Removes, Effect, Installed, ClusterTypeOK
<1> QED
  BY <1>1, <1>2, <1>3, <1>4, <1>5, <1>6 DEF Removes

\* It puts no other obstacle in the way than those it may.
LEMMA NilAdds ==
  ASSUME ClusterTypeOK, NEW c \in Calls, NEW e, NEW a, NEW retention,
         Nil(c, e, a, retention), NEW o \in Obstacles, ~Present(o), ~Adds(c, o)
  PROVE  ~Present(o)'
<1>0. /\ o.on \in Namespaces /\ c.on \in Namespaces
      /\ o.kind \in {"release", "undeployed", "webhook", "roles"} => o.on \in Releases
      /\ o.kind \in {"release", "undeployed", "webhook", "roles", "namespace", "inactive", "object"}
  BY ObstacleFields DEF Calls
<1>a. c.op = "create" => c.what \in Objects
  BY DEF Calls
<1> USE DEF Present, Nil
<1>1. CASE c.op = "uninstall"
  BY <1>0, <1>1 DEF Adds, Effect, Uninstalled, NoRelease, ClusterTypeOK
<1>2. CASE c.op \in {"webhooks", "roles", "scrapes"}
  BY <1>0, <1>2 DEF Effect, DeleteScoped, DeleteVMServiceScrape, ClusterTypeOK
<1>3. CASE c.op = "deleteNs"
  <2>1. \/ \E kept \in {{}, {"claim"}} : Vanished(c.on, kept)
        \/ UNCHANGED clusterVars
    BY <1>3 DEF Effect, NamespaceGone, NamespaceUnstripped
  <2> QED
    BY <1>0, <1>3, <2>1, ObstacleFields
    DEF Adds, Vanished, NoRelease, ClusterTypeOK, clusterVars
<1>4. CASE c.op = "createNs"
  BY <1>0, <1>4 DEF Adds, Effect, CreateNamespace, ClusterTypeOK
<1>5. CASE c.op = "up"
  BY <1>0, <1>5 DEF Adds, Effect, Installed, ClusterTypeOK
<1>6. CASE c.op = "create"
  BY <1>0, <1>a, <1>6 DEF Adds, Effect, Created, ClusterTypeOK
<1>7. CASE c.op = "stopProducer"
  BY <1>0, <1>7 DEF Effect, DeleteLogProducerDeployment, ClusterTypeOK
<1>8. CASE c.op \in {"image", "waitPVC", "query", "collect"}
  BY <1>8 DEF Effect, clusterVars
<1> QED
  BY <1>1, <1>2, <1>3, <1>4, <1>5, <1>6, <1>7, <1>8 DEF Calls, Ops

\* Neither does the cluster by itself.
LEMMA ClusterStepAdds ==
  ASSUME ClusterTypeOK, ClusterStep, NEW o \in Obstacles, ~Present(o)
  PROVE  ~Present(o)'
<1>0. /\ o.on \in Namespaces
      /\ o.kind \in {"release", "undeployed", "webhook", "roles"} => o.on \in Releases
  BY ObstacleFields
<1>1. CASE \E i \in Instruments : Ingest(i)
  BY <1>1 DEF Ingest, Present
<1>2. ASSUME NEW n \in Namespaces, ns[n] = "terminating", NamespaceGone(n)
      PROVE  ~Present(o)'
  BY <1>0, <1>2 DEF Present, NamespaceGone, Vanished, NoRelease, ClusterTypeOK
<1>3. ASSUME NEW n \in Namespaces, ClaimGone(n) PROVE ~Present(o)'
  BY <1>0, <1>3 DEF Present, ClaimGone, ClusterTypeOK
<1> QED
  BY <1>1, <1>2, <1>3 DEF ClusterStep

-----------------------------------------------------------------------------
(* What the calls leave behind.                                             *)

\* The end of a namespace leaves nothing else, its claims stripped or not.
LEMMA VanishedLeaves ==
  ASSUME ClusterTypeOK, ScopedFromCharts, NEW n \in Namespaces, NEW kept \in SUBSET {"claim"},
         Vanished(n, kept)
  PROVE  ScopedFromCharts' /\ (AbsentIsEmpty => AbsentIsEmpty')
  BY DEF Vanished, ClusterTypeOK, ScopedFromCharts, AbsentIsEmpty

\* A call that nothing refuses fills no namespace that is absent, and puts nothing
\* outside of the namespaces that is not of the chart.
LEMMA EffectLeaves ==
  ASSUME ClusterTypeOK, ScopedFromCharts, NEW c \in Calls, NEW e, NEW a, NEW retention,
         ~Blocked(c), Effect(c, e, a, retention)
  PROVE  ScopedFromCharts' /\ (AbsentIsEmpty => AbsentIsEmpty')
<1>0. c.on \in Namespaces
  BY DEF Calls
<1> USE DEF ScopedFromCharts, AbsentIsEmpty
<1>1. CASE c.op = "uninstall"
  BY <1>0, <1>1 DEF Effect, Uninstalled, ClusterTypeOK
<1>2. CASE c.op \in {"webhooks", "roles", "scrapes"}
  BY <1>0, <1>2 DEF Effect, DeleteScoped, DeleteVMServiceScrape, ClusterTypeOK
<1>3. CASE c.op = "deleteNs"
  BY <1>0, <1>3, VanishedLeaves DEF Effect, NamespaceGone, clusterVars
<1>4. CASE c.op = "createNs"
  BY <1>0, <1>4 DEF Effect, CreateNamespace, ClusterTypeOK
<1>5. CASE c.op = "up"
  <2>1. Installed(c.on, a, retention, "deployed")
    BY <1>5 DEF Effect
  <2>2. ScopedFromCharts'
    BY <2>1 DEF Installed, ClusterTypeOK
  <2>3. AbsentIsEmpty => AbsentIsEmpty'
    BY <1>0, <2>1 DEF Installed, ClusterTypeOK
  <2> QED
    BY <2>2, <2>3
<1>6. CASE c.op = "create"
  <2>1. Created(c.on, c.what, e.instrument, e.load) /\ ns[c.on] = "active"
    BY <1>6 DEF Effect, Blocked
  <2> QED
    BY <1>0, <2>1 DEF Created, ClusterTypeOK
<1>7. CASE c.op = "stopProducer"
  BY <1>0, <1>7 DEF Effect, DeleteLogProducerDeployment, ClusterTypeOK
<1>8. CASE c.op \in {"image", "waitPVC", "query", "collect"}
  BY <1>8 DEF Effect, clusterVars
<1> QED
  BY <1>1, <1>2, <1>3, <1>4, <1>5, <1>6, <1>7, <1>8 DEF Calls, Ops

\* Nor does a call that fails, or the cluster.
LEMMA RemainsLeaves ==
  ASSUME ClusterTypeOK, ScopedFromCharts, NEW c \in Calls, NEW e, NEW a, NEW retention,
         Remains(c, e, a, retention)
  PROVE  ScopedFromCharts' /\ (AbsentIsEmpty => AbsentIsEmpty')
<1>0. c.on \in Namespaces
  BY DEF Calls
<1>1. CASE UNCHANGED clusterVars
  BY <1>1 DEF clusterVars, ScopedFromCharts, AbsentIsEmpty
<1>2. ASSUME NEW status, Installed(c.on, a, retention, status)
      PROVE  ScopedFromCharts' /\ (AbsentIsEmpty => AbsentIsEmpty')
  <2>1. ScopedFromCharts'
    BY <1>2 DEF Installed, ClusterTypeOK, ScopedFromCharts
  <2>2. AbsentIsEmpty => AbsentIsEmpty'
    BY <1>0, <1>2 DEF Installed, ClusterTypeOK, AbsentIsEmpty
  <2> QED
    BY <2>1, <2>2
<1>3. CASE /\ ns' = [ns EXCEPT ![c.on] = "terminating"]
           /\ UNCHANGED << release, objects, scoped, exporter, producer, ingested >>
  BY <1>3 DEF ClusterTypeOK, ScopedFromCharts, AbsentIsEmpty
<1>4. CASE ~Blocked(c) /\ Effect(c, e, a, retention)
  BY <1>4, EffectLeaves
<1> QED
  BY <1>1, <1>2, <1>3, <1>4 DEF Remains

\* The cluster empties the namespaces that go.
LEMMA ClusterStepLeaves ==
  ASSUME ClusterTypeOK, ScopedFromCharts, ClusterStep
  PROVE  ScopedFromCharts' /\ (AbsentIsEmpty => AbsentIsEmpty')
<1>1. ASSUME NEW i \in Instruments, Ingest(i)
      PROVE  ScopedFromCharts' /\ (AbsentIsEmpty => AbsentIsEmpty')
  BY <1>1 DEF Ingest, ClusterTypeOK, ScopedFromCharts, AbsentIsEmpty
<1>2. ASSUME NEW n \in Namespaces, NamespaceGone(n)
      PROVE  ScopedFromCharts' /\ (AbsentIsEmpty => AbsentIsEmpty')
  BY <1>2, VanishedLeaves DEF NamespaceGone
<1>3. ASSUME NEW n \in Namespaces, ClaimGone(n)
      PROVE  ScopedFromCharts' /\ (AbsentIsEmpty => AbsentIsEmpty')
  BY <1>3 DEF ClaimGone, ClusterTypeOK, ScopedFromCharts, AbsentIsEmpty
<1> QED
  BY <1>1, <1>2, <1>3 DEF ClusterStep

-----------------------------------------------------------------------------
(* The load.                                                                *)

StartsProducer(c) == c.op = "create" /\ c.what = "producer"

\* The load after a step is the one before it, or none, or that of experiment e.
LoadMoves(e) ==
  /\ exporter' \in {exporter, 0, e.load}
  /\ producer' \in {producer, NoProducer, [to |-> e.instrument, load |-> e.load]}

\* A call that returns nil changes the load that is made to its own or takes one away; only
\* one starts a producer.
LEMMA NilLoad ==
  ASSUME NEW c \in Calls, NEW e, NEW a, NEW retention, Nil(c, e, a, retention)
  PROVE  /\ LoadMoves(e)
         /\ ~StartsProducer(c) => producer' \in {producer, NoProducer}
         /\ c.op = "stopProducer" => producer' = NoProducer
<1> USE DEF Nil, LoadMoves, StartsProducer
<1>1. CASE c.op = "create"
  BY <1>1 DEF Effect, Created
<1>2. CASE c.op = "deleteNs"
  BY <1>2 DEF Effect, NamespaceGone, NamespaceUnstripped, Vanished, clusterVars
<1>3. CASE c.op = "stopProducer"
  BY <1>3 DEF Effect, DeleteLogProducerDeployment
<1>4. CASE c.op \notin {"create", "deleteNs", "stopProducer"}
  BY <1>4 DEF Effect, Uninstalled, DeleteScoped, DeleteVMServiceScrape, CreateNamespace,
              Installed, clusterVars
<1> QED
  BY <1>1, <1>2, <1>3, <1>4

\* So does one that fails.
LEMMA RemainsLoad ==
  ASSUME NEW c \in Calls, NEW e, NEW a, NEW retention, Remains(c, e, a, retention)
  PROVE  /\ LoadMoves(e)
         /\ ~StartsProducer(c) => producer' \in {producer, NoProducer}
<1>1. CASE UNCHANGED clusterVars
  BY <1>1 DEF clusterVars, LoadMoves
<1>2. CASE \E status : Installed(c.on, a, retention, status)
  BY <1>2 DEF Installed, LoadMoves
<1>3. CASE UNCHANGED << release, objects, scoped, exporter, producer, ingested >>
  BY <1>3 DEF LoadMoves
<1>4. CASE Effect(c, e, a, retention)
  BY <1>4, NilLoad DEF Nil
<1> QED
  BY <1>1, <1>2, <1>3, <1>4 DEF Remains

\* And the cluster.
LEMMA ClusterStepLoad ==
  ASSUME ClusterStep
  PROVE  exporter' \in {exporter, 0} /\ producer' \in {producer, NoProducer}
  BY DEF ClusterStep, Ingest, NamespaceGone, Vanished, ClaimGone

\* No call but those that touch a release adds to its volume or takes from it.
LEMMA NilVolume ==
  ASSUME NEW c \in Calls, NEW e, NEW a, NEW retention, NEW i \in Instruments,
         Nil(c, e, a, retention), ClusterTypeOK
  PROVE  /\ ~Touches(c, i) => ingested'[i] = ingested[i]
         /\ ingested'[i] \in {ingested[i], {}}
<1>1. CASE c.op = "deleteNs"
  BY <1>1 DEF Nil, Effect, NamespaceGone, NamespaceUnstripped, Vanished, Touches, clusterVars
<1>2. CASE c.op # "deleteNs"
  BY <1>2 DEF Nil, Effect, Uninstalled, DeleteScoped, DeleteVMServiceScrape, CreateNamespace,
              Installed, Created, DeleteLogProducerDeployment, clusterVars
<1> QED
  BY <1>1, <1>2

\* A stack ingests what it is served, and something.
LEMMA ClusterStepVolume ==
  ASSUME ClusterTypeOK, ClusterStep, NEW i \in Instruments
  PROVE  \/ ingested'[i] = ingested[i]
         \/ Served(i) # 0 /\ ingested'[i] = ingested[i] \cup {Served(i)}
         \/ ns[i] = "terminating" /\ ingested'[i] = {}
<1>1. ASSUME NEW j \in Instruments, Ingest(j)
      PROVE  \/ ingested'[i] = ingested[i]
             \/ Served(i) # 0 /\ ingested'[i] = ingested[i] \cup {Served(i)}
  BY <1>1 DEF Ingest, ClusterTypeOK
<1>2. ASSUME NEW n \in Namespaces, ns[n] = "terminating", NamespaceGone(n)
      PROVE  \/ ingested'[i] = ingested[i]
             \/ ns[i] = "terminating" /\ ingested'[i] = {}
  BY <1>2 DEF NamespaceGone, Vanished
<1>3. ASSUME NEW n \in Namespaces, ClaimGone(n) PROVE ingested'[i] = ingested[i]
  BY <1>3 DEF ClaimGone
<1> QED
  BY <1>1, <1>2, <1>3 DEF ClusterStep

\* A call that returns nil leaves every other release standing.
LEMMA NilKeeps ==
  ASSUME ClusterTypeOK, NEW c \in Calls, NEW e, NEW a, NEW retention,
         NEW r \in Releases, ns[r] = "active", ~Touches(c, r), Nil(c, e, a, retention)
  PROVE  release'[r] = release[r]
<1>1. CASE Effect(c, e, a, retention)
  BY <1>1, EffectKeeps
<1>2. CASE c.op = "deleteNs" /\ NamespaceUnstripped(c.on)
  BY <1>2 DEF Touches, NamespaceUnstripped, Vanished
<1> QED
  BY <1>1, <1>2 DEF Nil

\* Neither does a call that fails.
LEMMA RemainsVolume ==
  ASSUME NEW c \in Calls, NEW e, NEW a, NEW retention, NEW i \in Instruments,
         Remains(c, e, a, retention), ClusterTypeOK
  PROVE  ingested'[i] \in {ingested[i], {}}
<1>1. CASE Effect(c, e, a, retention)
  BY <1>1, NilVolume DEF Nil
<1>2. CASE ingested' = ingested
  BY <1>2
<1> QED
  BY <1>1, <1>2 DEF Remains, Installed, clusterVars

\* What a stack is served is the load of the exporter, or of the producer that is its own.
LEMMA ServedIs ==
  ASSUME NEW i \in Instruments
  PROVE  \/ Served(i) = 0
         \/ i \in MetricInstruments /\ Served(i) = exporter
         \/ i \in LogInstruments /\ producer.to = i /\ Served(i) = producer.load
<1>1. CASE i \in MetricInstruments
  BY <1>1 DEF Served, MetricInstruments
<1>2. CASE i \in LogInstruments
  BY <1>2 DEF Served, LogInstruments
<1> QED
  BY <1>1, <1>2 DEF Instruments

\* A stack is installed under the load that is there.
LEMMA InstalledExposes ==
  ASSUME ClusterTypeOK, NEW i \in Instruments, NEW by, NEW retention, NEW status,
         Installed(i, by, retention, status)
  PROVE  /\ i \in MetricInstruments => release'[i].exposed = exporter
         /\ i \in LogInstruments => release'[i].exposed = Served(i)
         /\ UNCHANGED << exporter, producer, ingested >>
<1>1. i \in Releases
  BY DEF Releases
<1>2. i \in LogInstruments => i \notin MetricInstruments
  BY DEF LogInstruments, MetricInstruments
<1> QED
  BY <1>1, <1>2 DEF Installed, ClusterTypeOK

-----------------------------------------------------------------------------
(* The order of the calls around the load.                                  *)

\* After call k nothing comes but queries, and the deletion of the producer.
StopAfter(s, k) ==
  /\ k < Len(s) /\ s[Len(s)].op = "stopProducer"
  /\ \A j \in (k + 1)..(Len(s) - 1) : s[j].op = "query"

\* A producer that is started will be stopped, and a query is followed by that only.
Orderly(s) ==
  \A k \in 1..Len(s) :
    /\ StartsProducer(s[k]) => StopAfter(s, k)
    /\ s[k].op = "query" => \A j \in (k + 1)..Len(s) : s[j].op = "stopProducer"

\* Every service makes its calls in that order (workload.go:48-75).
LEMMA AllOrderly ==
  /\ Orderly(MonitoringCalls) /\ Orderly(<< Call("collect", "monitoring") >>)
  /\ \A i \in Instruments : Orderly(DeployCalls(i)) /\ Orderly(WorkloadCalls(i))
<1> USE DEF Orderly, StopAfter, StartsProducer, Call, Create, Image, DiskObjects, RecreateNs
<1>1. Orderly(MonitoringCalls)
  BY DEF MonitoringCalls
<1>2. Orderly(PrometheusCalls)
  BY DEF PrometheusCalls
<1>3. Orderly(VictoriaMetricsCalls)
  BY DEF VictoriaMetricsCalls
<1>4. Orderly(LokiCalls)
  BY DEF LokiCalls
<1>5. Orderly(OpenSearchCalls)
  BY DEF OpenSearchCalls
<1>6. \A i : Orderly(UpMetricsProvider \o << Call("query", i) >>)
  BY DEF UpMetricsProvider
<1>7. \A i : Orderly(UpLogProvider \o << Call("query", i), Call("stopProducer", "log-producer") >>)
  BY DEF UpLogProvider
<1>8. Orderly(<< Call("collect", "monitoring") >>)
  OBVIOUS
<1> HIDE DEF Orderly
<1> QED
  BY <1>1, <1>2, <1>3, <1>4, <1>5, <1>6, <1>7, <1>8
  DEF DeployCalls, WorkloadCalls, Instruments, MetricInstruments, LogInstruments

\* A sequence and what is left of it after its first call.
LEMMA Tails ==
  ASSUME NEW s \in Seq(Calls), s # << >>
  PROVE  /\ Tail(s) \in Seq(Calls) /\ Len(Tail(s)) = Len(s) - 1
         /\ \A k \in 1..Len(Tail(s)) : k + 1 \in 1..Len(s) /\ Tail(s)[k] = s[k + 1]
         /\ Head(s) = s[1] /\ Len(s) \in Nat /\ Len(s) >= 1
  BY HeadTailProperties, EmptySeq

\* What is left after a call is still in order.
LEMMA TailOrderly ==
  ASSUME NEW s \in Seq(Calls), s # << >>, Orderly(s)
  PROVE  /\ Orderly(Tail(s))
         /\ StartsProducer(Head(s)) => StopAfter(Tail(s), 0)
         /\ Head(s).op = "query" => \A k \in 1..Len(Tail(s)) : Tail(s)[k].op = "stopProducer"
<1> DEFINE t == Tail(s)
<1>0. /\ Len(t) = Len(s) - 1 /\ Len(s) \in Nat /\ Len(s) >= 1 /\ Head(s) = s[1]
      /\ \A k \in 1..Len(t) : k + 1 \in 1..Len(s) /\ t[k] = s[k + 1]
  BY Tails
<1> HIDE DEF t
<1>1. ASSUME NEW k \in 0..Len(t), StopAfter(s, k + 1)
      PROVE  StopAfter(t, k)
  <2>1. t[Len(t)] = s[Len(s)] /\ k < Len(t)
    BY <1>0, <1>1 DEF StopAfter
  <2>2. \A j \in (k + 1)..(Len(t) - 1) : t[j].op = "query"
    BY <1>0, <1>1 DEF StopAfter
  <2> QED
    BY <1>1, <2>1, <2>2 DEF StopAfter
<1>2. ASSUME NEW k \in 1..Len(t)
      PROVE  /\ StartsProducer(t[k]) => StopAfter(t, k)
             /\ t[k].op = "query" => \A j \in (k + 1)..Len(t) : t[j].op = "stopProducer"
  <2>1. k + 1 \in 1..Len(s) /\ t[k] = s[k + 1]
    BY <1>0
  <2>2. StartsProducer(t[k]) => StopAfter(t, k)
    BY <1>1, <2>1 DEF Orderly
  <2>3. ASSUME t[k].op = "query", NEW j \in (k + 1)..Len(t)
        PROVE  t[j].op = "stopProducer"
    BY <1>0, <2>1, <2>3 DEF Orderly
  <2> QED
    BY <2>2, <2>3
<1>3. StartsProducer(s[1]) => StopAfter(t, 0)
  BY <1>0, <1>1 DEF Orderly
<1>4. s[1].op = "query" => \A k \in 1..Len(t) : t[k].op = "stopProducer"
  BY <1>0 DEF Orderly
<1> QED
  BY <1>0, <1>2, <1>3, <1>4 DEF Orderly, t

\* Once the producer runs, the call to make is a query or its deletion.
LEMMA TailStops ==
  ASSUME NEW s \in Seq(Calls), s # << >>, StopAfter(s, 0)
  PROVE  Head(s).op = "stopProducer" \/ (Head(s).op = "query" /\ StopAfter(Tail(s), 0))
<1>0. /\ Len(Tail(s)) = Len(s) - 1 /\ Len(s) \in Nat /\ Len(s) >= 1 /\ Head(s) = s[1]
      /\ \A k \in 1..Len(Tail(s)) : k + 1 \in 1..Len(s) /\ Tail(s)[k] = s[k + 1]
  BY Tails
<1>1. CASE Len(s) = 1
  BY <1>0, <1>1 DEF StopAfter
<1>2. CASE Len(s) > 1
  <2>1. Head(s).op = "query" /\ Tail(s)[Len(Tail(s))] = s[Len(s)]
    BY <1>0, <1>2 DEF StopAfter
  <2>2. \A j \in 1..(Len(Tail(s)) - 1) : Tail(s)[j].op = "query"
    BY <1>0 DEF StopAfter
  <2> QED
    BY <1>0, <1>2, <2>1, <2>2 DEF StopAfter
<1> QED
  BY <1>0, <1>1, <1>2

-----------------------------------------------------------------------------
(* Every obstacle of a call is out of the way when the call is made.        *)

\* By the time of call k of s obstacle o is out of the way: it is among those that are gone
\* and no call before puts it back, or a call before removes it and none after that puts
\* it back.
OutOfTheWay(s, k, o, gone) ==
  /\ o \in Obstacles
  /\ \/ o \in gone /\ \A m \in 1..(k - 1) : ~Adds(s[m], o)
     \/ \E j \in 1..(k - 1) :
          Removes(s[j], o) /\ \A m \in (j + 1)..(k - 1) : ~Adds(s[m], o)

Passes(s, gone) ==
  \A k \in 1..Len(s) : \A o \in InTheWay(s[k]) : OutOfTheWay(s, k, o, gone)

\* UpMonitoring passes whatever it finds.
LEMMA MonitoringPasses == Passes(MonitoringCalls, {})
  BY DEF MonitoringCalls, Call, Passes, OutOfTheWay, InTheWay, Removes, Adds, Obstacle, Object,
     Obstacles, ChartScoped, ChartObjects, Releases, Instruments, Finalized, Namespaces, Objects

\* So does the Deploy of every stack (clean-up first, then one plain create after another).
LEMMA DeployPasses == \A i \in Instruments : Passes(DeployCalls(i), {})
<1> USE DEF Passes, OutOfTheWay, InTheWay, Removes, Adds, Obstacle, Object, Obstacles, ChartScoped,
            ChartObjects, Releases, Instruments, MetricInstruments, LogInstruments,
            Finalized, Namespaces, Objects, Call, Create, Image, DiskObjects
<1>1. Passes(PrometheusCalls, {})
  <2> DEFINE s == PrometheusCalls
  <2>1. /\ Len(s) = 8
        /\ s[1] = Image("prometheus") /\ s[2] = Call("uninstall", "prometheus")
        /\ s[3] = Call("deleteNs", "prometheus") /\ s[4] = Call("up", "prometheus")
        /\ s[5] = Create("prometheus", "disk-exporter")
        /\ s[6] = Create("prometheus", "disk-service")
        /\ s[7] = Create("prometheus", "disk-monitor")
        /\ s[8] = Create("prometheus", "self-monitor")
    BY DEF PrometheusCalls
  <2> HIDE DEF s
  <2>2. \A k \in {1, 2, 3, 4} : \A o \in InTheWay(s[k]) : OutOfTheWay(s, k, o, {})
    BY <2>1
  <2>3. \A k \in {5, 6, 7, 8} : \A o \in InTheWay(s[k]) : OutOfTheWay(s, k, o, {})
    BY <2>1
  <2> HIDE DEF InTheWay, OutOfTheWay
  <2> QED
    BY <2>1, <2>2, <2>3 DEF s
<1>2. Passes(VictoriaMetricsCalls, {})
  <2> DEFINE s == VictoriaMetricsCalls
  <2>1. /\ Len(s) = 13
        /\ s[1] = Image("victoria_metrics") /\ s[2] = Call("webhooks", "victoria_metrics")
        /\ s[3] = Call("uninstall", "victoria_metrics")
        /\ s[4] = Call("roles", "victoria_metrics")
        /\ s[5] = Call("scrapes", "victoria_metrics")
        /\ s[6] = Call("deleteNs", "victoria_metrics")
        /\ s[7] = Call("up", "victoria_metrics")
        /\ s[8] = Call("webhooks", "victoria_metrics")
        /\ s[9] = Create("victoria_metrics", "scrape")
        /\ s[10] = Create("victoria_metrics", "disk-exporter")
        /\ s[11] = Create("victoria_metrics", "disk-service")
        /\ s[12] = Create("victoria_metrics", "disk-monitor")
        /\ s[13] = Create("victoria_metrics", "self-monitor")
    BY DEF VictoriaMetricsCalls
  <2> HIDE DEF s
  <2>2. \A k \in {1, 2, 3, 4, 5, 6} : \A o \in InTheWay(s[k]) : OutOfTheWay(s, k, o, {})
    BY <2>1
  <2>3. \A o \in InTheWay(s[7]) : OutOfTheWay(s, 7, o, {})
    BY <2>1
  <2>4. \A o \in InTheWay(s[8]) : OutOfTheWay(s, 8, o, {})
    BY <2>1
  <2>5. \A o \in InTheWay(s[9]) : OutOfTheWay(s, 9, o, {})
    BY <2>1
  <2>6. \A o \in InTheWay(s[10]) : OutOfTheWay(s, 10, o, {})
    BY <2>1
  <2>7. \A o \in InTheWay(s[11]) : OutOfTheWay(s, 11, o, {})
    BY <2>1
  <2>8. \A o \in InTheWay(s[12]) : OutOfTheWay(s, 12, o, {})
    BY <2>1
  <2>9. \A o \in InTheWay(s[13]) : OutOfTheWay(s, 13, o, {})
    BY <2>1
  <2> HIDE DEF InTheWay, OutOfTheWay
  <2> QED
    BY <2>1, <2>2, <2>3, <2>4, <2>5, <2>6, <2>7, <2>8, <2>9 DEF s
<1>3. Passes(LokiCalls, {})
  <2> DEFINE s == LokiCalls
  <2>1. /\ Len(s) = 9
        /\ s[1] = Call("uninstall", "loki") /\ s[2] = Call("deleteNs", "loki")
        /\ s[3] = Call("up", "loki") /\ s[4] = Create("loki", "self-monitor")
        /\ s[5] = Image("loki") /\ s[6] = Call("waitPVC", "loki")
        /\ s[7] = Create("loki", "disk-exporter")
        /\ s[8] = Create("loki", "disk-service")
        /\ s[9] = Create("loki", "disk-monitor")
    BY DEF LokiCalls
  <2> HIDE DEF s
  <2>2. \A k \in {1, 2, 3} : \A o \in InTheWay(s[k]) : OutOfTheWay(s, k, o, {})
    BY <2>1
  <2>3. \A k \in {4, 5, 6} : \A o \in InTheWay(s[k]) : OutOfTheWay(s, k, o, {})
    BY <2>1
  <2>4. \A k \in {7, 8, 9} : \A o \in InTheWay(s[k]) : OutOfTheWay(s, k, o, {})
    BY <2>1
  <2> HIDE DEF InTheWay, OutOfTheWay
  <2> QED
    BY <2>1, <2>2, <2>3, <2>4 DEF s
<1>4. Passes(OpenSearchCalls, {})
  <2> DEFINE s == OpenSearchCalls
  <2>1. /\ Len(s) = 7
        /\ s[1] = Call("uninstall", "opensearch") /\ s[2] = Call("deleteNs", "opensearch")
        /\ s[3] = Call("up", "opensearch") /\ s[4] = Image("opensearch")
        /\ s[5] = Create("opensearch", "disk-exporter")
        /\ s[6] = Create("opensearch", "disk-service")
        /\ s[7] = Create("opensearch", "disk-monitor")
    BY DEF OpenSearchCalls
  <2> HIDE DEF s
  <2>2. \A k \in {1, 2, 3, 4} : \A o \in InTheWay(s[k]) : OutOfTheWay(s, k, o, {})
    BY <2>1
  <2>3. \A k \in {5, 6, 7} : \A o \in InTheWay(s[k]) : OutOfTheWay(s, k, o, {})
    BY <2>1
  <2> HIDE DEF InTheWay, OutOfTheWay
  <2> QED
    BY <2>1, <2>2, <2>3 DEF s
<1> HIDE DEF Passes
<1> QED
  BY <1>1, <1>2, <1>3, <1>4 DEF DeployCalls

\* The workload passes when its stack is up.
LEMMA WorkloadPasses ==
  \A i \in Instruments : Passes(WorkloadCalls(i), {Obstacle("undeployed", i)})
<1> USE DEF Passes, OutOfTheWay, InTheWay, Removes, Adds, Obstacle, Object, Obstacles, ChartScoped,
            ChartObjects, Releases, Instruments, MetricInstruments, LogInstruments,
            Finalized, Namespaces, Objects, Call, Create, Image, RecreateNs
<1>1. ASSUME NEW i \in Instruments, ~IsLogBackend(i)
      PROVE  Passes(WorkloadCalls(i), {Obstacle("undeployed", i)})
  <2> DEFINE s == WorkloadCalls(i)
             up == {Obstacle("undeployed", i)}
  <2>1. /\ Len(s) = 6
        /\ s[1] = Image("metrics-provider") /\ s[2] = Call("deleteNs", "metrics-provider")
        /\ s[3] = Call("createNs", "metrics-provider")
        /\ s[4] = Create("metrics-provider", "exporter")
        /\ s[5] = Create("metrics-provider", "exporter-service")
        /\ s[6] = Call("query", i)
    BY <1>1 DEF WorkloadCalls, UpMetricsProvider
  <2> HIDE DEF s
  <2>2. \A k \in {1, 2, 3} : \A o \in InTheWay(s[k]) : OutOfTheWay(s, k, o, up)
    BY <2>1
  <2>3. \A k \in {4, 5} : \A o \in InTheWay(s[k]) : OutOfTheWay(s, k, o, up)
    BY <2>1
  <2>4. \A o \in InTheWay(s[6]) : OutOfTheWay(s, 6, o, up)
    BY <2>1
  <2> HIDE DEF InTheWay, OutOfTheWay, up
  <2>5. \A k \in 1..Len(s) : \A o \in InTheWay(s[k]) : OutOfTheWay(s, k, o, up)
    BY <2>1, <2>2, <2>3, <2>4
  <2> QED
    BY <2>5 DEF s, up
<1>2. ASSUME NEW i \in Instruments, IsLogBackend(i)
      PROVE  Passes(WorkloadCalls(i), {Obstacle("undeployed", i)})
  <2> DEFINE s == WorkloadCalls(i)
             up == {Obstacle("undeployed", i)}
  <2>1. /\ Len(s) = 6
        /\ s[1] = Image("log-producer") /\ s[2] = Call("deleteNs", "log-producer")
        /\ s[3] = Call("createNs", "log-producer")
        /\ s[4] = Create("log-producer", "producer")
        /\ s[5] = Call("query", i) /\ s[6] = Call("stopProducer", "log-producer")
    BY <1>2 DEF WorkloadCalls, UpLogProvider
  <2> HIDE DEF s
  <2>2. \A k \in {1, 2, 3} : \A o \in InTheWay(s[k]) : OutOfTheWay(s, k, o, up)
    BY <2>1
  <2>3. \A o \in InTheWay(s[4]) : OutOfTheWay(s, 4, o, up)
    BY <2>1
  <2>4. \A k \in {5, 6} : \A o \in InTheWay(s[k]) : OutOfTheWay(s, k, o, up)
    BY <2>1
  <2> HIDE DEF InTheWay, OutOfTheWay, up
  <2>5. \A k \in 1..Len(s) : \A o \in InTheWay(s[k]) : OutOfTheWay(s, k, o, up)
    BY <2>1, <2>2, <2>3, <2>4
  <2> QED
    BY <2>5 DEF s, up
<1> HIDE DEF Passes
<1> QED
  BY <1>1, <1>2

\* The collection passes when the central Prometheus is up.
LEMMA CollectPasses ==
  Passes(<< Call("collect", "monitoring") >>, {Obstacle("undeployed", "monitoring")})
  BY DEF Passes, OutOfTheWay, InTheWay, Obstacle, Obstacles, Releases, Call

\* More that is gone is no hindrance.
LEMMA MorePasses ==
  ASSUME NEW s, NEW gone, NEW more, gone \subseteq more, Passes(s, gone)
  PROVE  Passes(s, more)
  BY DEF Passes, OutOfTheWay

\* What a call leaves to do passes with what the call has removed, and what it finds was gone.
LEMMA TailPasses ==
  ASSUME NEW s \in Seq(Calls), s # << >>, NEW gone, Passes(s, gone), NEW later,
         \A o \in Obstacles :
           Removes(Head(s), o) \/ (o \in gone /\ ~Adds(Head(s), o)) => o \in later
  PROVE  /\ Passes(Tail(s), later)
         /\ \A o \in InTheWay(Head(s)) : o \in Obstacles /\ o \in gone
<1>1. /\ Len(Tail(s)) = Len(s) - 1 /\ Len(s) \in Nat /\ Len(s) >= 1 /\ Head(s) = s[1]
      /\ \A k \in 1..Len(Tail(s)) : k + 1 \in 1..Len(s) /\ Tail(s)[k] = s[k + 1]
  BY Tails
<1>2. ASSUME NEW k \in 1..Len(Tail(s)), NEW o \in InTheWay(Tail(s)[k])
      PROVE  OutOfTheWay(Tail(s), k, o, later)
  <2>1. k + 1 \in 1..Len(s) /\ OutOfTheWay(s, k + 1, o, gone)
    BY <1>1, <1>2 DEF Passes
  <2>2. \A m \in 1..(k - 1) : Tail(s)[m] = s[m + 1]
    BY <1>1
  <2>3. CASE o \in gone /\ \A m \in 1..k : ~Adds(s[m], o)
    <3>1. o \in Obstacles /\ ~Adds(Head(s), o)
      BY <1>1, <2>1, <2>3 DEF OutOfTheWay
    <3>2. \A m \in 1..(k - 1) : ~Adds(Tail(s)[m], o)
      BY <2>2, <2>3
    <3> QED
      BY <2>3, <3>1, <3>2 DEF OutOfTheWay
  <2>4. ASSUME NEW j \in 1..k, Removes(s[j], o), \A m \in (j + 1)..k : ~Adds(s[m], o)
        PROVE  OutOfTheWay(Tail(s), k, o, later)
    <3>1. o \in Obstacles
      BY <2>1 DEF OutOfTheWay
    <3>2. CASE j = 1
      <4>1. o \in later
        BY <1>1, <2>4, <3>1, <3>2
      <4>2. \A m \in 1..(k - 1) : ~Adds(Tail(s)[m], o)
        BY <2>2, <2>4, <3>2
      <4> QED
        BY <3>1, <4>1, <4>2 DEF OutOfTheWay
    <3>3. CASE j # 1
      <4>1. j - 1 \in 1..(k - 1) /\ Removes(Tail(s)[j - 1], o)
        BY <2>2, <2>4, <3>3
      <4>2. \A m \in ((j - 1) + 1)..(k - 1) : ~Adds(Tail(s)[m], o)
        BY <2>2, <2>4, <3>3
      <4> QED
        BY <3>1, <4>1, <4>2 DEF OutOfTheWay
    <3> QED
      BY <3>2, <3>3
  <2> QED
    BY <2>1, <2>3, <2>4 DEF OutOfTheWay
<1>3. ASSUME NEW o \in InTheWay(Head(s)) PROVE o \in Obstacles /\ o \in gone
  <2>1. OutOfTheWay(s, 1, o, gone)
    BY <1>1, <1>3 DEF Passes
  <2> QED
    BY <2>1 DEF OutOfTheWay
<1> QED
  BY <1>2, <1>3 DEF Passes

-----------------------------------------------------------------------------
(* The calls left to do.                                                    *)

OrderInv ==
  /\ Orderly(todo)
  /\ err => \A k \in 1..Len(todo) : todo[k].op = "stopProducer"
  /\ stage \in {"idle", "save", "saved"} => todo = << >>

\* There is nothing out of order about no calls.
LEMMA NoneOrderly == Orderly(<< >>) /\ \A gone : Passes(<< >>, gone)
  BY DEF Orderly, Passes

\* The calls left to do are in order; after an error only the deletion of the producer is.
LEMMA OrderStep ==
  ASSUME TypeInv, OrderInv, [Next]_vars
  PROVE  OrderInv'
<1>0. stage # "idle" => Entry.instrument \in Instruments
  BY EntryType DEF TypeInv, TypeOK, Busy
<1>1. CASE StartExperiment
  BY <1>1, AllOrderly DEF StartExperiment, OrderInv
<1>2. CASE \/ CallReturns \/ ListFails \/ StripFails
           \/ SignalInDeletion /\ todo' = Tail(todo) /\ err' = err
  <2>1. AtCall /\ todo' = Tail(todo) /\ UNCHANGED << stage, err >>
    BY <1>2 DEF CallReturns, ListFails, StripFails, SignalInDeletion, InDeletion
  <2>2. todo \in Seq(Calls) /\ todo # << >>
    BY <2>1 DEF AtCall, TypeInv, TypeOK, RunTypeOK
  <2>3. Orderly(todo')
    BY <2>1, <2>2, TailOrderly DEF OrderInv
  <2>4. \A k \in 1..Len(todo') : \E j \in 1..Len(todo) : todo'[k] = todo[j]
    BY <2>1, <2>2, Tails
  <2> QED
    BY <2>1, <2>2, <2>3, <2>4 DEF OrderInv
<1>13. CASE SignalInDeletion /\ ~(todo' = Tail(todo) /\ err' = err)
  BY <1>13, NoneOrderly DEF SignalInDeletion, OrderInv
<1>3. CASE CallRefused \/ CallCancelled \/ CallFails
  <2>1. AtCall /\ GiveUp(Head(todo)) /\ UNCHANGED stage
    BY <1>3 DEF CallRefused, CallCancelled, CallFails, GiveUp
  <2>2. todo \in Seq(Calls) /\ todo # << >>
    BY <2>1 DEF AtCall, TypeInv, TypeOK, RunTypeOK
  <2>3. CASE Head(todo).op = "stopProducer"
    <3>1. todo' = Tail(todo) /\ err' = err
      BY <2>1, <2>3 DEF GiveUp
    <3>2. \A k \in 1..Len(todo') : \E j \in 1..Len(todo) : todo'[k] = todo[j]
      BY <2>2, <3>1, Tails
    <3> QED
      BY <2>1, <2>2, <3>1, <3>2, TailOrderly DEF OrderInv
  <2>4. CASE Head(todo).op = "query"
    <3>1. todo' = Tail(todo)
      BY <2>1, <2>4 DEF GiveUp, Deferred
    <3> QED
      BY <2>1, <2>2, <2>4, <3>1, TailOrderly DEF OrderInv
  <2>5. CASE Head(todo).op \notin {"stopProducer", "query"}
    <3>1. todo' = << >>
      BY <2>1, <2>5 DEF GiveUp, Deferred
    <3> QED
      BY <3>1, NoneOrderly DEF OrderInv
  <2> QED
    BY <2>3, <2>4, <2>5
<1>4. CASE Deploy
  BY <1>0, <1>4, AllOrderly DEF Deploy, NextStage, OrderInv
<1>5. CASE Run
  BY <1>0, <1>5, AllOrderly DEF Run, NextStage, OrderInv
<1>6. CASE Collect
  BY <1>6, AllOrderly DEF Collect, NextStage, OrderInv
<1>7. CASE StartSave
  BY <1>7, NoneOrderly DEF StartSave, NextStage, OrderInv
<1>8. CASE SaveFails
  BY <1>8, NoneOrderly DEF SaveFails, OrderInv
<1>9. CASE Save
  BY <1>9 DEF Save, OrderInv
<1>10. CASE Crash
  BY <1>10, NoneOrderly DEF Crash, OrderInv
<1>11. CASE SkipInvalid \/ Exit \/ Signal \/ Restart \/ Environment \/ UNCHANGED vars
  BY <1>11 DEF SkipInvalid, Exit, Signal, Restart, Environment, runVars, vars, OrderInv
<1>12. CASE ExperimentFails \/ ExperimentSucceeds
  BY <1>12 DEF ExperimentFails, ExperimentSucceeds, OrderInv
<1> QED
  BY <1>1, <1>2, <1>3, <1>4, <1>5, <1>6, <1>7, <1>8, <1>9, <1>10, <1>11, <1>12, <1>13
  DEF Next, BenchStep, Terminating

\* They are so in every state.
LEMMA OrderInvariant == Spec => [](TypeInv /\ OrderInv)
<1>1. Init => OrderInv
  BY NoneOrderly DEF Init, ProcessInit, OrderInv
<1>2. TypeInv /\ OrderInv /\ [Next]_vars => OrderInv'
  BY OrderStep
<1> QED
  BY <1>1, <1>2, TypeInvariant, PTL DEF Spec

-----------------------------------------------------------------------------
(* No producer is left behind.                                              *)

\* A producer that no failure has left is one whose deletion is still to be made.
LoadInv == ~leaked /\ producer # NoProducer => StopAfter(todo, 0)

\* Every step keeps it so.
LEMMA LoadStep ==
  ASSUME TypeInv, OrderInv, LoadInv, [Next]_vars
  PROVE  LoadInv'
<1>0. AtCall => todo \in Seq(Calls) /\ todo # << >> /\ Head(todo) \in Calls
  BY HeadType DEF AtCall, TypeInv, TypeOK, RunTypeOK
<1>n. ~StopAfter(<< >>, 0)
  BY DEF StopAfter
<1>1. CASE CallReturns \/ StripFails
  <2>1. /\ AtCall /\ Nil(Head(todo), Entry, attempt, RetentionOf(Head(todo).on))
        /\ todo' = Tail(todo) /\ leaked' = leaked
    BY <1>1 DEF CallReturns, StripFails, InDeletion, Effects, Nil, historyVars
  <2>2. SUFFICES ASSUME ~leaked, producer' # NoProducer
                 PROVE  StopAfter(Tail(todo), 0)
    BY <2>1 DEF LoadInv
  <2>3. CASE StartsProducer(Head(todo))
    BY <1>0, <2>1, <2>3, TailOrderly DEF OrderInv
  <2>4. CASE ~StartsProducer(Head(todo))
    <3>1. producer' = producer /\ Head(todo).op # "stopProducer"
      BY <1>0, <2>1, <2>2, <2>4, NilLoad
    <3>2. StopAfter(todo, 0)
      BY <2>2, <3>1 DEF LoadInv
    <3> QED
      BY <1>0, <2>1, <3>1, <3>2, TailStops
  <2> QED
    BY <2>3, <2>4
<1>2. CASE CallRefused \/ ListFails
  <2>1. AtCall /\ leaked' = leaked /\ producer' = producer
    BY <1>2 DEF CallRefused, ListFails, clusterVars
  <2>2. SUFFICES ASSUME ~leaked, producer # NoProducer
                 PROVE  StopAfter(todo, 0)'
    BY <2>1 DEF LoadInv
  <2>3. StopAfter(todo, 0)
    BY <2>2 DEF LoadInv
  <2>4. Head(todo).op = "query" /\ StopAfter(Tail(todo), 0)
    BY <1>0, <1>2, <2>1, <2>3, TailStops DEF CallRefused, ListFails, Blocked
  <2> QED
    BY <1>2, <2>4 DEF CallRefused, ListFails, GiveUp, Deferred
<1>3. CASE CallCancelled \/ CallFails
  <2>1. /\ AtCall /\ GiveUp(Head(todo))
        /\ Head(todo).op \in {"create", "stopProducer"} /\ producer' # NoProducer => leaked'
        /\ leaked => leaked'
    BY <1>3 DEF CallCancelled, CallFails, Leaks, IgnoresCtx
  <2>2. SUFFICES ASSUME ~leaked', producer' # NoProducer
                 PROVE  StopAfter(todo, 0)'
    BY DEF LoadInv
  <2>3. Head(todo).op \notin {"create", "stopProducer"} /\ ~leaked
    BY <2>1, <2>2
  <2>4. producer' = producer
    <3>1. Remains(Head(todo), Entry, attempt, RetentionOf(Head(todo).on))
      BY <1>3 DEF CallCancelled, CallFails
    <3> QED
      BY <1>0, <2>1, <2>2, <2>3, <3>1, RemainsLoad DEF StartsProducer
  <2>5. StopAfter(todo, 0)
    BY <2>2, <2>3, <2>4 DEF LoadInv
  <2>6. Head(todo).op = "query" /\ StopAfter(Tail(todo), 0)
    BY <1>0, <2>1, <2>3, <2>5, TailStops
  <2> QED
    BY <2>1, <2>6 DEF GiveUp, Deferred
<1>10. CASE SignalInDeletion
  <2>1. /\ AtCall /\ Head(todo).op = "deleteNs" /\ leaked' = leaked
        /\ producer' \in {producer, NoProducer}
    BY <1>10 DEF SignalInDeletion, InDeletion, NamespaceForced
  <2>2. ~StopAfter(todo, 0)
    BY <1>0, <2>1, TailStops
  <2> QED
    BY <2>1, <2>2 DEF LoadInv
<1>4. CASE Environment
  <2>1. todo' = todo /\ leaked' = leaked /\ producer' \in {producer, NoProducer}
    BY <1>4, ClusterStepLoad DEF Environment, runVars, historyVars
  <2> QED
    BY <2>1 DEF LoadInv
<1>5. CASE Crash
  BY <1>5 DEF Crash, LoadInv
<1>6. CASE StartExperiment
  BY <1>6, <1>n DEF StartExperiment, clusterVars, LoadInv, Idle, OrderInv
<1>7. CASE Deploy \/ Run \/ Collect \/ StartSave
  BY <1>7, <1>n DEF Deploy, Run, Collect, StartSave, NextStage, clusterVars, historyVars, LoadInv
<1>8. CASE SkipInvalid \/ Exit \/ Signal \/ Restart \/ UNCHANGED vars
  BY <1>8 DEF SkipInvalid, Exit, Signal, Restart, runVars, historyVars, clusterVars, vars, LoadInv
<1>9. CASE ExperimentFails \/ ExperimentSucceeds \/ Save \/ SaveFails
  BY <1>9 DEF ExperimentFails, ExperimentSucceeds, Save, SaveFails, runVars, historyVars,
     clusterVars, LoadInv
<1> QED
  BY <1>1, <1>2, <1>3, <1>4, <1>5, <1>6, <1>7, <1>8, <1>9, <1>10 DEF Next, BenchStep, Terminating

\* They hold in every state.
LEMMA LoadInvariant == Spec => [](TypeInv /\ OrderInv /\ LoadInv)
<1>1. Init => LoadInv
  BY DEF Init, ClusterInit, LoadInv
<1>2. TypeInv /\ OrderInv /\ LoadInv /\ [Next]_vars => LoadInv'
  BY LoadStep
<1> QED
  BY <1>1, <1>2, OrderInvariant, PTL DEF Spec

\* Between two experiments no log load runs, whatever has failed in them or come in between,
\* unless the deletion of the producer itself has failed or the process has died
\* (workload.go:66-72).
THEOREM LoadIsStopped == Spec => []LoadStopped
<1>1. OrderInv /\ LoadInv => LoadStopped
  BY DEF OrderInv, LoadInv, LoadStopped, StopAfter, Idle
<1> QED
  BY <1>1, LoadInvariant, PTL

-----------------------------------------------------------------------------
(* No call is refused for what an earlier experiment has left.              *)

\* The obstacles that are not there; once a call of this experiment has failed and was
\* passed over, finalized custom resources may be.
Gone == { o \in Obstacles : ~Present(o) \/ (hit /\ o.what \in Finalized) }

LeftInv ==
  /\ ScopedFromCharts
  /\ ~orphaned => AbsentIsEmpty
  /\ ~orphaned /\ ~err => Passes(todo, Gone)

\* No namespace is finalized with its content but by a signal during its deletion.
LEMMA OrphanMoves ==
  ASSUME TypeInv, [Next]_vars
  PROVE  orphaned' = orphaned \/ SignalInDeletion
  BY DEF Next, BenchStep, SkipInvalid, StartExperiment, ExperimentFails, ExperimentSucceeds,
     Exit, CallReturns, CallRefused, CallCancelled, CallFails, ListFails, StripFails, Deploy, Run, Collect, StartSave,
     NextStage, Save, SaveFails, Signal, Crash, Restart, Environment, Terminating,
     historyVars, vars

\* What a namespace and a chart leave is bounded in every state.
LEMMA LeavesStep ==
  ASSUME TypeInv, LeftInv, [Next]_vars
  PROVE  ScopedFromCharts' /\ (~orphaned' => ~orphaned /\ AbsentIsEmpty')
<1>0. ClusterTypeOK /\ ScopedFromCharts /\ (~orphaned => AbsentIsEmpty)
  BY DEF TypeInv, TypeOK, LeftInv
<1> DEFINE c == Head(todo)
           a == RetentionOf(c.on)
<1>1. ASSUME AtCall, Remains(c, Entry, attempt, a)
      PROVE  ScopedFromCharts' /\ (AbsentIsEmpty => AbsentIsEmpty')
  BY <1>0, <1>1, HeadType, RemainsLeaves
<1>2. CASE SignalInDeletion
  BY <1>0, <1>2 DEF SignalInDeletion, NamespaceForced, ScopedFromCharts
<1>4. CASE StripFails
  <2>1. AtCall /\ NamespaceUnstripped(c.on) /\ orphaned' = orphaned
    BY <1>4 DEF StripFails, InDeletion
  <2>2. c.on \in Namespaces
    BY <2>1, HeadType DEF Calls
  <2> QED
    BY <1>0, <2>1, <2>2, VanishedLeaves DEF NamespaceUnstripped
<1>3. CASE ~SignalInDeletion /\ ~StripFails
  <2>0. orphaned' = orphaned
    BY <1>3, OrphanMoves
  <2>1. CASE UNCHANGED clusterVars
    BY <1>0, <2>0, <2>1 DEF clusterVars, ScopedFromCharts, AbsentIsEmpty
  <2>2. CASE ClusterStep
    BY <1>0, <2>0, <2>2, ClusterStepLeaves
  <2>3. CASE AtCall /\ CallReturns /\ Effects(c)
    <3>1. ~Blocked(c) /\ c \in Calls
      BY <2>3, HeadType DEF CallReturns
    <3> QED
      BY <1>0, <2>0, <2>3, <3>1, EffectLeaves DEF Effects
  <2>4. CASE AtCall /\ Remains(c, Entry, attempt, a)
    BY <1>0, <1>1, <2>0, <2>4
  <2> QED
    BY <1>3, <2>1, <2>2, <2>3, <2>4, ClusterMoves DEF vars
<1> QED
  BY <1>2, <1>3, <1>4

\* What is gone stays gone while no call is made.
LEMMA GoneStays ==
  ASSUME TypeInv, ClusterStep \/ UNCHANGED clusterVars, hit' = hit \/ hit' = TRUE
  PROVE  Gone \subseteq Gone'
<1>1. ASSUME NEW o \in Obstacles, ~Present(o) PROVE ~Present(o)'
  BY <1>1, ClusterStepAdds DEF TypeInv, TypeOK, Present, clusterVars
<1> QED
  BY <1>1 DEF Gone, TypeInv, TypeOK, RunTypeOK

\* The calls left to do pass, whatever becomes of the one that is made.
LEMMA PassesStep ==
  ASSUME TypeInv, StackInv, OrderInv, LeftInv, [Next]_vars, ~orphaned, ~orphaned', ~err'
  PROVE  Passes(todo, Gone)'
<1>0. /\ ClusterTypeOK /\ ScopedFromCharts /\ AbsentIsEmpty /\ hit \in BOOLEAN
      /\ ~err => Passes(todo, Gone)
      /\ AtCall => todo \in Seq(Calls) /\ todo # << >> /\ Head(todo) \in Calls
      /\ stage # "idle" => Entry.instrument \in Instruments
  BY HeadType, EntryType DEF TypeInv, TypeOK, RunTypeOK, LeftInv, AtCall, Busy
<1>1. CASE CallReturns \/ StripFails
  <2>1. /\ AtCall /\ Nil(Head(todo), Entry, attempt, RetentionOf(Head(todo).on))
        /\ todo' = Tail(todo) /\ hit' = hit /\ ~err
    BY <1>1 DEF CallReturns, StripFails, InDeletion, Effects, Nil, historyVars
  <2>2. ASSUME NEW o \in Obstacles, Removes(Head(todo), o) PROVE o \in Gone'
    BY <1>0, <2>1, <2>2, NilRemoves DEF Gone
  <2>3. ASSUME NEW o \in Obstacles, o \in Gone, ~Adds(Head(todo), o) PROVE o \in Gone'
    BY <1>0, <2>1, <2>3, NilAdds DEF Gone
  <2> QED
    BY <1>0, <2>1, <2>2, <2>3, TailPasses
<1>2. CASE ListFails
  <2>1. /\ AtCall /\ Head(todo).op = "scrapes" /\ todo' = Tail(todo) /\ hit' = TRUE /\ ~err
        /\ UNCHANGED clusterVars
    BY <1>2 DEF ListFails
  <2>2. \A o \in Obstacles : Removes(Head(todo), o) => o \in Gone'
    BY <2>1 DEF Removes, Gone
  <2>3. Gone \subseteq Gone'
    BY <2>1, GoneStays
  <2> QED
    BY <1>0, <2>1, <2>2, <2>3, TailPasses
<1>3. CASE CallRefused \/ CallCancelled \/ CallFails
  <2>1. AtCall /\ GiveUp(Head(todo))
    BY <1>3 DEF CallRefused, CallCancelled, CallFails
  <2>2. Head(todo).op = "stopProducer" /\ todo' = Tail(todo) /\ ~err
    BY <2>1 DEF GiveUp
  <2>3. UNCHANGED clusterVars /\ (hit' = hit \/ hit' = TRUE)
    BY <1>3, <2>2 DEF CallRefused, CallCancelled, CallFails, IgnoresCtx, Remains
  <2>4. Gone \subseteq Gone'
    BY <2>3, GoneStays
  <2>5. \A o : ~Removes(Head(todo), o)
    BY <2>2 DEF Removes
  <2> QED
    BY <1>0, <2>1, <2>2, <2>4, <2>5, TailPasses
<1>4. CASE StartExperiment
  BY <1>4, MonitoringPasses, MorePasses DEF StartExperiment
<1>5. CASE Deploy
  BY <1>0, <1>5, DeployPasses, MorePasses DEF Deploy, NextStage
<1>6. CASE Run \/ Collect
  <2>1. ~err /\ todo = << >> /\ stage \in {"deploy", "workload"} /\ UNCHANGED clusterVars
    BY <1>6 DEF Run, Collect, NextStage
  <2>2. Up("monitoring") /\ Up(Entry.instrument)
    BY <2>1, NothingLeft DEF StackInv, Stands
  <2>3. ASSUME NEW r \in Releases, Up(r) PROVE Obstacle("undeployed", r) \in Gone'
    <3>1. Obstacle("undeployed", r) \in Obstacles
      BY DEF Obstacle, Obstacles
    <3>2. ~Present(Obstacle("undeployed", r))'
      BY <2>1, <2>3 DEF Obstacle, Present, Up, clusterVars
    <3> QED
      BY <3>1, <3>2 DEF Gone
  <2>4. CASE Run
    <3>1. todo' = WorkloadCalls(Entry.instrument) /\ Entry.instrument \in Instruments
      BY <1>0, <2>4 DEF Run, NextStage
    <3>2. {Obstacle("undeployed", Entry.instrument)} \subseteq Gone'
      BY <2>2, <2>3, <3>1 DEF Releases
    <3>3. Passes(WorkloadCalls(Entry.instrument), {Obstacle("undeployed", Entry.instrument)})
      BY <3>1, WorkloadPasses
    <3>4. Passes(WorkloadCalls(Entry.instrument), Gone')
      BY <3>2, <3>3, MorePasses
    <3> QED
      BY <3>1, <3>4
  <2>5. CASE Collect
    <3>1. {Obstacle("undeployed", "monitoring")} \subseteq Gone'
      BY <2>2, <2>3 DEF Releases
    <3> QED
      BY <2>5, <3>1, CollectPasses, MorePasses DEF Collect, NextStage
  <2> QED
    BY <1>6, <2>4, <2>5
<1>7. CASE StartSave \/ Crash
  BY <1>7, NoneOrderly DEF StartSave, NextStage, Crash
<1>8. CASE SaveFails
  BY <1>8 DEF SaveFails
<1>9. CASE \/ SkipInvalid \/ Exit \/ Signal \/ Restart \/ Environment \/ UNCHANGED vars
           \/ ExperimentFails \/ ExperimentSucceeds \/ Save
  <2>1. /\ todo' = todo /\ err' = err /\ hit' = hit
        /\ ClusterStep \/ UNCHANGED clusterVars
    BY <1>9 DEF SkipInvalid, Exit, Signal, Restart, Environment, ExperimentFails,
       ExperimentSucceeds, Save, runVars, historyVars, vars
  <2> QED
    BY <1>0, <2>1, GoneStays, MorePasses
<1>10. CASE SignalInDeletion
  BY <1>10 DEF SignalInDeletion
<1> QED
  BY <1>1, <1>2, <1>3, <1>4, <1>5, <1>6, <1>7, <1>8, <1>9, <1>10 DEF Next, BenchStep, Terminating

\* They pass in every state.
LEMMA LeftInvariant == Spec => [](TypeInv /\ StackInv /\ OrderInv /\ LeftInv)
<1>1. Init => StackInv /\ LeftInv
  BY NoneOrderly DEF Init, ProcessInit, ClusterInit, StackInv, LeftInv, ScopedFromCharts,
     AbsentIsEmpty, Instruments, MetricInstruments, LogInstruments
<1>2. TypeInv /\ StackInv /\ OrderInv /\ LeftInv /\ [Next]_vars => StackInv' /\ LeftInv'
  BY StackStep, LeavesStep, PassesStep DEF LeftInv
<1> QED
  BY <1>1, <1>2, OrderInvariant, PTL DEF Spec

\* The cluster that earlier experiments have left, finished, failed, interrupted or dead at any
\* point, makes no call of a later one fail: the clean-up before each stack removes whatever
\* would refuse one of its plain creates (experimentstack/deploy.go, monitoring/service.go).
\* Excepted are what a signal in the middle of a deletion orphans, and a claim in deletion.
THEOREM ExperimentsAreIsolated == Spec => []FailureIsolation
<1>1. TypeInv /\ OrderInv /\ LeftInv => FailureIsolation
  <2>1. SUFFICES ASSUME TypeInv, OrderInv, LeftInv, AtCall, Blocked(Head(todo)),
                        ~hit, ~orphaned, "claim" \notin objects[Head(todo).on]
                 PROVE  FALSE
    BY DEF FailureIsolation
  <2>2. todo \in Seq(Calls) /\ todo # << >> /\ Head(todo) \in Calls
    BY <2>1, HeadType DEF AtCall, TypeInv, TypeOK, RunTypeOK
  <2>3. CASE err
    <3>1. Head(todo).op = "stopProducer"
      BY <2>1, <2>2, <2>3, Tails DEF OrderInv
    <3> QED
      BY <2>1, <3>1 DEF Blocked
  <2>4. CASE ~err
    <3>1. \A o \in InTheWay(Head(todo)) : o \in Obstacles /\ o \in Gone
      <4>1. Passes(todo, Gone)
        BY <2>1, <2>4 DEF LeftInv
      <4>2. \A o \in Obstacles :
              Removes(Head(todo), o) \/ (o \in Gone /\ ~Adds(Head(todo), o)) => o \in Obstacles
        OBVIOUS
      <4> QED
        BY <2>2, <4>1, <4>2, TailPasses
    <3>2. \A o \in InTheWay(Head(todo)) : o \in Obstacles /\ ~Present(o)
      BY <2>1, <3>1 DEF Gone
    <3> QED
      BY <2>1, <2>2, <3>2, NothingInTheWay DEF LeftInv
  <2> QED
    BY <2>3, <2>4
<1> QED
  BY <1>1, LeftInvariant, PTL

-----------------------------------------------------------------------------
(* What a measured stack has ingested.                                      *)

\* Of the stack of this experiment, once it is up: its volume and the load that may still
\* come are the load of the experiment, or the one it was installed under; a log backend was
\* installed under none.
Own(i) ==
  /\ ingested[i] \subseteq {Entry.load, release[i].exposed}
  /\ i \in MetricInstruments => exporter \in {0, Entry.load, release[i].exposed}
  /\ i \in LogInstruments /\ producer.to = i => producer.load \in {Entry.load, release[i].exposed}
  /\ i \in LogInstruments /\ ~leaked => release[i].exposed = 0

GenerationInv ==
  /\ \A i \in Instruments : 0 \notin ingested[i]
  /\ ~orphaned /\ ~err /\ stage \notin {"idle", "monitoring"} /\ NoTouch(todo, Entry.instrument)
       => Own(Entry.instrument)

\* All of it together.
IsolationInv == StackInv /\ OrderInv /\ LoadInv /\ LeftInv

\* No stack ingests nothing.
LEMMA NothingStep ==
  ASSUME TypeInv, [Next]_vars, NEW i \in Instruments, 0 \notin ingested[i]
  PROVE  0 \notin ingested'[i]
<1>0. ClusterTypeOK /\ (AtCall => Head(todo) \in Calls)
  BY HeadType DEF TypeInv, TypeOK
<1>1. CASE UNCHANGED clusterVars
  BY <1>1 DEF clusterVars
<1>2. CASE ClusterStep
  BY <1>0, <1>2, ClusterStepVolume
<1>3. CASE AtCall /\ Effects(Head(todo))
  BY <1>0, <1>3, NilVolume DEF Effects, Nil
<1>4. CASE AtCall /\ Remains(Head(todo), Entry, attempt, RetentionOf(Head(todo).on))
  BY <1>0, <1>4, RemainsVolume
<1>5. CASE NamespaceUnstripped(Head(todo).on) \/ NamespaceForced(Head(todo).on)
  BY <1>5 DEF NamespaceUnstripped, Vanished, NamespaceForced
<1> QED
  BY <1>1, <1>2, <1>3, <1>4, <1>5, ClusterMoves DEF vars

\* The stack that has just been installed is on an empty volume.
LEMMA OwnInstalled ==
  ASSUME TypeInv, IsolationInv, ~orphaned, ~err, CallReturns,
         NEW i \in Instruments, Head(todo).on = i, Head(todo).op = "up", leaked' = leaked
  PROVE  Own(i)'
<1>1. /\ ClusterTypeOK /\ todo \in Seq(Calls) /\ todo # << >> /\ AbsentIsEmpty
      /\ Passes(todo, Gone) /\ Entry' = Entry
  BY DEF CallReturns, AtCall, TypeInv, TypeOK, RunTypeOK, IsolationInv, LeftInv, loopVars,
     Entry
<1>2. Installed(i, attempt, RetentionOf(i), "deployed")
  BY DEF CallReturns, Effects, Effect
<1>3. Obstacle("namespace", i) \in InTheWay(Head(todo))
  BY DEF InTheWay
<1>4. Obstacle("namespace", i) \in Gone
  <2>1. \A o \in Obstacles :
          Removes(Head(todo), o) \/ (o \in Gone /\ ~Adds(Head(todo), o)) => o \in Obstacles
    OBVIOUS
  <2> QED
    BY <1>1, <1>3, <2>1, TailPasses
<1>5. ns[i] = "absent" /\ i \in Namespaces
  BY <1>4 DEF Gone, Obstacle, Present, Finalized, Namespaces, Releases
<1>6. ingested'[i] = {}
  BY <1>1, <1>2, <1>5, InstalledExposes DEF AbsentIsEmpty
<1>7. ASSUME ~leaked PROVE producer = NoProducer
  BY <1>1, <1>7, TailStops DEF IsolationInv, LoadInv
<1>8. i \in LogInstruments /\ ~leaked => release'[i].exposed = 0
  BY <1>1, <1>2, <1>7, ServedIs, InstalledExposes DEF NoProducer, MetricInstruments,
     LogInstruments
<1>9. i \in LogInstruments /\ producer.to = i => Served(i) = producer.load
  BY DEF LogInstruments, Served
<1> QED
  BY <1>1, <1>2, <1>6, <1>8, <1>9, InstalledExposes DEF Own

\* A step that leaves the release and its volume alone, and changes the load to that of the
\* experiment or none, leaves the stack its own.
LEMMA OwnKept ==
  ASSUME NEW i \in Instruments, Own(i), i = Entry.instrument, LoadMoves(Entry),
         release'[i] = release[i], Entry' = Entry, leaked => leaked',
         \/ ingested'[i] = ingested[i]
         \/ Served(i) # 0 /\ ingested'[i] = ingested[i] \cup {Served(i)}
  PROVE  Own(i)'
<1>1. Served(i) # 0 => Served(i) \in {Entry.load, release[i].exposed}
  BY ServedIs DEF Own
<1>2. ingested'[i] \subseteq {Entry.load, release[i].exposed}
  BY <1>1 DEF Own
<1>3. i \in MetricInstruments => exporter' \in {0, Entry.load, release[i].exposed}
  BY DEF Own, LoadMoves
<1>4. i \in LogInstruments /\ producer'.to = i
        => producer'.load \in {Entry.load, release[i].exposed}
  BY DEF Own, LoadMoves, NoProducer, LogInstruments
<1>5. i \in LogInstruments /\ ~leaked' => release[i].exposed = 0
  BY DEF Own
<1> QED
  BY <1>2, <1>3, <1>4, <1>5 DEF Own

\* A stack that is up and whose calls leave it alone is still its own after a step of the
\* cluster, or of none.
LEMMA OwnAlone ==
  ASSUME TypeInv, StackInv, GenerationInv, ~orphaned, ~err, Entry' = Entry,
         stage \notin {"idle", "monitoring"}, NoTouch(todo, Entry.instrument),
         leaked => leaked',
         \/ UNCHANGED clusterVars
         \/ ClusterStep
         \/ /\ AtCall /\ ~Touches(Head(todo), Entry.instrument)
            /\ Nil(Head(todo), Entry, attempt, RetentionOf(Head(todo).on))
  PROVE  Own(Entry.instrument)'
<1> DEFINE i == Entry.instrument
<1>1. Own(i) /\ Up(i) /\ i \in Instruments /\ i \in Releases /\ ClusterTypeOK
  BY EntryType DEF GenerationInv, StackInv, Stands, TypeInv, TypeOK, Busy, Releases
<1>2. ns[i] = "active"
  BY <1>1 DEF Up
<1> HIDE DEF i
<1>3. CASE UNCHANGED clusterVars
  <2>1. LoadMoves(Entry) /\ release'[i] = release[i] /\ ingested'[i] = ingested[i]
    BY <1>3 DEF clusterVars, LoadMoves
  <2>2. Own(i)'
    BY <1>1, <2>1, OwnKept DEF i
  <2> QED
    BY <2>2 DEF i
<1>4. CASE ClusterStep
  <2>1. release'[i] = release[i]
    BY <1>1, <1>2, <1>4, ClusterStepKeeps
  <2>2. \/ ingested'[i] = ingested[i]
        \/ Served(i) # 0 /\ ingested'[i] = ingested[i] \cup {Served(i)}
    BY <1>1, <1>2, <1>4, ClusterStepVolume
  <2>3. LoadMoves(Entry)
    BY <1>4, ClusterStepLoad DEF LoadMoves
  <2>4. Own(i)'
    BY <1>1, <2>1, <2>2, <2>3, OwnKept DEF i
  <2> QED
    BY <2>4 DEF i
<1>5. CASE /\ AtCall /\ ~Touches(Head(todo), i)
           /\ Nil(Head(todo), Entry, attempt, RetentionOf(Head(todo).on))
  <2>1. Head(todo) \in Calls
    BY <1>5, HeadType
  <2>2. release'[i] = release[i]
    BY <1>1, <1>2, <1>5, <2>1, NilKeeps
  <2>3. ingested'[i] = ingested[i]
    BY <1>1, <1>5, <2>1, NilVolume
  <2>4. LoadMoves(Entry)
    BY <1>5, <2>1, NilLoad
  <2>5. Own(i)'
    BY <1>1, <2>2, <2>3, <2>4, OwnKept DEF i
  <2> QED
    BY <2>5 DEF i
<1> QED
  BY <1>3, <1>4, <1>5 DEF i

\* Every step keeps the stack of the experiment its own.
LEMMA OwnStep ==
  ASSUME TypeInv, IsolationInv, GenerationInv, [Next]_vars
  PROVE  GenerationInv'
<1>0. ~orphaned' => ~orphaned
  BY LeavesStep DEF IsolationInv
<1>1. \A i \in Instruments : 0 \notin ingested'[i]
  BY NothingStep DEF GenerationInv
<1>2. SUFFICES ASSUME ~orphaned', ~err', stage' \notin {"idle", "monitoring"},
                      NoTouch(todo, Entry.instrument)'
               PROVE  Own(Entry.instrument)'
  BY <1>1 DEF GenerationInv
<1>3. CASE CallReturns \/ ListFails \/ StripFails
  <2>1. /\ AtCall /\ todo' = Tail(todo) /\ Entry' = Entry /\ leaked' = leaked
        /\ ~err /\ stage' = stage
    BY <1>2, <1>3 DEF CallReturns, ListFails, StripFails, InDeletion, loopVars, historyVars,
       Entry
  <2>2. /\ todo \in Seq(Calls) /\ todo # << >> /\ Reinstalls(todo, Entry.instrument)
        /\ Entry.instrument \in Instruments
    BY <1>2, <2>1, HeadType
    DEF TypeInv, TypeOK, RunTypeOK, AtCall, IsolationInv, StackInv, Stands
  <2>3. \/ NoTouch(todo, Entry.instrument)
        \/ Touches(Head(todo), Entry.instrument) /\ Head(todo).op = "up"
    BY <1>2, <2>1, <2>2, TailReinstalls
  <2>4. CASE NoTouch(todo, Entry.instrument)
    <3>1. ~Touches(Head(todo), Entry.instrument)
      BY <2>2, <2>4, Tails DEF NoTouch
    <3>2. \/ Nil(Head(todo), Entry, attempt, RetentionOf(Head(todo).on))
          \/ UNCHANGED clusterVars
      BY <1>3 DEF CallReturns, ListFails, StripFails, InDeletion, Effects, Nil
    <3> QED
      BY <1>0, <1>2, <2>1, <2>4, <3>1, <3>2, OwnAlone DEF IsolationInv
  <2>5. CASE Touches(Head(todo), Entry.instrument) /\ Head(todo).op = "up"
    <3>1. CallReturns /\ Head(todo).on = Entry.instrument
      BY <1>3, <2>5 DEF ListFails, StripFails, InDeletion, Touches
    <3> QED
      BY <1>0, <1>2, <2>1, <2>2, <2>5, <3>1, OwnInstalled
  <2> QED
    BY <2>3, <2>4, <2>5
<1>4. CASE CallRefused \/ CallCancelled \/ CallFails
  <2>0. leaked => leaked'
    BY <1>4 DEF CallRefused, CallCancelled, CallFails, Leaks
  <2>1. AtCall /\ GiveUp(Head(todo)) /\ Entry' = Entry /\ stage' = stage
    BY <1>4 DEF CallRefused, CallCancelled, CallFails, GiveUp, loopVars, Entry
  <2>2. Head(todo).op = "stopProducer" /\ todo' = Tail(todo) /\ ~err
    BY <1>2, <2>1 DEF GiveUp
  <2>3. UNCHANGED clusterVars
    BY <1>4, <2>2 DEF CallRefused, CallCancelled, CallFails, IgnoresCtx, Remains
  <2>4. /\ todo \in Seq(Calls) /\ todo # << >> /\ Reinstalls(todo, Entry.instrument)
    BY <1>2, <2>1 DEF TypeInv, TypeOK, RunTypeOK, AtCall, IsolationInv, StackInv, Stands
  <2>5. NoTouch(todo, Entry.instrument)
    BY <1>2, <2>1, <2>2, <2>4, TailReinstalls
  <2> QED
    BY <1>0, <1>2, <2>0, <2>1, <2>2, <2>3, <2>5, OwnAlone DEF IsolationInv
<1>5. CASE Deploy
  <2>1. todo' = DeployCalls(Entry.instrument) /\ Entry' = Entry
    BY <1>5 DEF Deploy, NextStage, loopVars, Entry
  <2>2. Entry.instrument \in Instruments
    BY <1>5, EntryType DEF Deploy, NextStage, TypeInv, TypeOK, Busy
  <2> QED
    BY <1>2, <2>1, <2>2, DeployReinstalls
<1>6. CASE Run \/ Collect \/ StartSave
  <2>1. /\ ~err /\ todo = << >> /\ stage \notin {"idle", "monitoring"}
        /\ UNCHANGED clusterVars /\ Entry' = Entry /\ leaked' = leaked
    BY <1>6 DEF Run, Collect, StartSave, NextStage, loopVars, historyVars, Entry
  <2> QED
    BY <1>0, <1>2, <2>1, NothingLeft, OwnAlone DEF IsolationInv
<1>7. CASE \/ SkipInvalid \/ Exit \/ Signal \/ Environment \/ UNCHANGED vars
           \/ Save
  <2>1. /\ todo' = todo /\ err' = err /\ leaked' = leaked
        /\ stage \notin {"idle", "monitoring"}
        /\ ClusterStep \/ UNCHANGED clusterVars
    BY <1>2, <1>7 DEF SkipInvalid, Exit, Signal, Environment, Save, runVars, historyVars, vars
  <2>2. Entry' = Entry
    BY <1>2, <1>7, <2>1 DEF SkipInvalid, Exit, Signal, Environment, Save, loopVars, vars, Entry,
       Idle
  <2> QED
    BY <1>0, <1>2, <2>1, <2>2, OwnAlone DEF IsolationInv
<1>8. CASE StartExperiment \/ ExperimentFails \/ ExperimentSucceeds \/ Crash
  BY <1>2, <1>8 DEF StartExperiment, ExperimentFails, ExperimentSucceeds, Crash
<1>9. CASE Restart
  BY <1>2, <1>9 DEF Restart, TypeInv, Busy, runVars
<1>10. CASE SaveFails
  BY <1>2, <1>10 DEF SaveFails
<1>11. CASE SignalInDeletion
  BY <1>2, <1>11 DEF SignalInDeletion
<1> QED
  BY <1>3, <1>4, <1>5, <1>6, <1>7, <1>8, <1>9, <1>10, <1>11 DEF Next, BenchStep, Terminating

\* What the rows claim of the load they were measured under.
RowsPure == OneGeneration /\ LogRowsPure

\* Every step keeps the rows pure: only Save adds one.
LEMMA PureStep ==
  ASSUME TypeInv, IsolationInv, GenerationInv, RowsPure, [Next]_vars
  PROVE  RowsPure'
<1>1. CASE Save
  <2>1. /\ todo = << >> /\ ~err /\ Entry.instrument \in Instruments
        /\ stage \notin {"idle", "monitoring"}
    BY <1>1, EntryType DEF Save, IsolationInv, OrderInv, TypeInv, TypeOK, Busy
  <2>2. ~orphaned => Own(Entry.instrument) /\ 0 \notin ingested[Entry.instrument]
    BY <2>1, NothingLeft DEF GenerationInv
  <2>3. ~Row.orphaned => Row.ingested \subseteq {Row.entry.load, Row.stack.exposed}
    BY <2>2 DEF Row, Own
  <2>4. IsLogBackend(Row.entry.instrument) /\ ~Row.leaked /\ ~Row.orphaned
          => Row.ingested \subseteq {Row.entry.load}
    BY <2>2 DEF Row, Own, IsLogBackend
  <2>5. Row \in RowRecord
    BY <1>1, EntryType DEF Save, Row, RowRecord, ClusterTypeOK, RunTypeOK, Busy, Releases,
       TypeInv, TypeOK
  <2>6. /\ Len(rows) \in Nat /\ Len(rows') = Len(rows) + 1
        /\ \A k \in 1..Len(rows) : rows'[k] = rows[k]
        /\ rows'[Len(rows) + 1] = Row
    BY <1>1, <2>5, AppendProperties, LenProperties DEF Save, TypeInv, TypeOK, RunTypeOK
  <2>7. \A k \in 1..Len(rows') : k \in 1..Len(rows) \/ k = Len(rows) + 1
    BY <2>6
  <2> HIDE DEF RowsPure
  <2>8. OneGeneration'
    BY <2>3, <2>6, <2>7 DEF RowsPure, OneGeneration
  <2>9. LogRowsPure'
    BY <2>4, <2>6, <2>7 DEF RowsPure, LogRowsPure
  <2> QED
    BY <2>8, <2>9 DEF RowsPure
<1>2. CASE ~Save
  BY <1>2, OnlySaves DEF RowsPure, OneGeneration, LogRowsPure
<1> QED
  BY <1>1, <1>2

\* The stacks are their own and the rows are pure in every state.
LEMMA PureInvariant == Spec => [](GenerationInv /\ RowsPure)
<1>1. Init => GenerationInv /\ RowsPure
  BY DEF Init, ProcessInit, ClusterInit, GenerationInv, RowsPure, OneGeneration, LogRowsPure
<1>2. TypeInv /\ IsolationInv /\ GenerationInv /\ RowsPure /\ [Next]_vars
        => GenerationInv' /\ RowsPure'
  BY OwnStep, PureStep
<1>3. StackInv /\ OrderInv /\ LoadInv /\ LeftInv => IsolationInv
  BY DEF IsolationInv
<1> QED
  BY <1>1, <1>2, <1>3, LoadInvariant, LeftInvariant, PTL DEF Spec

\* Whatever stacks earlier experiments have left with whatever volumes, a row is of a stack
\* that has ingested the load of its own experiment and at most one other, which was being
\* served when it was installed (namespace deletion in each Deploy of experimentstack; the
\* load is replaced by RecreateNamespace, metrics-provider/service.go:54).
THEOREM OneGenerationOfLoad == Spec => []OneGeneration
<1>1. RowsPure => OneGeneration
  BY DEF RowsPure
<1> QED
  BY <1>1, PureInvariant, PTL

\* A row of a log backend is of its own load alone, for the producer of the experiment before
\* is deleted in every case but those that are recorded (workload.go:66-72).
THEOREM LogLoadIsOwn == Spec => []LogRowsPure
<1>1. RowsPure => LogRowsPure
  BY DEF RowsPure
<1> QED
  BY <1>1, PureInvariant, PTL

-----------------------------------------------------------------------------
(* After a signal.                                                          *)

\* An experiment that began after the signal is still at the first two calls of
\* UpMonitoring, or has failed there.
Late ==
  attempt > signalledAt /\ stage # "idle" =>
    /\ stage = "monitoring"
    /\ \/ todo = MonitoringCalls
       \/ todo = Tail(MonitoringCalls)
       \/ todo = << >> /\ err

LateInv ==
  /\ \A r \in Releases : release[r].by <= attempt
  /\ ctx = "done" => signalledAt <= attempt /\ NothingNewAfterSignal /\ Late

\* The calls of UpMonitoring that an experiment begun after the signal can make.
LEMMA LateCalls ==
  /\ MonitoringCalls # << >> /\ Tail(MonitoringCalls) # << >>
  /\ Head(MonitoringCalls).op = "uninstall"
  /\ Head(Tail(MonitoringCalls)).op = "webhooks"
  BY DEF MonitoringCalls, Call

\* A step leaves every release with the experiment it was installed by, or removes
\* it, or installs it by the call that is being made.
LEMMA ReleaseMoves ==
  ASSUME TypeInv, [Next]_vars, NEW r \in Releases
  PROVE  \/ release'[r].by \in {release[r].by, 0}
         \/ AtCall /\ Head(todo).op = "up" /\ release'[r].by = attempt
<1>0. ClusterTypeOK /\ (AtCall => Head(todo) \in Calls)
  BY HeadType DEF TypeInv, TypeOK
<1>1. CASE UNCHANGED clusterVars
  BY <1>1 DEF clusterVars
<1>2. CASE ClusterStep
  <2>1. Call("image", "monitoring") \in Calls /\ Call("image", "monitoring").op # "up"
    BY CallTypes DEF Ops, Namespaces, Releases, Call
  <2> QED
    BY <1>0, <1>2, <2>1, OnlyInstalls
<1>3. CASE AtCall /\ Effects(Head(todo))
  BY <1>0, <1>3, OnlyInstalls DEF Effects
<1>4. CASE AtCall /\ Remains(Head(todo), Entry, attempt, RetentionOf(Head(todo).on))
  BY <1>0, <1>4, OnlyInstalls
<1>5. CASE /\ AtCall
           /\ NamespaceUnstripped(Head(todo).on) \/ NamespaceForced(Head(todo).on)
  BY <1>0, <1>5, OnlyInstalls
<1> QED
  BY <1>1, <1>2, <1>3, <1>4, <1>5, ClusterMoves DEF vars

\* The signal, wherever it comes.
Signalled == Signal \/ SignalInDeletion

\* Only StartExperiment begins an experiment, and only a signal marks one.
LEMMA AttemptMoves ==
  ASSUME TypeInv, [Next]_vars
  PROVE  /\ StartExperiment \/ attempt' = attempt
         /\ Signalled \/ signalledAt' = signalledAt
         /\ ctx' = "done" => Signalled \/ ctx = "done"
  BY DEF Next, BenchStep, SkipInvalid, StartExperiment, ExperimentFails,
     ExperimentSucceeds, Exit, CallReturns, CallRefused, CallCancelled, CallFails,
     ListFails, StripFails, GiveUp, Deploy, Run, Collect, StartSave, NextStage, Save,
     SaveFails, Signalled, Signal, SignalInDeletion, Crash, Restart, Environment,
     Terminating, loopVars, runVars, historyVars, vars

\* Under a done context an experiment that began after the signal gets no further.
LEMMA LateStep ==
  ASSUME TypeInv, LateInv, [Next]_vars, ctx = "done", ctx' = "done"
  PROVE  Late'
<1>0. ctx # "live" /\ attempt \in Nat /\ signalledAt \in Nat /\ Late
  BY DEF LateInv, TypeInv, TypeOK, RunTypeOK
<1>1. CASE StartExperiment
  BY <1>1 DEF StartExperiment, Late
<1>2. CASE CallReturns
  <2>1. /\ AtCall /\ todo' = Tail(todo) /\ IgnoresCtx(Head(todo))
        /\ UNCHANGED << stage, err, attempt, signalledAt >>
    BY <1>0, <1>2 DEF CallReturns, historyVars
  <2>2. todo # Tail(MonitoringCalls)
    BY <2>1, LateCalls DEF IgnoresCtx
  <2> QED
    BY <1>0, <2>1, <2>2 DEF Late, AtCall
<1>3. CASE CallRefused \/ CallCancelled \/ CallFails
  <2>1. AtCall /\ GiveUp(Head(todo)) /\ UNCHANGED << stage, attempt, signalledAt >>
    BY <1>3 DEF CallRefused, CallCancelled, CallFails, AtCall, GiveUp
  <2>2. Late /\ attempt > signalledAt => todo' = << >> /\ err'
    BY <2>1, LateCalls DEF Late, AtCall, GiveUp, Deferred
  <2> QED
    BY <1>0, <2>1, <2>2 DEF Late, AtCall
<1>4. CASE ListFails
  <2>1. AtCall /\ Head(todo).op = "scrapes" /\ UNCHANGED << stage, attempt, signalledAt >>
    BY <1>4 DEF ListFails
  <2> QED
    BY <1>0, <2>1, LateCalls DEF Late, AtCall
<1>5. CASE Deploy \/ Run \/ Collect \/ StartSave
  <2>1. ~err /\ todo = << >> /\ stage # "idle" /\ UNCHANGED << attempt, signalledAt >>
    BY <1>5 DEF Deploy, Run, Collect, StartSave, NextStage, historyVars
  <2> QED
    BY <1>0, <2>1, LateCalls DEF Late
<1>6. CASE Save \/ SaveFails
  BY <1>0, <1>6 DEF Save, SaveFails, Late, historyVars
<1>7. CASE SkipInvalid \/ Exit \/ Environment \/ UNCHANGED vars
  BY <1>0, <1>7 DEF SkipInvalid, Exit, Environment, Late, runVars, historyVars, vars
<1>8. CASE ExperimentFails \/ ExperimentSucceeds \/ Crash
  BY <1>8 DEF ExperimentFails, ExperimentSucceeds, Crash, Late
<1>9. CASE Signal \/ SignalInDeletion \/ StripFails \/ Restart
  BY <1>0, <1>9 DEF Signal, SignalInDeletion, StripFails, Restart
<1> QED
  BY <1>1, <1>2, <1>3, <1>4, <1>5, <1>6, <1>7, <1>8, <1>9
  DEF Next, BenchStep, Terminating

\* Every step keeps the releases from the experiments begun after a signal.
LEMMA SignalStep ==
  ASSUME TypeInv, LateInv, [Next]_vars
  PROVE  LateInv'
<1>0. /\ attempt \in Nat /\ signalledAt \in Nat
      /\ \A r \in Releases : release[r].by \in Nat /\ release[r].by <= attempt
  BY DEF LateInv, TypeInv, TypeOK, RunTypeOK, ClusterTypeOK, ReleaseRecord
<1>1. attempt' \in {attempt, attempt + 1}
  BY AttemptMoves DEF StartExperiment
<1>2. \A r \in Releases : release'[r].by <= attempt'
  BY <1>0, <1>1, ReleaseMoves
<1>3. CASE Signalled
  <2>1. attempt' = attempt /\ signalledAt' = attempt
    BY <1>3 DEF Signalled, Signal, SignalInDeletion, runVars
  <2> QED
    BY <1>0, <1>2, <2>1 DEF LateInv, NothingNewAfterSignal, Late
<1>4. CASE ~Signalled /\ ctx' = "done"
  <2>1. ctx = "done" /\ signalledAt' = signalledAt
    BY <1>4, AttemptMoves
  <2>2. signalledAt <= attempt /\ NothingNewAfterSignal /\ Late
    BY <2>1 DEF LateInv
  <2>3. AtCall /\ Head(todo).op = "up" => attempt <= signalledAt
    <3>1. CASE todo = MonitoringCalls \/ todo = Tail(MonitoringCalls)
      BY <3>1, LateCalls
    <3>2. CASE ~(attempt > signalledAt)
      BY <1>0, <3>2
    <3> QED
      BY <2>2, <3>1, <3>2 DEF Late, AtCall
  <2>4. \A r \in Releases : release'[r].by <= signalledAt
    BY <1>0, <2>1, <2>2, <2>3, ReleaseMoves DEF NothingNewAfterSignal
  <2>5. Late'
    BY <1>4, <2>1, LateStep
  <2> QED
    BY <1>0, <1>1, <1>2, <2>1, <2>2, <2>4, <2>5 DEF LateInv, NothingNewAfterSignal
<1> QED
  BY <1>2, <1>3, <1>4 DEF LateInv

\* After a signal no experiment that begins installs anything, in no interleaving of
\* the signal with the calls: TryUninstall goes through, and the next call of
\* UpMonitoring does not (main.go:17, monitoring/service.go:36-44,
\* command.go:68-89).
THEOREM SignalStopsNewWork == Spec => []NothingNewAfterSignal
<1>1. Init => LateInv
  BY DEF Init, ClusterInit, ProcessInit, NoRelease, LateInv
<1>2. TypeInv /\ LateInv /\ [Next]_vars => LateInv'
  BY SignalStep
<1>3. LateInv => NothingNewAfterSignal
  BY DEF LateInv, NothingNewAfterSignal
<1> QED
  BY <1>1, <1>2, <1>3, TypeInvariant, PTL DEF Spec
=============================================================================
