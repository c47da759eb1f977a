------------------------- MODULE MeasurementProofs -------------------------
(***************************************************************************)
(* Theorems about module Measurement, for all periods and phases of the    *)
(* readings, the scrapes and the disk query, every duration, warm-up and   *)
(* timeout, any sizes of the volume and any number of faults.              *)
(***************************************************************************)
EXTENDS Measurement, SequenceTheorems, TLAPS

LEMMA ConstantsType ==
  /\ CollectEvery \in Nat \ {0} /\ ScrapeEvery \in Nat \ {0} /\ Step \in Nat \ {0}
  /\ Duration \in Nat \ {0} /\ Warmup \in Nat /\ Timeout \in Nat \ {0}
  /\ CloseMax \in Nat /\ MaxFaults \in Nat
  /\ Usages \subseteq Nat \ {0} /\ None \notin Nat
  /\ Need \in Nat \ {0} /\ Window \in Nat \ {0} /\ Oldest \in Nat
  BY MeasurementAssumption DEF Need, Window, Oldest

LEMMA SizesAreNumbers == Usages \cup {0} \subseteq Nat /\ None \notin Usages \cup {0}
<1>1. Usages \cup {0} \subseteq Nat
  BY ConstantsType
<1> QED
  BY <1>1, ConstantsType

\* The smaller of two numbers.
LEMMA MinOfTwo ==
  ASSUME NEW a \in Nat, NEW b \in Nat
  PROVE  Min({a, b}) = IF a <= b THEN a ELSE b
  BY DEF Min

\* A set of numbers with a largest one has it as its Max.
LEMMA MaxOfBounded ==
  ASSUME NEW S \in SUBSET Nat, NEW m \in S, \A y \in S : y <= m
  PROVE  Max(S) \in S /\ \A y \in S : y <= Max(S)
  BY DEF Max

-----------------------------------------------------------------------------
(* Types, with what the disk query needs: that its maximum exists. *)

\* Every set of samples has one with the largest value: there are finitely many.
Topped ==
  \A S \in SUBSET steps : S # {} => \E m \in S : \A y \in S : y.value <= m.value

StepsType == steps \subseteq [at : Nat, value : Usages \cup {0}]

\* Until Collect asks there are no figures; it asks four times.
AskedInTurn ==
  /\ pc \in {"load", "close"} => asked = << >>
  /\ pc = "collect" => Len(asked) <= 3

LEMMA FoundType ==
  ASSUME StepsType, Topped, Found # {}
  PROVE  /\ Max(Found) \in Usages \cup {0} /\ Max(Found) \in Found
         /\ \A v \in Found : v <= Max(Found)
<1>1. Found \in SUBSET Nat /\ Found \subseteq Usages \cup {0}
  <2>1. \A s \in steps : s.value \in Usages \cup {0}
    BY DEF StepsType
  <2>2. Found \subseteq Usages \cup {0}
    BY <2>1 DEF Found
  <2> QED
    BY <2>2, SizesAreNumbers
<1>2. steps # {}
  BY DEF Found
<1>3. PICK m \in steps : \A y \in steps : y.value <= m.value
  BY <1>2 DEF Topped
<1>4. m.value \in Found /\ \A v \in Found : v <= m.value
  BY <1>3 DEF Found
<1> QED
  BY <1>1, <1>4, MaxOfBounded

\* Time adds at most one sample and takes away old ones.
LEMMA ToppedStep == StepsType /\ Topped /\ TypeOK /\ [Next]_vars => Topped' /\ StepsType'
<1> SUFFICES ASSUME StepsType, Topped, TypeOK, [Next]_vars PROVE Topped' /\ StepsType'
  OBVIOUS
<1>1. CASE UNCHANGED steps
  BY <1>1 DEF Topped, StepsType
<1>2. CASE Tick
  <2>1. steps' \subseteq steps \cup {[at |-> clock + 1, value |-> sample]}
    BY <1>2 DEF Tick, NewStep
  <2>2. \A s \in steps' : s \in steps \/ (s = [at |-> clock + 1, value |-> sample] /\ sample # None)
    BY <1>2 DEF Tick, NewStep
  <2>3. StepsType'
    BY <2>2 DEF TypeOK, StepsType
  <2>4. ASSUME NEW S \in SUBSET steps', S # {}
        PROVE  \E m \in S : \A y \in S : y.value <= m.value
    <3> DEFINE new == [at |-> clock + 1, value |-> sample]
               old == S \ {new}
    <3>1. old \in SUBSET steps
      BY <2>1
    <3>2. \A y \in S : y.value \in Nat
      <4>1. \A y \in S : y \in [at : Nat, value : Usages \cup {0}]
        BY <2>3, <2>4 DEF StepsType
      <4>2. \A y \in S : y.value \in Usages \cup {0}
        BY <4>1
      <4> QED
        BY <4>2, SizesAreNumbers
    <3>3. CASE old = {}
      BY <2>4, <3>2, <3>3
    <3>4. CASE old # {}
      <4>1. PICK m \in old : \A y \in old : y.value <= m.value
        BY <3>1, <3>4 DEF Topped
      <4> HIDE DEF new
      <4>2. CASE new \in S /\ m.value <= new.value
        BY <3>2, <4>1, <4>2
      <4>3. CASE ~(new \in S /\ m.value <= new.value)
        BY <3>2, <4>1, <4>3
      <4> QED
        BY <4>2, <4>3
    <3> QED
      BY <3>3, <3>4
  <2> QED
    BY <2>3, <2>4 DEF Topped
<1> QED
  BY <1>1, <1>2 DEF Next, CollectOnce, CollectFails, Scrape, LoadEnds, Collect, CollectStarts,
     DiskQuery, NextQuery, CollectExpires, QueryFails, Signal, Terminating, CallerVars, vars

LEMMA InitType == Init => TypeOK /\ StepsType /\ Topped /\ AskedInTurn
<1> SUFFICES ASSUME Init PROVE TypeOK /\ StepsType /\ Topped /\ AskedInTurn
  OBVIOUS
<1>1. clock \in Nat
  BY ConstantsType DEF Init
<1>2. asked \in Seq(Nat) /\ Len(asked) <= 4
  BY EmptySeq DEF Init
<1> QED
  <2>1. {sustained, last} \subseteq [Usages -> Nat \cup {Never}] /\ held \in [Usages -> 0..Need]
    BY ConstantsType DEF Init
  <2>2. /\ loaded \in Nat /\ start \in Nat /\ usage \in Usages /\ snap \in Usages \cup {0}
        /\ sample \in Usages \cup {0, None}
        /\ collectAge \in 0..CollectEvery /\ scrapeAge \in 0..ScrapeEvery
        /\ faults \in 0..MaxFaults
    BY <1>1, ConstantsType DEF Init
  <2>3. StepsType /\ Topped /\ AskedInTurn
    BY DEF Init, StepsType, Topped, AskedInTurn
  <2> QED
    BY <1>1, <1>2, <2>1, <2>2, <2>3 DEF Init, TypeOK

\* A failure of the exporter or of a scrape.
LEMMA DisturbedType ==
  ASSUME TypeOK, Disturbed
  PROVE  faults' \in 0..MaxFaults /\ held' \in [Usages -> 0..Need]
  BY ConstantsType DEF TypeOK, Disturbed

LEMMA TickType == TypeOK /\ StepsType /\ Topped /\ Tick => TypeOK'
<1> SUFFICES ASSUME TypeOK, StepsType, Topped, Tick PROVE TypeOK'
  OBVIOUS
<1>1. clock' \in Nat /\ collectAge' \in 0..CollectEvery /\ scrapeAge' \in 0..ScrapeEvery
  BY ConstantsType DEF TypeOK, Tick
<1>2. held' \in [Usages -> 0..Need]
  <2>1. ASSUME NEW u \in Usages PROVE Min({Need, held[u] + 1}) \in 0..Need
    <3>1. held[u] \in 0..Need
      BY DEF TypeOK
    <3> QED
      BY <3>1, ConstantsType, MinOfTwo
  <2>2. 0 \in 0..Need
    BY ConstantsType
  <2> QED
    BY <2>1, <2>2 DEF Tick
<1>3. sustained' \in [Usages -> Nat \cup {Never}]
  BY <1>1 DEF Tick, TypeOK
<1>4. last' \in [Usages -> Nat \cup {Never}]
  BY <1>1 DEF Tick, TypeOK
<1>5. steps' \subseteq [at : Nat, value : Usages \cup {0}]
  BY ToppedStep DEF Next, StepsType
<1>6. usage' \in Usages
  BY DEF Tick
<1> QED
  BY <1>1, <1>2, <1>3, <1>4, <1>5, <1>6 DEF Tick, TypeOK, collectorVars

\* What Collect does leaves the rest of the state alone.
LEMMA CollectType ==
  ASSUME TypeOK, UNCHANGED << CallerVars, start >>,
         pc' \in {"collect", "ok", "err"}, asked' \in Seq(Nat), Len(asked') <= 4,
         disk' \in Usages \cup {0, None}, asked' # << >> => disk' # None, failedAt' \in Nat \cup {Never}
  PROVE  TypeOK'
  BY DEF TypeOK, CallerVars, volumeVars, exporterVars, scrapeVars

LEMMA DiskQueryType == TypeOK /\ StepsType /\ Topped /\ DiskQuery => TypeOK' /\ AskedInTurn'
<1> SUFFICES ASSUME TypeOK, StepsType, Topped, DiskQuery PROVE TypeOK' /\ AskedInTurn'
  OBVIOUS
<1>1. disk' \in Usages \cup {0} /\ disk' # None
  <2>1. disk' = Max(Found) /\ Found # {}
    BY DEF DiskQuery, OverTime
  <2> QED
    BY <2>1, FoundType, SizesAreNumbers
<1>2. asked' \in Seq(Nat) /\ Len(asked') = 1
  <2>1. asked' = << clock >> /\ clock \in Nat
    BY DEF DiskQuery, TypeOK
  <2> QED
    BY <2>1
<1>3. /\ pc = "collect" /\ pc' = pc /\ failedAt' \in Nat \cup {Never}
      /\ UNCHANGED << CallerVars, start >>
  BY DEF DiskQuery, InTime, TypeOK
<1>4. /\ Len(asked') <= 4 /\ disk' \in Usages \cup {0, None}
      /\ pc' \in {"collect", "ok", "err"} /\ (asked' # << >> => disk' # None)
  BY <1>1, <1>2, <1>3
<1>5. TypeOK'
  BY <1>2, <1>3, <1>4, CollectType
<1> QED
  BY <1>2, <1>3, <1>5 DEF AskedInTurn

LEMMA QueryFailsType == TypeOK /\ QueryFails => TypeOK' /\ AskedInTurn'
<1> SUFFICES ASSUME TypeOK, QueryFails PROVE TypeOK' /\ AskedInTurn'
  OBVIOUS
<1>1. asked' = << >> /\ asked' \in Seq(Nat) /\ Len(asked') = 0
  BY EmptySeq DEF QueryFails
<1>2. /\ pc = "collect" /\ pc' = pc /\ failedAt' \in Nat \cup {Never} /\ disk' = None
      /\ UNCHANGED << CallerVars, start >>
  BY DEF QueryFails, CallerVars, TypeOK
<1>3. TypeOK'
  BY <1>1, <1>2, CollectType
<1> QED
  BY <1>1, <1>2, <1>3 DEF AskedInTurn

LEMMA StepType == TypeOK /\ StepsType /\ Topped /\ AskedInTurn /\ [Next]_vars => TypeOK' /\ AskedInTurn'
<1> SUFFICES ASSUME TypeOK, StepsType, Topped, AskedInTurn, [Next]_vars
             PROVE  TypeOK' /\ AskedInTurn'
  OBVIOUS
<1> USE DEF volumeVars, exporterVars, scrapeVars, collectorVars, CallerVars
<1>1. CASE CollectOnce
  BY <1>1, ConstantsType DEF CollectOnce, Read, TypeOK, AskedInTurn
<1>2. CASE CollectFails
  <2>1. faults' \in 0..MaxFaults /\ held' \in [Usages -> 0..Need]
    BY <1>2, DisturbedType DEF CollectFails
  <2>2. collectAge' \in 0..CollectEvery
    BY <1>2, ConstantsType DEF CollectFails, Read
  <2> QED
    BY <1>2, <2>1, <2>2 DEF CollectFails, TypeOK, AskedInTurn
<1>3. CASE Scrape
  <2>1. sample' \in Usages \cup {0, None} /\ scrapeAge' \in 0..ScrapeEvery
    BY <1>3, ConstantsType DEF Scrape, TypeOK
  <2>2. faults' \in 0..MaxFaults /\ held' \in [Usages -> 0..Need]
    BY <1>3, DisturbedType DEF Scrape, TypeOK
  <2> QED
    BY <1>3, <2>1, <2>2 DEF Scrape, TypeOK, AskedInTurn
<1>4. CASE Tick
  BY <1>4, TickType DEF Tick, AskedInTurn
<1>5. CASE LoadEnds \/ CollectStarts
  BY <1>5 DEF LoadEnds, CollectStarts, TypeOK, AskedInTurn
<1>6. CASE DiskQuery
  BY <1>6, DiskQueryType
<1>7. CASE NextQuery
  <2>1. pc = "collect" /\ asked \in Seq(Nat) /\ clock \in Nat /\ Len(asked) \in Nat /\ Len(asked) <= 3
    BY <1>7 DEF NextQuery, InTime, TypeOK, AskedInTurn
  <2>2. asked' \in Seq(Nat) /\ Len(asked') = Len(asked) + 1
    BY <1>7, <2>1, AppendProperties DEF NextQuery
  <2> QED
    BY <1>7, <2>1, <2>2 DEF NextQuery, TypeOK, AskedInTurn
<1>8. CASE QueryFails
  BY <1>8, QueryFailsType
<1>9. CASE CollectExpires \/ Signal
  BY <1>9 DEF CollectExpires, Signal, TypeOK, AskedInTurn
<1>10. CASE UNCHANGED vars
  BY <1>10 DEF vars, TypeOK, AskedInTurn
<1> QED
  BY <1>1, <1>2, <1>3, <1>4, <1>5, <1>6, <1>7, <1>8, <1>9, <1>10 DEF Next, Collect, Terminating

Typed == TypeOK /\ StepsType /\ Topped /\ AskedInTurn

LEMMA TypedInit == Init => Typed
  BY InitType DEF Typed

LEMMA TypedStep == Typed /\ [Next]_vars => Typed'
  BY ToppedStep, StepType DEF Typed

\* What is read, scraped and asked keeps its type; a round that has begun has a disk figure,
\* and no round goes on without one (service.go:81-103).
THEOREM TypeCorrect == Spec => []TypeOK
<1>1. Typed => TypeOK
  BY DEF Typed
<1> QED
  BY <1>1, TypedInit, TypedStep, PTL DEF Spec

-----------------------------------------------------------------------------
(* When the figures are asked for. *)

\* Collect begins when the load is over, and what was asked was asked after that, and
\* after the last query that failed.
Timely ==
  /\ failedAt <= clock
  /\ start <= clock
  /\ pc = "load" => start = loaded
  /\ pc # "load" => start >= loaded + Duration
  /\ \A k \in DOMAIN asked : asked[k] >= loaded + Duration /\ asked[k] <= clock
                            /\ asked[k] >= failedAt
  /\ pc = "ok" => Len(asked) = 4

LEMMA InitTimely == Init => Timely
  BY ConstantsType DEF Init, Timely, Never

LEMMA TimelyStep == Typed /\ Timely /\ [Next]_vars => Timely'
<1> SUFFICES ASSUME Typed, Timely, [Next]_vars PROVE Timely'
  OBVIOUS
<1>1. /\ clock \in Nat /\ start \in Nat /\ loaded \in Nat /\ Duration \in Nat
      /\ asked \in Seq(Nat) /\ failedAt \in Int
      /\ pc \in {"load", "close"} => asked = << >>
      /\ pc = "collect" => Len(asked) <= 3
  BY ConstantsType DEF Typed, TypeOK, AskedInTurn, Never
<1> USE DEF volumeVars, exporterVars, scrapeVars, collectorVars, CallerVars
<1>2. CASE CollectOnce \/ CollectFails \/ Scrape \/ UNCHANGED vars
  BY <1>2 DEF CollectOnce, CollectFails, Scrape, vars, Timely
<1>3. CASE Tick
  <2>1. clock' = clock + 1 /\ UNCHANGED collectorVars
    BY <1>3 DEF Tick
  <2>2. \A k \in DOMAIN asked' :
          asked'[k] >= loaded' + Duration /\ asked'[k] <= clock' /\ asked'[k] >= failedAt'
    <3>1. \A k \in DOMAIN asked : asked[k] \in Nat
      BY <1>1
    <3> QED
      BY <1>1, <2>1, <3>1 DEF Timely
  <2> QED
    BY <1>1, <2>1, <2>2 DEF Timely
<1>4. CASE LoadEnds
  BY <1>1, <1>4 DEF LoadEnds, Timely
<1>5. CASE CollectStarts
  BY <1>1, <1>5 DEF CollectStarts, Timely
<1>6. CASE DiskQuery
  <2>1. asked' = << clock >> /\ pc = "collect" /\ UNCHANGED << loaded, clock, pc, start, failedAt >>
    BY <1>6 DEF DiskQuery, InTime
  <2>2. clock >= loaded + Duration
    BY <1>1, <2>1 DEF Timely
  <2>3. \A k \in DOMAIN asked' : asked'[k] = clock
    BY <2>1
  <2> QED
    BY <1>1, <2>1, <2>2, <2>3 DEF Timely
<1>7. CASE NextQuery
  <2>1. /\ asked' = Append(asked, clock) /\ pc = "collect" /\ UNCHANGED << loaded, clock, start, failedAt >>
        /\ pc' = IF Len(asked') = 4 THEN "ok" ELSE pc
    BY <1>7 DEF NextQuery, InTime
  <2>2. clock >= loaded + Duration
    BY <1>1, <2>1 DEF Timely
  <2>3. \A k \in DOMAIN asked' : asked'[k] = clock \/ (k \in DOMAIN asked /\ asked'[k] = asked[k])
    <3>1. /\ Len(asked') = Len(asked) + 1 /\ Len(asked) \in Nat /\ asked' \in Seq(Nat)
          /\ \A k \in 1..Len(asked) : asked'[k] = asked[k]
          /\ asked'[Len(asked) + 1] = clock
      BY <1>1, <2>1, AppendProperties
    <3> QED
      BY <1>1, <3>1
  <2>4. \A k \in DOMAIN asked' :
          asked'[k] >= loaded + Duration /\ asked'[k] <= clock /\ asked'[k] >= failedAt
    BY <1>1, <2>2, <2>3 DEF Timely
  <2> QED
    BY <1>1, <2>1, <2>4 DEF Timely
<1>8. CASE QueryFails
  <2>1. asked' = << >> /\ failedAt' = clock /\ UNCHANGED << loaded, clock, pc, start >> /\ pc = "collect"
    BY <1>8 DEF QueryFails
  <2> QED
    BY <1>1, <2>1 DEF Timely
<1>9. CASE CollectExpires \/ Signal
  BY <1>9 DEF CollectExpires, Signal, Timely
<1> QED
  BY <1>2, <1>3, <1>4, <1>5, <1>6, <1>7, <1>8, <1>9 DEF Next, Collect, Terminating

\* The figures of a row are of one round (a query that fails makes all four be asked again,
\* service.go:74-103), and of windows that begin after the warm-up of a load that is longer
\* (usecase.go:47-52), however late the load was stopped and however often a round failed.
THEOREM WindowIsClean == Spec => []WindowClean
<1>1. Init => Timely
  BY InitTimely
<1>2. Typed /\ Timely => WindowClean
  <2> SUFFICES ASSUME Typed, Timely, pc = "ok", NEW k \in 1..4
               PROVE  /\ asked[k] >= failedAt
                      /\ Duration > Warmup => asked[k] - Window >= loaded + Warmup
    BY DEF WindowClean
  <2>1. asked[k] \in Nat /\ asked[k] >= loaded + Duration /\ asked[k] >= failedAt
    <3>1. asked \in Seq(Nat) /\ Len(asked) = 4
      BY DEF Typed, TypeOK, Timely
    <3>2. asked \in [1..4 -> Nat]
      BY <3>1, LenProperties
    <3>3. k \in DOMAIN asked /\ asked[k] \in Nat
      BY <3>2
    <3> QED
      BY <3>3 DEF Timely
  <2>2. Duration > Warmup => Window = Duration - Warmup
    BY ConstantsType DEF Window
  <2>3. loaded \in Nat
    BY DEF Typed, TypeOK
  <2> QED
    BY <2>1, <2>2, <2>3, ConstantsType
<1> QED
  BY <1>1, <1>2, TypedInit, TypedStep, TimelyStep, PTL DEF Spec

-----------------------------------------------------------------------------
(* What the copies of the size tell, however old they are. *)

\* The published size: of a volume that has held u since before it was read, no less than
\* u; and the volume had this size when it was read.
SnapTells ==
  /\ \A u \in Usages : held[u] > collectAge /\ (collectAge = 0 => usage >= u) => snap >= u
  /\ snap # 0 => IF collectAge = 0 THEN usage = snap
                 ELSE last[snap] # Never /\ last[snap] >= clock - collectAge + 1

\* The scraped size, which was published up to CollectEvery ticks after the volume was read.
SampleTells ==
  /\ \A u \in Usages :
       held[u] > CollectEvery + scrapeAge /\ (scrapeAge = 0 => usage >= u) =>
         sample # None /\ sample >= u
  /\ sample \notin {0, None} =>
       \/ scrapeAge = 0 /\ usage = sample
       \/ last[sample] # Never /\ last[sample] >= clock - scrapeAge - CollectEvery + 1

\* The sizes the query may look at.
StepsTell ==
  /\ \A s \in steps :
       /\ s.at <= clock /\ s.at > clock - Window
       /\ s.value # 0 => /\ last[s.value] # Never
                         /\ last[s.value] >= s.at - ScrapeEvery - CollectEvery + 1
  /\ \A u \in Usages, t \in Nat :
       /\ t % Step = 0 /\ t <= clock /\ t > clock - Window
       /\ t > clock - (held[u] - CollectEvery - ScrapeEvery)
       => \E s \in steps : s.at = t /\ s.value >= u

\* A size that was held for long is among them.
SustainedTells ==
  \A u \in Usages : sustained[u] # Never =>
    /\ sustained[u] - Need >= clock - Window
    /\ \E s \in steps : s.value >= u /\ s.at > sustained[u] - Step

CopiesTell == SnapTells /\ SampleTells /\ StepsTell /\ SustainedTells

LEMMA StateType ==
  ASSUME Typed
  PROVE  /\ clock \in Nat /\ usage \in Nat /\ usage \in Usages /\ snap \in Nat
         /\ snap \in Usages \cup {0} /\ sample \in Usages \cup {0, None}
         /\ (sample # None => sample \in Nat)
         /\ collectAge \in Nat /\ collectAge <= CollectEvery
         /\ scrapeAge \in Nat /\ scrapeAge <= ScrapeEvery
         /\ \A u \in Usages : /\ u \in Nat /\ u # 0 /\ held[u] \in Nat /\ held[u] <= Need
                               /\ last[u] \in Int /\ sustained[u] \in Int
         /\ \A s \in steps : s.at \in Nat /\ s.value \in Nat /\ s.value \in Usages \cup {0}
<1>1. /\ clock \in Nat /\ usage \in Usages /\ snap \in Usages \cup {0}
      /\ sample \in Usages \cup {0, None}
      /\ collectAge \in 0..CollectEvery /\ scrapeAge \in 0..ScrapeEvery
      /\ held \in [Usages -> 0..Need]
      /\ last \in [Usages -> Nat \cup {Never}] /\ sustained \in [Usages -> Nat \cup {Never}]
  BY DEF Typed, TypeOK
<1>2. \A s \in steps : s.at \in Nat /\ s.value \in Usages \cup {0}
  BY DEF Typed, StepsType
<1>3. \A u \in Usages : /\ u \in Nat /\ u # 0 /\ held[u] \in 0..Need
                        /\ last[u] \in Nat \cup {Never} /\ sustained[u] \in Nat \cup {Never}
  BY <1>1, ConstantsType
<1>4. Never \in Int
  BY DEF Never
<1>5. usage \in Nat /\ snap \in Nat /\ (sample # None => sample \in Nat)
  BY <1>1, SizesAreNumbers
<1>6. \A s \in steps : s.value \in Nat
  BY <1>2, SizesAreNumbers
<1> QED
  BY <1>1, <1>2, <1>3, <1>4, <1>5, <1>6, ConstantsType

\* A failure is forgotten only when the size is held anew.
LEMMA DisturbedTells ==
  ASSUME Typed, Disturbed PROVE \A u \in Usages : held'[u] = 0
  BY DEF Disturbed

LEMMA ReadTells ==
  Typed /\ CopiesTell /\ (CollectOnce \/ CollectFails) => CopiesTell'
<1> SUFFICES ASSUME Typed, CopiesTell, CollectOnce \/ CollectFails PROVE CopiesTell'
  OBVIOUS
<1>1. /\ clock' = clock /\ usage' = usage /\ last' = last /\ sample' = sample
      /\ scrapeAge' = scrapeAge /\ steps' = steps /\ sustained' = sustained /\ collectAge' = 0
      /\ \/ snap' = usage /\ held' = held
         \/ snap' = 0 /\ \A u \in Usages : held'[u] = 0
  BY DisturbedTells DEF CollectOnce, CollectFails, Read, volumeVars, scrapeVars
<1>2. \A u \in Usages : held'[u] <= held[u] /\ held'[u] \in Nat
  BY <1>1, StateType
<1>3. SnapTells'
  BY <1>1, StateType DEF SnapTells
<1>4. SampleTells'
  BY <1>1, <1>2, StateType, ConstantsType DEF SampleTells, CopiesTell
<1>5. StepsTell'
  <2>1. ASSUME NEW u \in Usages, NEW t \in Nat,
               t % Step = 0, t <= clock, t > clock - Window,
               t > clock - (held'[u] - CollectEvery - ScrapeEvery)
        PROVE  \E s \in steps : s.at = t /\ s.value >= u
    <3>1. t > clock - (held[u] - CollectEvery - ScrapeEvery)
      BY <1>2, <2>1, StateType, ConstantsType
    <3> QED
      BY <2>1, <3>1 DEF StepsTell, CopiesTell
  <2> QED
    BY <1>1, <2>1 DEF StepsTell, CopiesTell
<1>6. SustainedTells'
  BY <1>1 DEF SustainedTells, CopiesTell
<1> QED
  BY <1>3, <1>4, <1>5, <1>6 DEF CopiesTell

LEMMA ScrapeTells == Typed /\ CopiesTell /\ Scrape => CopiesTell'
<1> SUFFICES ASSUME Typed, CopiesTell, Scrape PROVE CopiesTell'
  OBVIOUS
<1>1. /\ clock' = clock /\ usage' = usage /\ last' = last /\ snap' = snap
      /\ collectAge' = collectAge /\ steps' = steps /\ sustained' = sustained /\ scrapeAge' = 0
      /\ \/ sample' = snap /\ held' = held
         \/ sample' = None /\ \A u \in Usages : held'[u] = 0
  BY DisturbedTells DEF Scrape, exporterVars
<1>2. \A u \in Usages : held'[u] <= held[u] /\ held'[u] \in Nat
  BY <1>1, StateType
<1>3. SnapTells'
  BY <1>1, <1>2, StateType DEF SnapTells, CopiesTell
<1>4. SampleTells'
  <2>1. CASE sample' = snap /\ held' = held
    <3>1. snap # None
      BY StateType, SizesAreNumbers
    <3>2. ASSUME NEW u \in Usages, held[u] > CollectEvery, usage >= u PROVE snap >= u
      <4>1. held[u] > collectAge
        BY <3>2, StateType, ConstantsType
      <4> QED
        BY <3>2, <4>1 DEF SnapTells, CopiesTell
    <3>3. snap # 0 =>
            \/ usage = snap
            \/ last[snap] # Never /\ last[snap] >= clock - CollectEvery + 1
      <4>1. snap # 0 => last[snap] \in Int
        BY StateType
      <4> QED
        BY <4>1, StateType, ConstantsType DEF SnapTells, CopiesTell
    <3>4. CollectEvery + 0 = CollectEvery /\ clock - 0 = clock
      BY StateType, ConstantsType
    <3> QED
      BY <1>1, <2>1, <3>1, <3>2, <3>3, <3>4 DEF SampleTells
  <2>2. CASE sample' = None /\ \A u \in Usages : held'[u] = 0
    BY <1>1, <2>2, ConstantsType DEF SampleTells
  <2> QED
    BY <1>1, <2>1, <2>2
<1>5. StepsTell'
  <2>1. ASSUME NEW u \in Usages, NEW t \in Nat,
               t % Step = 0, t <= clock, t > clock - Window,
               t > clock - (held'[u] - CollectEvery - ScrapeEvery)
        PROVE  \E s \in steps : s.at = t /\ s.value >= u
    <3>1. t > clock - (held[u] - CollectEvery - ScrapeEvery)
      BY <1>2, <2>1, StateType, ConstantsType
    <3> QED
      BY <2>1, <3>1 DEF StepsTell, CopiesTell
  <2> QED
    BY <1>1, <2>1 DEF StepsTell, CopiesTell
<1>6. SustainedTells'
  BY <1>1 DEF SustainedTells, CopiesTell
<1> QED
  BY <1>3, <1>4, <1>5, <1>6 DEF CopiesTell

-----------------------------------------------------------------------------
(* Time passes. *)

\* What a tick does to the clocks and the copies.
LEMMA TickTimes ==
  ASSUME Tick
  PROVE  /\ clock' = clock + 1 /\ collectAge' = collectAge + 1 /\ scrapeAge' = scrapeAge + 1
         /\ snap' = snap /\ sample' = sample
  BY DEF Tick

\* What a tick does to the sizes that are held, and to the last time of one.
LEMMA TickFacts ==
  ASSUME Typed, Tick
  PROVE  /\ clock' = clock + 1 /\ collectAge' = collectAge + 1 /\ scrapeAge' = scrapeAge + 1
         /\ collectAge < CollectEvery /\ scrapeAge < ScrapeEvery
         /\ snap' = snap /\ sample' = sample
         /\ \A u \in Usages :
              /\ held'[u] \in Nat /\ held'[u] <= Need /\ held'[u] <= held[u] + 1
              /\ held'[u] > 0 => usage >= u
              /\ last'[u] = IF u = usage THEN clock'
                           ELSE IF last[u] < clock' - Window - Oldest THEN Never ELSE last[u]
<1>1. ASSUME NEW u \in Usages
      PROVE  /\ held'[u] \in Nat /\ held'[u] <= Need /\ held'[u] <= held[u] + 1
             /\ held'[u] > 0 => usage >= u
  <2>1. held'[u] = IF u <= usage THEN Min({Need, held[u] + 1}) ELSE 0
    BY DEF Tick
  <2>2. held[u] \in Nat /\ held[u] + 1 \in Nat /\ Need \in Nat /\ usage \in Nat /\ u \in Nat
    BY StateType, ConstantsType
  <2>3. Min({Need, held[u] + 1}) = IF Need <= held[u] + 1 THEN Need ELSE held[u] + 1
    BY <2>2, MinOfTwo
  <2> QED
    BY <2>1, <2>2, <2>3
<1>2. ASSUME NEW u \in Usages
      PROVE  last'[u] = IF u = usage THEN clock'
               ELSE IF last[u] < clock' - Window - Oldest THEN Never ELSE last[u]
  BY DEF Tick
<1> QED
  BY <1>1, <1>2 DEF Tick

\* The last time of a size is kept as long as a query may meet the size.
LEMMA LastKept ==
  ASSUME Typed, Tick, NEW v \in Usages, NEW n \in Int,
         usage = v \/ (last[v] # Never /\ last[v] >= n),
         n >= clock + 1 - Window - Oldest, n <= clock + 1
  PROVE  last'[v] # Never /\ last'[v] >= n
<1>1. clock \in Nat /\ last[v] \in Int /\ Window \in Nat /\ Oldest \in Nat
  BY StateType, ConstantsType
<1>2. CASE usage = v
  BY <1>1, <1>2, TickFacts, TickTimes DEF Never
<1>3. CASE usage # v
  BY <1>1, <1>3, TickFacts, TickTimes
<1> QED
  BY <1>2, <1>3

LEMMA TickSnap == Typed /\ CopiesTell /\ Tick => SnapTells'
<1> SUFFICES ASSUME Typed, CopiesTell, Tick PROVE SnapTells'
  OBVIOUS
<1>1. ASSUME NEW u \in Usages, held'[u] > collectAge' PROVE snap' >= u
  BY <1>1, TickFacts, StateType DEF SnapTells, CopiesTell
<1>2. ASSUME snap # 0
      PROVE  last'[snap'] # Never /\ last'[snap'] >= clock' - collectAge' + 1
  <2> DEFINE n == clock + 1 - (collectAge + 1) + 1
  <2>1. snap \in Usages /\ n \in Int
    BY <1>2, StateType
  <2>2. n >= clock + 1 - Window - Oldest /\ n <= clock + 1
    BY TickFacts, StateType, ConstantsType DEF Oldest
  <2>3. usage = snap \/ (last[snap] # Never /\ last[snap] >= n)
    BY <1>2, <2>1, StateType DEF SnapTells, CopiesTell
  <2> HIDE DEF n
  <2>4. last'[snap] # Never /\ last'[snap] >= n
    BY <2>1, <2>2, <2>3, LastKept
  <2>5. snap' = snap /\ n = clock' - collectAge' + 1
    BY TickTimes, StateType, ConstantsType DEF n
  <2> QED
    BY <2>4, <2>5
<1>3. collectAge' # 0 /\ snap' = snap
  BY TickFacts, StateType
<1> QED
  BY <1>1, <1>2, <1>3 DEF SnapTells

LEMMA TickSample == Typed /\ CopiesTell /\ Tick => SampleTells'
<1> SUFFICES ASSUME Typed, CopiesTell, Tick PROVE SampleTells'
  OBVIOUS
<1>1. ASSUME NEW u \in Usages, held'[u] > CollectEvery + scrapeAge'
      PROVE  sample # None /\ sample >= u
  BY <1>1, TickFacts, StateType, ConstantsType DEF SampleTells, CopiesTell
<1>2. ASSUME sample \notin {0, None}
      PROVE  /\ last'[sample'] # Never
             /\ last'[sample'] >= clock' - scrapeAge' - CollectEvery + 1
  <2> DEFINE n == clock + 1 - (scrapeAge + 1) - CollectEvery + 1
  <2>1. sample \in Usages /\ n \in Int
    BY <1>2, StateType, ConstantsType
  <2>2. n >= clock + 1 - Window - Oldest /\ n <= clock + 1
    BY TickFacts, StateType, ConstantsType DEF Oldest
  <2>3. usage = sample \/ (last[sample] # Never /\ last[sample] >= n)
    BY <1>2, <2>1, StateType, ConstantsType DEF SampleTells, CopiesTell
  <2> HIDE DEF n
  <2>4. last'[sample] # Never /\ last'[sample] >= n
    BY <2>1, <2>2, <2>3, LastKept
  <2>5. sample' = sample /\ n = clock' - scrapeAge' - CollectEvery + 1
    BY TickTimes, StateType, ConstantsType DEF n
  <2> QED
    BY <2>4, <2>5
<1>3. sample' = sample
  BY TickFacts
<1> QED
  BY <1>1, <1>2, <1>3 DEF SampleTells

LEMMA TickSteps == Typed /\ CopiesTell /\ Tick => StepsTell'
<1> SUFFICES ASSUME Typed, CopiesTell, Tick PROVE StepsTell'
  OBVIOUS
<1>1. \A s \in steps' :
        /\ s.at > clock' - Window
        /\ s \in steps \/ (s.at = clock + 1 /\ s.value = sample /\ sample # None)
  BY DEF Tick, NewStep
<1>2. ASSUME NEW s \in steps'
      PROVE  /\ s.at <= clock' /\ s.at > clock' - Window
             /\ s.value # 0 => /\ last'[s.value] # Never
                               /\ last'[s.value] >= s.at - ScrapeEvery - CollectEvery + 1
  <2>1. /\ s.at \in Nat /\ s.value \in Usages \cup {0} /\ s.at <= clock + 1
        /\ s.at > clock + 1 - Window
    BY <1>1, TickFacts, StateType, ConstantsType DEF StepsTell, CopiesTell
  <2>2. ASSUME s.value # 0
        PROVE  /\ last'[s.value] # Never
               /\ last'[s.value] >= s.at - ScrapeEvery - CollectEvery + 1
    <3> DEFINE n == s.at - ScrapeEvery - CollectEvery + 1
               v == s.value
    <3>1. v \in Usages /\ n \in Int
      BY <2>1, <2>2, ConstantsType
    <3>2. n >= clock + 1 - Window - Oldest /\ n <= clock + 1
      BY <2>1, StateType, ConstantsType DEF Oldest
    <3>3. usage = v \/ (last[v] # Never /\ last[v] >= n)
      <4>1. CASE s \in steps
        BY <2>2, <4>1 DEF StepsTell, CopiesTell
      <4>2. CASE s.at = clock + 1 /\ s.value = sample /\ sample # None
        <5>1. \/ usage = sample
              \/ last[sample] # Never /\ last[sample] >= clock - scrapeAge - CollectEvery + 1
          BY <2>2, <4>2 DEF SampleTells, CopiesTell
        <5>2. clock - scrapeAge - CollectEvery + 1 >= n
          BY <4>2, TickFacts, StateType, ConstantsType
        <5>3. last[v] \in Int
          BY <3>1, StateType
        <5>4. clock - scrapeAge - CollectEvery + 1 \in Int
          BY StateType, ConstantsType
        <5> HIDE DEF n
        <5> QED
          BY <3>1, <4>2, <5>1, <5>2, <5>3, <5>4 DEF v
      <4> QED
        BY <1>1, <4>1, <4>2
    <3> HIDE DEF n, v
    <3>4. last'[v] # Never /\ last'[v] >= n
      BY <3>1, <3>2, <3>3, LastKept
    <3> QED
      BY <3>4 DEF n, v
  <2>3. s.at <= clock' /\ s.at > clock' - Window
    BY <2>1, TickTimes, StateType, ConstantsType
  <2> QED
    BY ONLY <2>2, <2>3
<1>3. ASSUME NEW u \in Usages, NEW t \in Nat,
             t % Step = 0, t <= clock', t > clock' - Window,
             t > clock' - (held'[u] - CollectEvery - ScrapeEvery)
      PROVE  \E s \in steps' : s.at = t /\ s.value >= u
  <2>1. CASE t <= clock
    <3>1. t > clock - (held[u] - CollectEvery - ScrapeEvery) /\ t > clock - Window
      BY <1>3, <2>1, TickFacts, StateType, ConstantsType
    <3>2. PICK s \in steps : s.at = t /\ s.value >= u
      BY <1>3, <2>1, <3>1 DEF StepsTell, CopiesTell
    <3>3. s \in steps'
      BY <1>3, <3>2 DEF Tick
    <3> QED
      BY <3>2, <3>3
  <2>2. CASE t > clock
    <3>1. t = clock + 1
      BY <1>3, <2>2, TickFacts, StateType
    <3>2. held'[u] > CollectEvery + ScrapeEvery
      BY <1>3, <3>1, TickFacts, StateType, ConstantsType
    <3>3. usage >= u /\ held[u] > CollectEvery + scrapeAge
      BY <3>2, TickFacts, StateType, ConstantsType
    <3>4. sample # None /\ sample >= u
      BY <3>3 DEF SampleTells, CopiesTell
    <3> DEFINE s == [at |-> clock + 1, value |-> sample]
    <3>5. NewStep = {s}
      BY <1>3, <3>1, <3>4 DEF NewStep
    <3>6. s \in steps'
      BY <1>3, <3>1, <3>5 DEF Tick
    <3> QED
      BY <3>1, <3>4, <3>6
  <2> QED
    BY <2>1, <2>2, StateType
<1> QED
  BY <1>2, <1>3 DEF StepsTell

\* Of any d numbers in a row one is a multiple of d.
LEMMA MultipleNear ==
  ASSUME NEW n \in Nat, NEW d \in Nat \ {0}
  PROVE  \E t \in Nat : t % d = 0 /\ n - d < t /\ t <= n
<1> DEFINE t == d * (n \div d)
<1>1. t \in Nat
  OBVIOUS
<1>2. n = t + (n % d) /\ (n % d) \in 0..(d - 1)
  OBVIOUS
<1>3. t % d = 0
  OBVIOUS
<1> HIDE DEF t
<1>4. n - d < t /\ t <= n
  BY <1>1, <1>2
<1> QED
  BY <1>1, <1>3, <1>4

LEMMA TickSustained == Typed /\ CopiesTell /\ Tick /\ StepsTell' => SustainedTells'
<1> SUFFICES ASSUME Typed, CopiesTell, Tick, StepsTell',
                    NEW u \in Usages, sustained'[u] # Never
             PROVE  /\ sustained'[u] - Need >= clock' - Window
                    /\ \E s \in steps' : s.value >= u /\ s.at > sustained'[u] - Step
  BY DEF SustainedTells
<1> DEFINE end == IF held'[u] = Need THEN clock' ELSE sustained[u]
<1>1. sustained'[u] = IF end - Need < clock' - Window THEN Never ELSE end
  BY DEF Tick
<1>2. clock' \in Nat /\ clock' = clock + 1 /\ sustained[u] \in Int /\ end \in Int
  BY TickTimes, StateType
<1>3. sustained'[u] = end /\ end - Need >= clock' - Window
  <2> HIDE DEF end
  <2> QED
    BY <1>1, <1>2, ConstantsType
<1>4. CASE held'[u] = Need
  <2>1. PICK t \in Nat : t % Step = 0 /\ clock' - Step < t /\ t <= clock'
    BY <1>2, ConstantsType, MultipleNear
  <2>2. Need \in Nat /\ Need - CollectEvery - ScrapeEvery = Step /\ Step <= Need
    BY ConstantsType DEF Need
  <2>3. end = clock'
    BY <1>4
  <2>4. t > clock' - Window
    BY <1>2, <1>3, <2>1, <2>2, <2>3, ConstantsType
  <2>5. t > clock' - (held'[u] - CollectEvery - ScrapeEvery)
    BY <1>4, <2>1, <2>2
  <2>6. \E s \in steps' : s.at = t /\ s.value >= u
    BY <2>1, <2>4, <2>5 DEF StepsTell
  <2> QED
    BY <1>3, <2>1, <2>3, <2>6
<1>5. CASE held'[u] # Need
  <2>1. end = sustained[u]
    BY <1>5
  <2>2. PICK s \in steps : s.value >= u /\ s.at > sustained[u] - Step
    BY <1>3, <2>1 DEF SustainedTells, CopiesTell
  <2>3. s.at \in Nat /\ Need \in Nat /\ Step <= Need
    BY StateType, ConstantsType DEF Need
  <2>4. s.at > clock' - Window
    BY <1>2, <1>3, <2>1, <2>2, <2>3, ConstantsType
  <2>5. s \in steps'
    BY <2>4 DEF Tick
  <2> QED
    BY <1>3, <2>1, <2>2, <2>5
<1> QED
  BY <1>4, <1>5

LEMMA CopiesInit == Init => CopiesTell
<1> SUFFICES ASSUME Init PROVE CopiesTell
  OBVIOUS
<1>1. /\ clock \in Nat /\ snap = 0 /\ sample = None /\ steps = {}
      /\ \A u \in Usages : held[u] = 0 /\ sustained[u] = Never
      /\ collectAge = CollectEvery /\ scrapeAge = ScrapeEvery
  BY ConstantsType DEF Init
<1>2. SnapTells /\ SampleTells
  BY <1>1, ConstantsType DEF SnapTells, SampleTells
<1>3. StepsTell
  BY <1>1, ConstantsType DEF StepsTell
<1>4. SustainedTells
  BY <1>1 DEF SustainedTells
<1> QED
  BY <1>2, <1>3, <1>4 DEF CopiesTell

LEMMA CopiesStep == Typed /\ CopiesTell /\ [Next]_vars => CopiesTell'
<1> SUFFICES ASSUME Typed, CopiesTell, [Next]_vars PROVE CopiesTell'
  OBVIOUS
<1>1. CASE CollectOnce \/ CollectFails
  BY <1>1, ReadTells
<1>2. CASE Scrape
  BY <1>2, ScrapeTells
<1>3. CASE Tick
  BY <1>3, TickSnap, TickSample, TickSteps, TickSustained DEF CopiesTell
<1>4. CASE UNCHANGED CallerVars
  BY <1>4 DEF CallerVars, volumeVars, exporterVars, scrapeVars,
              CopiesTell, SnapTells, SampleTells, StepsTell, SustainedTells
<1>5. LoadEnds \/ Collect \/ QueryFails \/ Signal \/ UNCHANGED vars => UNCHANGED CallerVars
  BY DEF LoadEnds, Collect, CollectStarts, DiskQuery, NextQuery, CollectExpires, QueryFails,
         Signal, vars, CallerVars, collectorVars
<1> QED
  BY <1>1, <1>2, <1>3, <1>4, <1>5 DEF Next, Terminating

-----------------------------------------------------------------------------
(* What the disk figure tells. *)

\* At the time of the disk query the figure is the largest size the query looked at.
DiskTells == DiskAsked => disk \in Found /\ \A v \in Found : v <= disk

LEMMA DiskStep == Typed /\ Timely /\ DiskTells /\ [Next]_vars => DiskTells'
<1> SUFFICES ASSUME Typed, Timely, DiskTells, [Next]_vars, DiskAsked'
             PROVE  (disk \in Found /\ \A v \in Found : v <= disk)'
  BY DEF DiskTells
<1> USE DEF volumeVars, exporterVars, scrapeVars, collectorVars, CallerVars
<1>1. CASE DiskQuery
  <2>1. disk' = Max(Found) /\ Found # {} /\ steps' = steps
    BY <1>1 DEF DiskQuery, OverTime
  <2>2. Found' = Found
    BY <2>1 DEF Found
  <2> QED
    BY <2>1, <2>2, FoundType DEF Typed
<1>2. CASE NextQuery
  <2>1. asked # << >> /\ asked' = Append(asked, clock) /\ UNCHANGED << clock, steps, disk >>
    BY <1>2 DEF NextQuery
  <2>2. asked'[1] = asked[1]
    BY <2>1 DEF Typed, TypeOK
  <2> QED
    BY <2>1, <2>2 DEF DiskTells, DiskAsked, Found
<1>3. CASE Tick
  <2>1. clock' = clock + 1 /\ asked' = asked /\ asked # << >> /\ clock \in Nat
    BY <1>3 DEF Tick, DiskAsked, Typed, TypeOK
  <2>2. asked \in Seq(Nat) /\ 1 \in DOMAIN asked
    BY <2>1 DEF Typed, TypeOK
  <2>3. asked[1] <= clock /\ asked[1] \in Nat
    BY <2>2 DEF Timely
  <2> QED
    BY <2>1, <2>3 DEF DiskAsked
<1>4. CASE QueryFails
  BY <1>4 DEF QueryFails, DiskAsked
<1>5. CASE UNCHANGED << clock, asked, disk, steps >>
  BY <1>5 DEF DiskTells, DiskAsked, Found
<1> QED
  BY <1>1, <1>2, <1>3, <1>4, <1>5
  DEF Next, Collect, Terminating, CollectOnce, CollectFails, Scrape, LoadEnds, CollectStarts,
      CollectExpires, Signal, vars

FigureInv == Typed /\ Timely /\ CopiesTell /\ DiskTells

LEMMA FigureInvariant == Spec => []FigureInv
<1>1. Init => FigureInv
  <2>1. Init => Timely
    BY InitTimely
  <2>2. Init => DiskTells
    BY DEF Init, DiskTells, DiskAsked
  <2> QED
    BY <2>1, <2>2, TypedInit, CopiesInit DEF FigureInv
<1>2. FigureInv /\ [Next]_vars => FigureInv'
  BY TypedStep, TimelyStep, CopiesStep, DiskStep DEF FigureInv
<1> QED
  BY <1>1, <1>2, PTL DEF Spec

\* What the volume held within the window for a reading, a scrape and a step together is in
\* the disk figure (the exporter's main.go:165-199, service.go:62,81-84), whatever the phases
\* of the three periods are, and although failures publish zeros and end the series.
THEOREM SustainedPeakIsSeen == Spec => []SustainedPeakSeen
<1>1. FigureInv => SustainedPeakSeen
  <2> SUFFICES ASSUME FigureInv, DiskAsked, NEW u \in Usages, sustained[u] # Never
               PROVE  disk >= u
    BY DEF SustainedPeakSeen
  <2>1. PICK s \in steps : s.value >= u
    BY DEF FigureInv, CopiesTell, SustainedTells
  <2>2. s.value \in Found
    BY DEF Found
  <2>3. disk \in Found /\ s.value <= disk
    BY <2>2 DEF FigureInv, DiskTells
  <2>4. disk \in Nat
    BY <2>3, StateType DEF FigureInv, Found
  <2> QED
    BY <2>1, <2>3, <2>4, StateType DEF FigureInv
<1> QED
  BY <1>1, FigureInvariant, PTL

\* A figure other than zero is a size the volume had no longer before the window than a
\* reading and the sample of it may be old.
THEOREM FigureIsOfTheWindow == Spec => []FigureIsRecent
<1>1. FigureInv => FigureIsRecent
  <2> SUFFICES ASSUME FigureInv, DiskAsked, disk # 0
               PROVE  last[disk] # Never
    BY DEF FigureIsRecent
  <2>1. PICK s \in steps : s.value = disk
    BY DEF FigureInv, DiskTells, Found
  <2> QED
    BY <2>1 DEF FigureInv, CopiesTell, StepsTell
<1> QED
  BY <1>1, FigureInvariant, PTL
=============================================================================
