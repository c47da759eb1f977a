---------------------------- MODULE Measurement ----------------------------
(***************************************************************************)
(* How one row gets its figures. The disk exporter reads the size of the   *)
(* data volume again and again, the central Prometheus scrapes what the    *)
(* exporter last published, and when the load is over Collect asks the     *)
(* central Prometheus for the figures of the window before the query,      *)
(* until it has all four or its time is up. Nobody waits for anybody, so   *)
(* what a figure tells depends on how old each copy may be.                *)
(*                                                                         *)
(* Of the central Prometheus: an instant query sees at a time the last     *)
(* sample scraped; a scrape that fails ends the series until the next one; *)
(* max_over_time(...[W:Step]) looks at the multiples of Step in (q - W, q] *)
(* and answers with no data if there was a sample at none of them.         *)
(***************************************************************************)
EXTENDS Integers, Sequences, FiniteSetsExt

CONSTANTS
  Usages,        \* sizes the data volume may have
  None,          \* no value
  CollectEvery,  \* ticks from one reading of the volume to the next at most, the time of
                 \* du included
  ScrapeEvery,   \* ticks between scrapes of the exporter
  Step,          \* resolution of the disk query, in ticks
  Duration,      \* of the load
  Warmup,        \* warmupDuration
  Timeout,       \* of Collect
  CloseMax,      \* bound: ticks from the end of the load to the open tunnel of Collect
  MaxFaults      \* bound: readings and scrapes that fail

ASSUME MeasurementAssumption ==
  /\ Usages \subseteq Nat \ {0} /\ Usages # {} /\ None \notin Nat
  /\ {CollectEvery, ScrapeEvery, Step, Duration, Timeout} \subseteq Nat \ {0}
  /\ {Warmup, CloseMax, MaxFaults} \subseteq Nat

VARIABLES
  clock,
  usage,      \* bytes in the data volume
  snap,       \* state.used of the exporter
  collectAge, \* ticks since the volume was read
  sample,     \* the last sample of pvc_used_bytes
  scrapeAge,  \* ticks since the last scrape
  steps,      \* what a disk query that comes now or later may look at
  pc,         \* load, close (the deferred stop of the load, the new tunnel), collect, ok, err
  loaded,     \* when the timer of the load was started
  start,      \* when the present phase began
  asked,      \* when the figures of this round were evaluated
  disk,       \* the disk figure of this round
  held,       \* history: whole ticks the volume has held a size, undisturbed by failures
  sustained,  \* history: the last end of such a time that was long enough
  last,       \* history: when the volume last had a size that it has no more
  failedAt,   \* history: when a query last failed
  faults

volumeVars == << usage, held, last, faults >>
exporterVars == << snap, collectAge >>
scrapeVars == << sample, scrapeAge >>
collectorVars == << loaded, pc, start, asked, disk, failedAt >>
vars == << clock, volumeVars, exporterVars, scrapeVars, steps, sustained, collectorVars >>

Never == -1

\* A plausible slip: the window is the duration.
WholeDuration == Duration

\* collectWindow
Window == IF Duration - Warmup <= 0 THEN Duration ELSE Duration - Warmup

Init ==
  /\ clock \in 0..(Step - 1) /\ start = clock /\ loaded = clock
  /\ usage \in Usages /\ last = [u \in Usages |-> Never]
  /\ snap = 0 /\ collectAge = CollectEvery
  /\ sample = None /\ scrapeAge = ScrapeEvery /\ steps = {}
  /\ held = [u \in Usages |-> 0] /\ sustained = [u \in Usages |-> Never]
  /\ pc = "load" /\ faults = 0 /\ asked = << >> /\ disk = None /\ failedAt = Never

-----------------------------------------------------------------------------
(* The data volume, the exporter and the scrapes. *)

Disturbed ==
  /\ faults < MaxFaults /\ faults' = faults + 1
  /\ held' = [u \in Usages |-> 0]

Read == collectAge > 0 /\ collectAge' = 0

\* A plausible slip: the largest size is kept.
CollectOncePeak ==
  /\ Read /\ snap' = Max({snap, usage})
  /\ UNCHANGED << clock, volumeVars, scrapeVars, steps, sustained, collectorVars >>

\* collectOnce succeeds.
CollectOnce ==
  /\ Read /\ snap' = usage
  /\ UNCHANGED << clock, volumeVars, scrapeVars, steps, sustained, collectorVars >>

\* du or statfs fails: st.set(0, 0, 0, 0). Also an exporter that starts anew.
CollectFails ==
  /\ Read /\ snap' = 0 /\ Disturbed
  /\ UNCHANGED << clock, usage, last, scrapeVars, steps, sustained, collectorVars >>

Scrape ==
  /\ scrapeAge > 0 /\ scrapeAge' = 0
  /\ \/ sample' = snap /\ UNCHANGED << held, faults >>
     \/ sample' = None /\ Disturbed
  /\ UNCHANGED << clock, usage, last, exporterVars, steps, sustained, collectorVars >>

\* Long enough to be read, scraped and met by a step.
Need == CollectEvery + ScrapeEvery + Step

\* How old, in whole ticks, the size in a sample may be.
Oldest == (CollectEvery - 1) + (ScrapeEvery - 1)

\* At a multiple of Step the sample is what a query will see there.
NewStep == IF (clock + 1) % Step = 0 /\ sample # None
           THEN {[at |-> clock + 1, value |-> sample]} ELSE {}

\* Time passes when nothing is due. The load adds to the volume, compaction removes.
Tick ==
  /\ collectAge < CollectEvery /\ scrapeAge < ScrapeEvery
  /\ \/ pc = "load" /\ clock < start + Duration
     \/ pc = "close" /\ clock < start + CloseMax
     \/ pc = "collect" /\ clock < start + Timeout
  /\ clock' = clock + 1
  /\ collectAge' = collectAge + 1 /\ scrapeAge' = scrapeAge + 1
  /\ steps' = { s \in steps \cup NewStep : s.at > clock' - Window }
  /\ usage' \in Usages
  /\ held' = [u \in Usages |-> IF u <= usage THEN Min({Need, held[u] + 1}) ELSE 0]
  /\ sustained' = [u \in Usages |->
       LET end == IF held'[u] = Need THEN clock' ELSE sustained[u]
       IN IF end - Need < clock' - Window THEN Never ELSE end]
  /\ last' = [u \in Usages |-> IF u = usage THEN clock'
       ELSE IF last[u] < clock' - Window - Oldest THEN Never ELSE last[u]]
  /\ UNCHANGED << snap, sample, faults, collectorVars >>

-----------------------------------------------------------------------------
(* RunExperiment from the load on, Collect. *)

CallerVars == << loaded, clock, volumeVars, exporterVars, scrapeVars, steps, sustained >>

LoadEnds ==
  /\ pc = "load" /\ clock >= start + Duration
  /\ pc' = "close" /\ start' = clock
  /\ UNCHANGED << CallerVars, asked, disk, failedAt >>

CollectStarts ==
  /\ pc = "close"
  /\ pc' = "collect" /\ start' = clock
  /\ UNCHANGED << CallerVars, asked, disk, failedAt >>

InTime == pc = "collect" /\ clock < start + Timeout

\* What the disk query looks at.
Found == { s.value : s \in steps }

\* A plausible slip: avg_over_time, as in the other queries.
OverTimeAvg(values) == (Min(values) + Max(values)) \div 2

OverTime(values) == Max(values)

\* The first query of a round.
DiskQuery ==
  /\ InTime /\ asked = << >> /\ Found # {}
  /\ disk' = OverTime(Found) /\ asked' = << clock >>
  /\ UNCHANGED << CallerVars, pc, start, failedAt >>

\* cpu, memAvg and memPeak; the last one completes the figures.
NextQuery ==
  /\ InTime /\ asked # << >>
  /\ asked' = Append(asked, clock)
  /\ pc' = IF Len(asked') = 4 THEN "ok" ELSE pc
  /\ UNCHANGED << CallerVars, start, disk, failedAt >>

\* A plausible slip: the next round begins where this one stopped, without the figures.
QueryFailsForgets ==
  /\ pc = "collect"
  /\ disk' = None /\ failedAt' = clock
  /\ UNCHANGED << CallerVars, pc, start, asked >>

\* QueryInstantScalar returns an error (refused, another status, not JSON, no data) and
\* the round begins anew.
QueryFails ==
  /\ pc = "collect"
  /\ asked' = << >> /\ disk' = None /\ failedAt' = clock
  /\ UNCHANGED << CallerVars, pc, start >>

\* A plausible slip: Collect has no timeout of its own.
NoTimeout == FALSE /\ UNCHANGED vars

\* The context of Collect is done.
CollectExpires ==
  /\ pc = "collect" /\ clock >= start + Timeout
  /\ pc' = "err"
  /\ UNCHANGED << CallerVars, start, asked, disk, failedAt >>

\* The context of the process is. (A signal during the load is the matter of QueryLoad.)
Signal ==
  /\ pc = "collect" /\ pc' = "err"
  /\ UNCHANGED << CallerVars, start, asked, disk, failedAt >>

Terminating == pc \in {"ok", "err"} /\ UNCHANGED vars

Collect == CollectStarts \/ DiskQuery \/ NextQuery \/ CollectExpires

Next == \/ CollectOnce \/ CollectFails \/ Scrape \/ Tick
        \/ LoadEnds \/ Collect \/ QueryFails \/ Signal \/ Terminating

\* Time passes, the exporter and the central Prometheus keep their periods, the process
\* runs. No fairness to successes: queries may fail for ever.
Spec == /\ Init /\ [][Next]_vars
        /\ WF_vars(Tick) /\ WF_vars(CollectOnce \/ CollectFails) /\ WF_vars(Scrape)
        /\ WF_vars(LoadEnds) /\ WF_vars(CollectStarts) /\ WF_vars(CollectExpires)

-----------------------------------------------------------------------------
(* Properties. *)

TypeOK ==
  /\ clock \in Nat /\ loaded \in Nat /\ start \in Nat
  /\ usage \in Usages /\ snap \in Usages \cup {0}
  /\ sample \in Usages \cup {0, None}
  /\ collectAge \in 0..CollectEvery /\ scrapeAge \in 0..ScrapeEvery
  /\ steps \subseteq [at : Nat, value : Usages \cup {0}]
  /\ pc \in {"load", "close", "collect", "ok", "err"}
  /\ asked \in Seq(Nat) /\ Len(asked) <= 4
  /\ disk \in Usages \cup {0, None} /\ (asked # << >> => disk # None)
  /\ held \in [Usages -> 0..Need]
  /\ {sustained, last} \subseteq [Usages -> Nat \cup {Never}]
  /\ failedAt \in Nat \cup {Never} /\ faults \in 0..MaxFaults

DiskAsked == asked # << >> /\ asked[1] = clock

\* The disk figure is no less than any size the volume held within the window for as
\* long as the three periods together, if no reading and no scrape failed meanwhile: the
\* zeros that a failed reading publishes are masked by the maximum, and a figure of
\* zero means that the exporter hardly ever read the volume.
SustainedPeakSeen ==
  DiskAsked => \A u \in Usages : sustained[u] # Never => disk >= u

\* The disk figure is of the window: the volume had this size after the warm-up, but for
\* the age that a sample and the reading behind it can have.
FigureIsRecent ==
  DiskAsked /\ disk # 0 => disk = usage \/ last[disk] # Never

\* The four figures of a row are of one round: none was answered before a query that
\* failed later, so their windows are not minutes of retries apart. And none of the
\* windows takes in the warm-up of a load that is longer than it (but for the minute that
\* rate looks back from its first step), however late the load was stopped and however
\* long the queries were retried.
WindowClean ==
  pc = "ok" => \A k \in 1..4 :
    /\ asked[k] >= failedAt
    /\ Duration > Warmup => asked[k] - Window >= loaded + Warmup

\* Once its tunnel is open (for which it waits without a timeout), Collect returns
\* although an exporter that was never scraped leaves it without data for ever.
CollectEnds == pc = "collect" ~> pc \in {"ok", "err"}
=============================================================================
