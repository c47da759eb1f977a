------------------------------ MODULE QueryLoad -----------------------------
(***************************************************************************)
(* runQueryLoad of the workload: the tunnel to the query API (module       *)
(* PortForward), the wait until the API answers, and one query per tick of *)
(* a second until the timer of the experiment fires. Time is counted in    *)
(* ticks.                                                                  *)
(***************************************************************************)
EXTENDS PortForward

CONSTANTS
  WaitMax,    \* timeout of waitForQueryAPI, in attempts with their backoff
  Duration,   \* duration of the load, in ticks
  QueryMax    \* ticks a query can take: the timeout of the HTTP client

ASSUME TimesAssumption ==
  WaitMax \in Nat \ {0} /\ Duration \in Nat \ {0} /\ QueryMax \in Nat

VARIABLES
  pc,        \* where runQueryLoad is
  result,    \* none, nil or err
  apiReady,  \* the API behind the tunnel answers queries
  t,         \* time in the wait, then time in the load
  served,    \* queries of the load that were answered
  skipped    \* ticks passed over on a transient error

loadVars == << pc, result, apiReady, t, served, skipped >>
vars == << pfVars, loadVars >>

Init ==
  /\ PFInit
  /\ pc = "start" /\ result = "none" /\ apiReady = FALSE
  /\ t = 0 /\ served = 0 /\ skipped = 0

\* What GenerateQueries can return: the context's error, a connection that is
\* refused or reset, an API that is not up yet (404 or EOF), or one that answers
\* with another status.
Outcome(o) ==
  \/ ctx = "done" /\ o = "fatal" /\ UNCHANGED faults
  \/ /\ ctx = "live" /\ fwd # "forwarding"
     /\ o = "transient" /\ UNCHANGED faults
  \/ /\ ctx = "live" /\ fwd = "forwarding" /\ UNCHANGED faults
     /\ o = IF apiReady THEN "ok" ELSE "transient"
  \/ /\ ctx = "live" /\ fwd = "forwarding" /\ faults < MaxFaults
     /\ o \in {"transient", "fatal"}
     /\ faults' = faults + 1

-----------------------------------------------------------------------------
(* runQueryLoad. *)

Open ==
  /\ pc = "start"
  /\ pc' = "open" /\ call' = "service"
  /\ UNCHANGED << ctx, service, podReady, tunnelVars, faults, result, apiReady, t,
                  served, skipped >>

OpenFailed ==
  /\ pc = "open" /\ call = "err"
  /\ pc' = "returned" /\ result' = "err"
  /\ UNCHANGED << pfVars, apiReady, t, served, skipped >>

Opened ==
  /\ pc = "open" /\ call = "ok"
  /\ pc' = "wait" /\ t' = 0
  /\ UNCHANGED << pfVars, result, apiReady, served, skipped >>

\* A plausible slip: the tunnel is closed only when all went well.
ReturnKeepsTunnel(r) ==
  /\ pc' = "returned" /\ result' = r
  /\ IF r = "nil" THEN CloseStop ELSE UNCHANGED << stopCh, closes >>

\* A return after PortForwardService has succeeded runs defer close(stopCh).
Return(r) ==
  /\ pc' = "returned" /\ result' = r
  /\ CloseStop

\* One round of waitForQueryAPI.
WaitAttempt ==
  /\ pc = "wait" /\ t < WaitMax
  /\ \/ /\ ctx = "done"
        /\ Return("err") /\ UNCHANGED << t, faults >>
     \/ Outcome("ok") /\ pc' = "load" /\ t' = 0
        /\ UNCHANGED << result, stopCh, closes >>
     \/ Outcome("transient") /\ pc' = "backoff"
        /\ UNCHANGED << result, stopCh, closes, t >>
     \/ Outcome("fatal") /\ Return("err") /\ UNCHANGED t
  /\ UNCHANGED << ctx, service, podReady, call, readyCh, errCh, fwd, apiReady,
                  served, skipped >>

Backoff ==
  /\ pc = "backoff"
  /\ \/ ctx = "done" /\ Return("err") /\ UNCHANGED t
     \/ pc' = "wait" /\ t' = t + 1 /\ UNCHANGED << result, stopCh, closes >>
  /\ UNCHANGED << ctx, service, podReady, call, readyCh, errCh, fwd, faults, apiReady,
                  served, skipped >>

\* A plausible slip: the deadline is computed anew in every round.
WaitExpiredAnew ==
  /\ pc = "wait" /\ t >= WaitMax
  /\ t' = 0
  /\ UNCHANGED << pfVars, pc, result, apiReady, served, skipped >>

WaitExpired ==
  /\ pc = "wait" /\ t >= WaitMax
  /\ Return("err")
  /\ UNCHANGED << ctx, service, podReady, call, readyCh, errCh, fwd, faults, apiReady,
                  t, served, skipped >>

\* A plausible slip: the timer is not looked at.
TickNoTimer ==
  /\ pc = "load"
  /\ t' = t + 1
  /\ pc' = "query"
  /\ UNCHANGED << pfVars, result, apiReady, served, skipped >>

\* A tick; the timer is looked at before the query.
Tick ==
  /\ pc = "load"
  /\ t' = t + 1
  /\ IF t' >= Duration THEN Return("nil")
                       ELSE pc' = "query" /\ UNCHANGED << result, stopCh, closes >>
  /\ UNCHANGED << ctx, service, podReady, call, readyCh, errCh, fwd, faults, apiReady,
                  served, skipped >>

\* A plausible slip: any error ends the load, without an error.
QueryBreaks ==
  /\ pc = "query"
  /\ \E d \in 0..QueryMax : t' = t + d
  /\ \/ Outcome("ok") /\ served' = served + 1 /\ pc' = "load"
        /\ UNCHANGED << skipped, result, stopCh, closes >>
     \/ Outcome("transient") /\ Return("nil") /\ UNCHANGED << served, skipped >>
     \/ Outcome("fatal") /\ Return("err") /\ UNCHANGED << served, skipped >>
  /\ UNCHANGED << ctx, service, podReady, call, readyCh, errCh, fwd, apiReady >>

\* The ticks a long query runs over are lost but for one.
Query ==
  /\ pc = "query"
  /\ \E d \in 0..QueryMax : t' = t + d
  /\ \/ Outcome("ok") /\ served' = served + 1 /\ pc' = "load"
        /\ UNCHANGED << skipped, result, stopCh, closes >>
     \/ Outcome("transient") /\ skipped' = skipped + 1 /\ pc' = "load"
        /\ UNCHANGED << served, result, stopCh, closes >>
     \/ Outcome("fatal") /\ Return("err") /\ UNCHANGED << served, skipped >>
  /\ UNCHANGED << ctx, service, podReady, call, readyCh, errCh, fwd, apiReady >>

-----------------------------------------------------------------------------

ApiStarts ==
  /\ ~apiReady /\ fwd # "none"
  /\ apiReady' = TRUE
  /\ UNCHANGED << pfVars, pc, result, t, served, skipped >>

Workload == \/ Open \/ OpenFailed \/ Opened \/ WaitAttempt \/ Backoff \/ WaitExpired
            \/ Tick \/ Query

Terminating == pc = "returned" /\ fwd \in {"none", "ended"} /\ UNCHANGED vars

Next == \/ Workload
        \/ (PFCall \/ PFGoroutine \/ PodsChange) /\ UNCHANGED loadVars
        \/ Signal /\ pc # "returned" /\ UNCHANGED loadVars
        \/ ApiStarts \/ Terminating

\* Both goroutines run, ticks and backoffs elapse. Nothing makes a pod ready.
Spec == /\ Init /\ [][Next]_vars
        /\ WF_vars(Workload)
        /\ WF_vars(PFCall /\ UNCHANGED loadVars)
        /\ WF_vars((Listen \/ SendErr) /\ UNCHANGED loadVars)
        /\ WF_vars(ForwardEnds /\ stopCh = "closed" /\ UNCHANGED loadVars)

-----------------------------------------------------------------------------
(* Properties. *)

TypeOK ==
  /\ PFTypeOK
  /\ pc \in {"start", "open", "wait", "backoff", "load", "query", "returned"}
  /\ result \in {"none", "nil", "err"} /\ apiReady \in BOOLEAN
  /\ t \in 0..(Duration + WaitMax + QueryMax)
  /\ served \in Nat /\ skipped \in Nat

\* The tunnel is closed exactly once, by the one who owns its channel then: a
\* second close(stopCh) panics, and without any the tunnel keeps its local port,
\* which the next experiment on this instrument listens on.
TunnelClosedOnce ==
  /\ closes <= 1
  /\ pc = "returned" /\ call = "ok" => closes = 1

\* The load ends without an error only at its end: not before Duration, and later
\* only by what one query takes; and only on an API that has answered once.
NilMeansFullLoad ==
  result = "nil" =>
    /\ t >= Duration /\ t <= Duration + QueryMax
    /\ apiReady

\* The next tick finds that the timer has fired, and does not look at ctx.
LastTick == pc = "load" /\ t + 1 >= Duration

\* A signal ends the load, and with an error: no interrupted load is measured. Only a
\* signal in the last second may find the load ended without one.
SignalEndsLoad ==
  /\ ctx = "done" ~> pc = "returned"
  /\ ctx = "done" /\ pc # "returned" /\ ~LastTick ~> pc = "returned" /\ result = "err"

\* The goroutine of the tunnel is never left behind, neither blocked on errCh nor
\* forwarding.
NoGoroutineLeak == pc = "returned" ~> fwd \in {"none", "ended"}

\* Once a pod of the service stays ready, the load returns.
ReturnsIfReady == <>[]podReady => <>(pc = "returned")

\* docs/methodology.md:70: during an experiment a background read load of 1 QPS is kept
\* up; so a load that ends well has had at least one answer.
ReadLoadKept == result = "nil" => served > 0
=============================================================================
