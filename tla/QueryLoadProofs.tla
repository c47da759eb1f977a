-------------------------- MODULE QueryLoadProofs ---------------------------
(***************************************************************************)
(* Theorems about modules PortForward and QueryLoad, for every duration    *)
(* and any number of faults.                                               *)
(***************************************************************************)
EXTENDS QueryLoad, TLAPS

\* Who owns stopCh: PortForwardService until it returns it, runQueryLoad after
\* that, and nobody once it is closed.
Owner ==
  /\ closes \in {0, 1}
  /\ closes = 1 => call = "err" \/ (call = "ok" /\ pc = "returned")
  /\ pc = "start" => call = "none"
  /\ pc \in {"wait", "backoff", "load", "query"} => call = "ok" /\ closes = 0
  /\ pc = "returned" /\ call = "ok" => closes = 1
  /\ pc = "returned" => call \in {"ok", "err"}
  /\ call \in {"none", "service", "pod", "dial", "select", "ok", "err"}

\* Every step keeps the ownership of stopCh.
LEMMA OwnerStep == Owner /\ [Next]_vars => Owner'
<1> SUFFICES ASSUME Owner, [Next]_vars PROVE Owner'
  OBVIOUS
<1> USE DEF Owner, tunnelVars, loadVars, pfVars
<1>1. CASE PFCall /\ UNCHANGED loadVars
  <2>1. CASE FindService \/ FindPod \/ StartForward
    BY <1>1, <2>1 DEF FindService, FindPod, StartForward
  <2>2. CASE SelectReady \/ SelectErr \/ SelectDone
    BY <1>1, <2>2 DEF SelectReady, SelectErr, SelectDone, CloseStop
  <2> QED
    BY <1>1, <2>1, <2>2 DEF PFCall
<1>2. CASE (PFGoroutine \/ PodsChange \/ Signal) /\ UNCHANGED loadVars
  BY <1>2 DEF PFGoroutine, Listen, ForwardEnds, SendErr, PodsChange, Signal
<1>3. CASE Open \/ OpenFailed \/ Opened
  BY <1>3 DEF Open, OpenFailed, Opened
<1>4. CASE WaitAttempt
  BY <1>4 DEF WaitAttempt, Return, CloseStop
<1>5. CASE Backoff \/ WaitExpired
  BY <1>5 DEF Backoff, WaitExpired, Return, CloseStop
<1>6. CASE Tick
  BY <1>6 DEF Tick, Return, CloseStop
<1>7. CASE Query
  BY <1>7 DEF Query, Return, CloseStop
<1>8. CASE ApiStarts \/ UNCHANGED vars
  BY <1>8 DEF ApiStarts, vars
<1> QED
  BY <1>1, <1>2, <1>3, <1>4, <1>5, <1>6, <1>7, <1>8 DEF Next, Workload, Terminating

\* stopCh is closed once and by its owner, in every interleaving of the call, the
\* goroutine and a signal: a second close would panic (provider.go:984-992,
\* workload.go:93).
THEOREM StopClosedOnce == Spec => []TunnelClosedOnce
<1>1. Init => Owner
  BY DEF Init, PFInit, Owner
<1>2. Owner => TunnelClosedOnce
  BY DEF Owner, TunnelClosedOnce
<1> QED
  BY <1>1, <1>2, OwnerStep, PTL DEF Spec

-----------------------------------------------------------------------------
(* Time and types. *)

\* What the clock may show at each place of runQueryLoad.
OnClock ==
  /\ t \in Nat
  /\ pc \in {"start", "open"} => t = 0
  /\ pc = "wait" => t <= WaitMax
  /\ pc = "backoff" => t < WaitMax
  /\ pc = "query" => t < Duration
  /\ pc = "load" => t < Duration + QueryMax
  /\ t <= Duration + WaitMax + QueryMax

\* The API has answered once before the load; nil is returned by its timer alone.
FullLoad ==
  /\ pc \in {"load", "query"} => apiReady
  /\ pc # "returned" => result = "none"
  /\ result = "nil" => t >= Duration /\ t <= Duration + QueryMax /\ apiReady

LoadInv == TypeOK /\ OnClock /\ FullLoad

LEMMA OutcomeFacts ==
  ASSUME PFTypeOK, NEW o, Outcome(o)
  PROVE  faults' \in 0..MaxFaults /\ (o = "ok" => apiReady)
  BY FaultsAssumption DEF Outcome, PFTypeOK

\* The calls of PortForwardService and of its goroutine keep the types of the tunnel.
LEMMA TunnelType ==
  ASSUME PFTypeOK, PFCall \/ PFGoroutine \/ PodsChange \/ Signal
  PROVE  PFTypeOK'
<1> USE DEF PFTypeOK, tunnelVars
<1>1. CASE FindService \/ FindPod
  BY <1>1 DEF FindService, FindPod
<1>2. CASE StartForward
  BY <1>2, FaultsAssumption DEF StartForward
<1>3. CASE SelectReady \/ SelectErr
  BY <1>3 DEF SelectReady, SelectErr
<1>4. CASE SelectDone
  BY <1>4 DEF SelectDone, CloseStop
<1>5. CASE Listen
  BY <1>5 DEF Listen
<1>6. CASE SendErr
  <2>1. errCh' \in 0..1
    BY <1>6 DEF SendErr
  <2> QED
    BY <1>6, <2>1 DEF SendErr
<1>7. CASE ForwardEnds
  BY <1>7, FaultsAssumption DEF ForwardEnds
<1>8. CASE PodsChange
  BY <1>8 DEF PodsChange
<1>9. CASE Signal
  BY <1>9 DEF Signal
<1> HIDE DEF PFTypeOK
<1> QED
  BY <1>1, <1>2, <1>3, <1>4, <1>5, <1>6, <1>7, <1>8, <1>9 DEF PFCall, PFGoroutine

LEMMA LoadStep == LoadInv /\ [Next]_vars => LoadInv'
<1> SUFFICES ASSUME LoadInv, [Next]_vars PROVE LoadInv'
  OBVIOUS
<1>1. PFTypeOK /\ TypeOK /\ OnClock /\ FullLoad
  BY DEF LoadInv, TypeOK
<1>2. WaitMax \in Nat \ {0} /\ Duration \in Nat \ {0} /\ QueryMax \in Nat
  BY TimesAssumption
<1> USE DEF LoadInv, TypeOK, OnClock, FullLoad
<1>3. CASE (PFCall \/ PFGoroutine \/ PodsChange \/ Signal) /\ UNCHANGED loadVars
  <2>1. PFTypeOK'
    BY <1>1, <1>3, TunnelType
  <2> QED
    BY <1>1, <1>3, <2>1 DEF loadVars
<1>4. CASE Open \/ OpenFailed \/ Opened
  BY <1>1, <1>2, <1>4 DEF Open, OpenFailed, Opened, pfVars, tunnelVars, PFTypeOK
<1>5. CASE WaitAttempt
  <2>1. PFTypeOK'
    BY <1>1, <1>5, OutcomeFacts DEF WaitAttempt, Return, CloseStop, PFTypeOK
  <2> QED
    BY <1>1, <1>2, <1>5, <2>1, OutcomeFacts DEF WaitAttempt, Return
<1>6. CASE Backoff \/ WaitExpired
  <2>1. PFTypeOK'
    BY <1>1, <1>6 DEF Backoff, WaitExpired, Return, CloseStop, PFTypeOK
  <2> QED
    BY <1>1, <1>2, <1>6, <2>1 DEF Backoff, WaitExpired, Return
<1>7. CASE Tick
  <2>1. PFTypeOK'
    BY <1>1, <1>7 DEF Tick, Return, CloseStop, PFTypeOK
  <2> QED
    BY <1>1, <1>2, <1>7, <2>1 DEF Tick, Return
<1>8. CASE Query
  <2>1. PFTypeOK'
    BY <1>1, <1>8, OutcomeFacts DEF Query, Return, CloseStop, PFTypeOK
  <2>2. PICK d \in 0..QueryMax : t' = t + d
    BY <1>8 DEF Query
  <2>3. pc = "query" /\ apiReady' = apiReady /\ t' \in Nat /\ t' < Duration + QueryMax
    BY <1>1, <1>2, <1>8, <2>2 DEF Query
  <2> QED
    BY <1>1, <1>2, <1>8, <2>1, <2>3 DEF Query, Return
<1>9. CASE ApiStarts \/ UNCHANGED vars
  <2>1. /\ UNCHANGED << ctx, service, podReady, call, stopCh, closes, readyCh, errCh, fwd, faults >>
        /\ UNCHANGED << pc, result, t, served, skipped >>
        /\ apiReady' = TRUE \/ apiReady' = apiReady
    BY <1>9 DEF ApiStarts, vars, pfVars, tunnelVars, loadVars
  <2>2. PFTypeOK'
    BY <1>1, <2>1 DEF PFTypeOK
  <2>3. apiReady' \in BOOLEAN
    BY <1>1, <2>1
  <2> QED
    BY <1>1, <2>1, <2>2, <2>3
<1>10. CASE Signal /\ pc # "returned" /\ UNCHANGED loadVars
  BY <1>3, <1>10
<1> HIDE DEF LoadInv, TypeOK, OnClock, FullLoad
<1> QED
  BY <1>3, <1>4, <1>5, <1>6, <1>7, <1>8, <1>9, <1>10 DEF Next, Workload, Terminating

LEMMA LoadInvariant == Spec => []LoadInv
<1>1. Init => LoadInv
  <2>1. 0 \in 0..MaxFaults /\ 0 \in 0..1 /\ 0 \in Nat
    BY FaultsAssumption
  <2>2. Init => PFTypeOK
    BY <2>1, Zenon DEF Init, PFInit, PFTypeOK
  <2>3. 0 \in 0..(Duration + WaitMax + QueryMax) /\ 0 <= Duration + WaitMax + QueryMax
    BY TimesAssumption
  <2>4. Init => TypeOK
    BY <2>1, <2>2, <2>3, Zenon DEF Init, TypeOK
  <2>5. Init => OnClock /\ FullLoad
    BY <2>3 DEF Init, OnClock, FullLoad
  <2> QED
    BY <2>4, <2>5 DEF LoadInv
<1> QED
  BY <1>1, LoadStep, PTL DEF Spec

\* errCh never holds more than its one place, and the clocks of the wait and of the load
\* stay within their bounds (provider.go:970-992, workload.go:96-160).
THEOREM TypeCorrect == Spec => []TypeOK
<1>1. LoadInv => TypeOK
  BY DEF LoadInv
<1> QED
  BY <1>1, LoadInvariant, PTL

\* No load is cut short, or drawn out by more than one query, and called a success
\* (workload.go:99-117), and none that never had an answer before it began (workload.go:144).
THEOREM NilIsFullLoad == Spec => []NilMeansFullLoad
<1>1. LoadInv => NilMeansFullLoad
  BY DEF LoadInv, FullLoad, NilMeansFullLoad
<1> QED
  BY <1>1, LoadInvariant, PTL
=============================================================================
