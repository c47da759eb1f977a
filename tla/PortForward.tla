---------------------------- MODULE PortForward -----------------------------
(***************************************************************************)
(* PortForwardService of the Kubernetes provider: the waits for the        *)
(* service and for a ready pod, the goroutine that runs ForwardPorts, the  *)
(* channels between them, and the select that ends the call. The caller    *)
(* owns stopCh once the call has returned it, and closes it.               *)
(***************************************************************************)
EXTENDS Integers

CONSTANT
  MaxFaults   \* bound: dials that fail, connections that break, queries that fail

ASSUME FaultsAssumption == MaxFaults \in Nat

VARIABLES
  ctx,        \* of the caller: live or done
  service,    \* the service exists
  podReady,   \* a pod of it is Running and Ready
  call,       \* where PortForwardService is
  stopCh,     \* none, open or closed
  closes,     \* how often close(stopCh) was called: twice is a panic
  readyCh,    \* closed by ForwardPorts when it listens
  errCh,      \* number of results in the buffer
  fwd,        \* the goroutine: none, dialing, forwarding, sending, ended
  faults

tunnelVars == << stopCh, closes, readyCh, errCh, fwd >>
pfVars == << ctx, service, podReady, call, tunnelVars, faults >>

PFTypeOK ==
  /\ ctx \in {"live", "done"} /\ service \in BOOLEAN /\ podReady \in BOOLEAN
  /\ call \in {"none", "service", "pod", "dial", "select", "ok", "err"}
  /\ stopCh \in {"none", "open", "closed"} /\ closes \in Nat
  /\ readyCh \in BOOLEAN /\ errCh \in 0..1
  /\ fwd \in {"none", "dialing", "forwarding", "sending", "ended"}
  /\ faults \in 0..MaxFaults

PFInit ==
  /\ ctx = "live" /\ service \in BOOLEAN /\ podReady \in BOOLEAN
  /\ call = "none"
  /\ stopCh = "none" /\ closes = 0 /\ readyCh = FALSE /\ errCh = 0 /\ fwd = "none"
  /\ faults = 0

CloseStop ==
  /\ stopCh' = "closed"
  /\ closes' = closes + 1

-----------------------------------------------------------------------------
(* The call. *)

\* getServiceWithWait: found, or two minutes have passed, or ctx is done.
FindService ==
  /\ call = "service"
  /\ \/ service /\ ctx = "live" /\ call' = "pod"
     \/ (~service \/ ctx = "done") /\ call' = "err"
  /\ UNCHANGED << ctx, service, podReady, tunnelVars, faults >>

\* A plausible slip: the wait for a ready pod looks at the pods alone.
FindPodNoCtx ==
  /\ call = "pod"
  /\ ctx = "live" /\ podReady /\ call' = "dial"
  /\ UNCHANGED << ctx, service, podReady, tunnelVars, faults >>

\* The wait for a ready pod has no timeout of its own.
FindPod ==
  /\ call = "pod"
  /\ \/ ctx = "done" /\ call' = "err"
     \/ ctx = "live" /\ podReady /\ call' = "dial"
  /\ UNCHANGED << ctx, service, podReady, tunnelVars, faults >>

\* The dialer, the channels and the goroutine; a forwarder that cannot be made
\* leaves none of them.
StartForward ==
  /\ call = "dial"
  /\ \/ /\ call' = "select" /\ stopCh' = "open" /\ fwd' = "dialing"
        /\ UNCHANGED faults
     \/ /\ faults < MaxFaults /\ faults' = faults + 1
        /\ call' = "err"
        /\ UNCHANGED << stopCh, fwd >>
  /\ UNCHANGED << ctx, service, podReady, closes, readyCh, errCh >>

SelectReady ==
  /\ call = "select" /\ readyCh
  /\ call' = "ok"
  /\ UNCHANGED << ctx, service, podReady, tunnelVars, faults >>

SelectErr ==
  /\ call = "select" /\ errCh > 0
  /\ errCh' = errCh - 1
  /\ call' = "err"
  /\ UNCHANGED << ctx, service, podReady, stopCh, closes, readyCh, fwd, faults >>

SelectDone ==
  /\ call = "select" /\ ctx = "done"
  /\ call' = "err"
  /\ CloseStop
  /\ UNCHANGED << ctx, service, podReady, readyCh, errCh, fwd, faults >>

-----------------------------------------------------------------------------
(* The goroutine: err := fw.ForwardPorts(); errCh <- err. *)

Listen ==
  /\ fwd = "dialing" /\ stopCh = "open"
  /\ fwd' = "forwarding"
  /\ readyCh' = TRUE
  /\ UNCHANGED << ctx, service, podReady, call, stopCh, closes, errCh, faults >>

\* ForwardPorts returns: stopCh is closed, or the connection is refused or lost.
ForwardEnds ==
  /\ fwd \in {"dialing", "forwarding"}
  /\ \/ stopCh = "closed" /\ UNCHANGED faults
     \/ stopCh = "open" /\ faults < MaxFaults /\ faults' = faults + 1
  /\ fwd' = "sending"
  /\ UNCHANGED << ctx, service, podReady, call, stopCh, closes, readyCh, errCh >>

\* A plausible slip: errCh is made without a buffer.
SendErrUnbuffered ==
  /\ fwd = "sending" /\ call = "select"
  /\ call' = "err"
  /\ fwd' = "ended"
  /\ UNCHANGED << ctx, service, podReady, stopCh, closes, readyCh, errCh, faults >>

\* The channel holds one result whether or not anybody receives it.
SendErr ==
  /\ fwd = "sending" /\ errCh < 1
  /\ errCh' = errCh + 1
  /\ fwd' = "ended"
  /\ UNCHANGED << ctx, service, podReady, call, stopCh, closes, readyCh, faults >>

-----------------------------------------------------------------------------
(* The cluster, and the signal. *)

PodsChange ==
  /\ \/ service' = TRUE /\ ~service /\ UNCHANGED podReady
     \/ podReady' = ~podReady /\ UNCHANGED service
  /\ call \in {"none", "service", "pod"}
  /\ UNCHANGED << ctx, call, tunnelVars, faults >>

Signal ==
  /\ ctx = "live"
  /\ ctx' = "done"
  /\ UNCHANGED << service, podReady, call, tunnelVars, faults >>

PFCall == FindService \/ FindPod \/ StartForward \/ SelectReady \/ SelectErr \/ SelectDone

PFGoroutine == Listen \/ ForwardEnds \/ SendErr
=============================================================================
