-------------------------- MODULE NamespaceDeletion -------------------------
(***************************************************************************)
(* DeleteNamespace and RecreateNamespace of the Kubernetes provider: the   *)
(* select between the ticker and the context, the one forced finalization  *)
(* after two minutes, the last one when the context is done, and next to   *)
(* them the namespace controller, which removes what carries no finalizer  *)
(* and, of the pods, what its node has stopped.                            *)
(* Time is in minutes since the wait began; the ticker (200 ms) is always  *)
(* ready again when a minute has passed.                                   *)
(***************************************************************************)
EXTENDS Integers, Sequences

CONSTANTS
  ForceAfter,   \* forceAfter: 2 minutes
  Deadline,     \* the timeout of the wait: 5 minutes
  Stuck,        \* kinds whose finalizers no controller will remove
  MaxFaults     \* bound: API calls that fail or hang

Kinds == {"pvc", "pod", "sts", "deployment", "custom"}

ASSUME TimesAssumption ==
  ForceAfter \in Nat /\ Deadline \in Nat /\ ForceAfter + 1 < Deadline

ASSUME BoundsAssumption == Stuck \subseteq Kinds /\ MaxFaults \in Nat

VARIABLES
  mode,        \* delete: DeleteNamespace is called; recreate: RecreateNamespace
  pc,          \* where the call is
  result,      \* none, nil or err
  parent,      \* the caller's context: live, or done after a signal
  now,         \* minutes since the wait began
  tick,        \* the ticker's channel is full
  forcedOnce,
  background,  \* the forced finalization runs under context.Background()
  strip,       \* the kinds whose finalizers are still to be stripped, in order
  phase,       \* of the namespace: absent, active or terminating
  marked,      \* the namespace controller has deleted the content
  content,     \* kinds of objects that exist in the namespace
  held,        \* those that carry a finalizer
  podRuns,     \* a node has not confirmed that a pod of the namespace has stopped
  faults

callVars == << mode, pc, result, now, tick, forcedOnce, background, strip >>
nsVars == << phase, marked, content, held, podRuns >>
vars == << callVars, nsVars, parent, faults >>

\* forceFinalizeNamespaceResources knows four kinds; custom resources are not
\* among them.
StripOrder == << "pvc", "pod", "sts", "deployment" >>

CtxDone == parent = "done" \/ now >= Deadline

\* What the deletion of the content leaves: what carries a finalizer, and a pod whose
\* node has not stopped it, be it in its grace period or the node dead.
Lasting(kinds, runs) == kinds \cup (IF runs THEN {"pod"} ELSE {})

Init ==
  /\ mode \in {"delete", "recreate"} /\ pc = "get" /\ result = "none"
  /\ parent = "live" /\ now = 0 /\ tick = FALSE
  /\ forcedOnce = FALSE /\ background = FALSE /\ strip = << >>
  /\ phase \in {"absent", "active", "terminating"}
  /\ marked \in (IF phase = "terminating" THEN BOOLEAN ELSE {FALSE})
  /\ held \in SUBSET Kinds /\ podRuns \in BOOLEAN
  /\ content \in {Lasting(held, podRuns), Kinds}
  /\ (phase = "absent") => (content = {})
  /\ marked => (content = Lasting(held, podRuns))
  /\ faults = 0

-----------------------------------------------------------------------------
(* The namespace controller. *)

MarkContent ==
  /\ phase = "terminating" /\ ~marked
  /\ marked' = TRUE
  /\ content' = Lasting(held, podRuns)
  /\ UNCHANGED << callVars, parent, faults, phase, held, podRuns >>

ReleaseFinalizer ==
  /\ phase = "terminating" /\ marked
  /\ \E k \in held \ Stuck : held' = held \ {k}
  /\ content' = Lasting(held', podRuns)
  /\ UNCHANGED << callVars, parent, faults, phase, marked, podRuns >>

\* The node confirms: before the end of the namespace or after it, or never.
PodStops ==
  /\ marked /\ podRuns
  /\ podRuns' = FALSE
  /\ content' = Lasting(held, FALSE)
  /\ UNCHANGED << callVars, parent, faults, phase, marked, held >>

RemoveNamespace ==
  /\ phase = "terminating" /\ marked /\ content = {}
  /\ phase' = "absent"
  /\ UNCHANGED << callVars, parent, faults, marked, content, held, podRuns >>

-----------------------------------------------------------------------------
(* DeleteNamespace. *)

\* An API call under ctx fails when ctx is done, and may fail of its own.
CallErr(done) ==
  \/ done /\ UNCHANGED faults
  \/ ~done /\ faults < MaxFaults /\ faults' = faults + 1

\* DeleteNamespace returns; RecreateNamespace goes on after a nil.
Finish(r) ==
  /\ IF r = "nil" /\ mode = "recreate" THEN pc' = "create" /\ UNCHANGED result
                                       ELSE pc' = "returned" /\ result' = r
  /\ UNCHANGED << mode, now, forcedOnce, background, strip >>

Get ==
  /\ pc = "get"
  /\ \/ CallErr(parent = "done") /\ Finish("err")
     \/ parent = "live" /\ UNCHANGED faults /\
        \/ phase = "absent" /\ Finish("nil")
        \/ /\ phase # "absent"
           /\ pc' = IF phase = "terminating" THEN "wait" ELSE "delete"
           /\ UNCHANGED << mode, result, now, forcedOnce, background, strip >>
  /\ UNCHANGED << nsVars, parent, tick >>

Delete ==
  /\ pc = "delete"
  /\ \/ CallErr(parent = "done") /\ Finish("err") /\ UNCHANGED nsVars
     \/ /\ parent = "live"
        /\ phase' = "terminating"
        /\ pc' = "wait"
        /\ UNCHANGED << marked, content, held, podRuns, mode, result, now, forcedOnce,
                        background, strip, faults >>
  /\ UNCHANGED << parent, tick >>

\* A plausible slip: only the namespace is finalized.
StartForceNamespaceOnly(bg) ==
  /\ pc' = "strip" /\ strip' = << >>
  /\ background' = bg
  /\ UNCHANGED << mode, result, now >>

StartForce(bg) ==
  /\ pc' = "strip" /\ strip' = StripOrder
  /\ background' = bg
  /\ UNCHANGED << mode, result, now >>

\* A plausible slip: the ticker never forces.
OnTickNoForce ==
  /\ pc = "wait" /\ tick
  /\ tick' = FALSE
  /\ \/ CallErr(CtxDone) /\ Finish("err")
     \/ ~CtxDone /\ phase = "absent" /\ Finish("nil") /\ UNCHANGED faults
     \/ /\ ~CtxDone /\ phase = "terminating"
        /\ UNCHANGED << faults, mode, pc, result, now, forcedOnce, background, strip >>
  /\ UNCHANGED << nsVars, parent >>

\* case <-ticker.C, which select may choose although ctx is done as well.
OnTick ==
  /\ pc = "wait" /\ tick
  /\ tick' = FALSE
  /\ \/ CallErr(CtxDone) /\ Finish("err")
     \/ ~CtxDone /\ phase = "absent" /\ Finish("nil") /\ UNCHANGED faults
     \/ /\ ~CtxDone /\ phase = "terminating" /\ UNCHANGED faults
        /\ IF ~forcedOnce /\ now > ForceAfter
             THEN forcedOnce' = TRUE /\ StartForce(FALSE)
             ELSE UNCHANGED << mode, pc, result, now, forcedOnce, background, strip >>
  /\ UNCHANGED << nsVars, parent >>

\* case <-ctx.Done().
OnDone ==
  /\ pc = "wait" /\ CtxDone
  /\ StartForce(TRUE)
  /\ UNCHANGED << nsVars, parent, tick, forcedOnce, faults >>

\* A plausible slip: the objects are deleted, their finalizers are not patched.
StripKindDeletes ==
  /\ pc = "strip" /\ strip # << >>
  /\ strip' = Tail(strip)
  /\ content' = content \ {Head(strip)}
  /\ UNCHANGED << mode, pc, result, now, tick, forcedOnce, background, phase, marked,
                  held, podRuns, parent, faults >>

\* List and patch one kind; an object already deleted goes with its finalizer, a pod
\* when its node has stopped it.
StripKind ==
  /\ pc = "strip" /\ strip # << >>
  /\ strip' = Tail(strip)
  /\ \/ CallErr(CtxDone /\ ~background) /\ UNCHANGED << held, content >>
     \/ /\ background \/ ~CtxDone
        /\ held' = held \ {Head(strip)}
        /\ content' = IF marked THEN Lasting(held', podRuns) ELSE content
        /\ UNCHANGED faults
  /\ UNCHANGED << mode, pc, result, now, tick, forcedOnce, background, phase, marked,
                  podRuns, parent >>

\* A plausible slip: the loop goes on after the last forced finalization.
FinalizeLoops ==
  /\ pc = "strip" /\ strip = << >>
  /\ pc' = "wait"
  /\ \/ CallErr(CtxDone /\ ~background) /\ UNCHANGED nsVars
     \/ /\ background \/ ~CtxDone
        /\ phase' = "absent"
        /\ UNCHANGED << marked, content, held, podRuns, faults >>
  /\ UNCHANGED << mode, result, now, tick, forcedOnce, background, strip, parent >>

\* Get, then Finalize with no finalizers: the namespace goes, whatever is in it.
Finalize ==
  /\ pc = "strip" /\ strip = << >>
  /\ pc' = IF background THEN "last" ELSE "wait"
  /\ \/ CallErr(CtxDone /\ ~background) /\ UNCHANGED nsVars
     \/ /\ background \/ ~CtxDone
        /\ phase' = "absent"
        /\ UNCHANGED << marked, content, held, podRuns, faults >>
  /\ UNCHANGED << mode, result, now, tick, forcedOnce, background, strip, parent >>

\* A plausible slip: the outcome of the last Get is not looked at.
LastGetUnchecked ==
  /\ pc = "last"
  /\ Finish("nil")
  /\ UNCHANGED << nsVars, parent, tick, faults >>

\* The Get that follows the last forced finalization.
LastGet ==
  /\ pc = "last"
  /\ \/ CallErr(FALSE) /\ Finish("err")
     \/ phase = "absent" /\ Finish("nil") /\ UNCHANGED faults
     \/ phase # "absent" /\ Finish("err") /\ UNCHANGED faults
  /\ UNCHANGED << nsVars, parent, tick >>

\* CreateNamespace of RecreateNamespace; what was left in the namespace is back.
Create ==
  /\ pc = "create"
  /\ pc' = "returned"
  /\ \/ /\ CallErr(parent = "done")
        /\ result' = "err" /\ UNCHANGED phase
     \/ /\ parent = "live" /\ phase = "absent" /\ UNCHANGED faults
        /\ result' = "nil" /\ phase' = "active"
     \/ /\ parent = "live" /\ phase # "absent" /\ UNCHANGED faults
        /\ result' = "err" /\ UNCHANGED phase
  /\ UNCHANGED << mode, now, tick, forcedOnce, background, strip, marked, content,
                  held, podRuns, parent >>

-----------------------------------------------------------------------------
(* Time and signals. *)

\* A loop that waits takes its ticks before the minute is over; the namespace
\* controller marks the content well within ForceAfter.
Minute ==
  /\ pc = "wait" /\ now < Deadline /\ ~tick
  /\ now < ForceAfter \/ marked \/ phase = "absent"
  /\ now' = now + 1 /\ tick' = TRUE
  /\ UNCHANGED << mode, pc, result, forcedOnce, background, strip, nsVars, parent,
                  faults >>

\* A call of the forced finalization that takes until the deadline.
Hang ==
  /\ pc = "strip" /\ now < Deadline /\ faults < MaxFaults
  /\ now' = Deadline /\ tick' = TRUE /\ faults' = faults + 1
  /\ UNCHANGED << mode, pc, result, forcedOnce, background, strip, nsVars, parent >>

Signal ==
  /\ parent = "live" /\ pc # "returned"
  /\ parent' = "done"
  /\ UNCHANGED << callVars, nsVars, faults >>

Terminating == pc = "returned" /\ UNCHANGED vars

Caller == \/ Get \/ Delete \/ OnTick \/ OnDone \/ StripKind \/ Finalize \/ LastGet
          \/ Create

Controller == MarkContent \/ ReleaseFinalizer \/ PodStops \/ RemoveNamespace

Next == Caller \/ Controller \/ Minute \/ Hang \/ Signal \/ Terminating

\* The goroutine runs, time passes and the namespace controller works; no
\* fairness of ReleaseFinalizer and PodStops: finalizers and pods may stay for ever.
Spec == /\ Init /\ [][Next]_vars
        /\ WF_vars(Caller) /\ WF_vars(Minute) /\ WF_vars(MarkContent)

-----------------------------------------------------------------------------
(* Properties. *)

TypeOK ==
  /\ mode \in {"delete", "recreate"}
  /\ pc \in {"get", "delete", "wait", "strip", "last", "create", "returned"}
  /\ result \in {"none", "nil", "err"} /\ parent \in {"live", "done"}
  /\ now \in 0..Deadline /\ tick \in BOOLEAN
  /\ forcedOnce \in BOOLEAN /\ background \in BOOLEAN
  /\ strip \in Seq(Kinds)
  /\ phase \in {"absent", "active", "terminating"} /\ marked \in BOOLEAN
  /\ held \in SUBSET Kinds /\ podRuns \in BOOLEAN
  /\ content \in SUBSET Kinds /\ Lasting(held, podRuns) \subseteq content
  /\ faults \in 0..MaxFaults

\* A nil from DeleteNamespace means that the namespace is gone, and from
\* RecreateNamespace that it is there anew: the next call of every service
\* installs a chart into it and relies on that.
NilMeansGone ==
  result = "nil" => phase = IF mode = "delete" THEN "absent" ELSE "active"

\* A namespace that will never terminate by itself is removed all the same
\* within the deadline: an error means a failed call or a signal.
StuckIsResolved == result = "err" => faults > 0 \/ parent = "done"

\* What outlives a namespace is custom resources, of which the forced finalization knows
\* nothing, and a pod that its node has not stopped: it has no finalizer to strip, so
\* provider.go:203-206 passes it over and the namespace is finalized over it. More is left
\* only if an API call failed, or if a signal had the namespace finalized before the
\* controller had deleted its content.
OrphansAreKnown ==
  phase = "absent" /\ faults = 0 =>
    \/ content \subseteq Lasting({"custom"}, podRuns)
    \/ parent = "done" /\ ~marked

\* The call returns, whatever finalizers are stuck and whichever calls fail.
Returns == <>(pc = "returned")

\* provider.go:176: finalizers are stripped "if Terminating is stuck", that is
\* after the two minutes the wait gives the controllers to remove what is in it.
ForcedOnlyWhenStuck ==
  [][pc = "wait" /\ pc' = "strip" /\ content # {} => now > ForceAfter]_vars
=============================================================================
