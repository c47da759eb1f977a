----------------------- MODULE NamespaceDeletionProofs ----------------------
(***************************************************************************)
(* Theorems about module NamespaceDeletion, for every pair of timeouts,    *)
(* every set of stuck finalizers and any number of failing calls.          *)
(***************************************************************************)
EXTENDS NamespaceDeletion, SequenceTheorems, TLAPS

\* The kinds to strip are a sequence of kinds.
LEMMA StripOrderType == StripOrder \in Seq(Kinds) /\ << >> \in Seq(Kinds)
  BY EmptySeq DEF StripOrder, Kinds

\* The types hold when the call is made.
LEMMA InitType == Init => TypeOK
<1> SUFFICES ASSUME Init PROVE TypeOK
  OBVIOUS
<1>1. /\ now \in 0..Deadline /\ faults \in 0..MaxFaults
  BY TimesAssumption, BoundsAssumption DEF Init
<1>2. Lasting(held, podRuns) \subseteq content /\ content \subseteq Kinds
  BY DEF Init, Lasting, Kinds
<1> QED
  BY <1>1, <1>2, StripOrderType DEF Init, TypeOK

\* A failing call stays within the bound.
LEMMA CallErrType ==
  ASSUME TypeOK, NEW done, CallErr(done)
  PROVE  faults' \in 0..MaxFaults
  BY BoundsAssumption DEF TypeOK, CallErr

\* Every step keeps the types.
LEMMA StepType == TypeOK /\ [Next]_vars => TypeOK'
<1> SUFFICES ASSUME TypeOK, [Next]_vars PROVE TypeOK'
  OBVIOUS
<1> USE DEF TypeOK, nsVars
<1>1. CASE MarkContent \/ ReleaseFinalizer \/ PodStops \/ RemoveNamespace
  <2>1. /\ phase' \in {"absent", "active", "terminating"} /\ marked' \in BOOLEAN
        /\ podRuns' \in BOOLEAN
    BY <1>1 DEF MarkContent, ReleaseFinalizer, PodStops, RemoveNamespace
  <2>2. /\ held' \in SUBSET Kinds /\ content' \in SUBSET Kinds
        /\ Lasting(held', podRuns') \subseteq content'
    <3>1. ASSUME NEW kinds \in SUBSET Kinds, NEW runs \in BOOLEAN
          PROVE  Lasting(kinds, runs) \in SUBSET Kinds
      BY DEF Lasting, Kinds
    <3>2. CASE MarkContent
      BY <3>1, <3>2 DEF MarkContent
    <3>3. CASE ReleaseFinalizer
      BY <3>1, <3>3 DEF ReleaseFinalizer
    <3>4. CASE PodStops
      BY <3>1, <3>4 DEF PodStops
    <3>5. CASE RemoveNamespace
      BY <3>5 DEF RemoveNamespace
    <3> QED
      BY <1>1, <3>2, <3>3, <3>4, <3>5
  <2> QED
    BY <1>1, <2>1, <2>2
    DEF MarkContent, ReleaseFinalizer, PodStops, RemoveNamespace, callVars
<1>2. CASE Get
  BY <1>2, CallErrType DEF Get, Finish
<1>3. CASE Delete
  BY <1>3, CallErrType DEF Delete, Finish
<1>4. CASE OnTick
  BY <1>4, CallErrType, StripOrderType DEF OnTick, Finish, StartForce
<1>5. CASE OnDone
  BY <1>5, StripOrderType DEF OnDone, StartForce
<1>6. CASE StripKind
  <2>1. strip' \in Seq(Kinds)
    BY <1>6, HeadTailProperties DEF StripKind
  <2>2. /\ held' \in SUBSET Kinds /\ content' \in SUBSET Kinds
        /\ Lasting(held', podRuns') \subseteq content'
    BY <1>6 DEF StripKind, Lasting, Kinds
  <2>3. faults' \in 0..MaxFaults
    BY <1>6, CallErrType DEF StripKind
  <2> QED
    BY <1>6, <2>1, <2>2, <2>3 DEF StripKind
<1>7. CASE Finalize
  BY <1>7, CallErrType DEF Finalize
<1>8. CASE LastGet
  BY <1>8, CallErrType DEF LastGet, Finish
<1>9. CASE Create
  BY <1>9, CallErrType DEF Create
<1>10. CASE Minute \/ Hang
  <2>1. now' \in 0..Deadline /\ faults' \in 0..MaxFaults
    BY <1>10, TimesAssumption, BoundsAssumption DEF Minute, Hang
  <2> QED
    BY <1>10, <2>1 DEF Minute, Hang
<1>11. CASE Signal \/ UNCHANGED vars
  BY <1>11 DEF Signal, callVars, vars
<1> QED
  BY <1>1, <1>2, <1>3, <1>4, <1>5, <1>6, <1>7, <1>8, <1>9, <1>10, <1>11
  DEF Next, Caller, Controller, Terminating

\* The types of the call and of the namespace hold in every state.
THEOREM TypeCorrect == Spec => []TypeOK
  BY InitType, StepType, PTL DEF Spec

-----------------------------------------------------------------------------
(* Nil means gone. *)

\* The strengthening: the namespace is already gone when RecreateNamespace goes on
\* to create it, and a result is there only once the call has returned.
NilInv ==
  /\ pc = "create" => phase = "absent" /\ mode = "recreate"
  /\ result # "none" => pc = "returned"
  /\ NilMeansGone

\* Every step keeps the strengthened meaning of nil.
LEMMA NilStep == TypeOK /\ NilInv /\ [Next]_vars => NilInv'
<1> SUFFICES ASSUME TypeOK, NilInv, [Next]_vars PROVE NilInv'
  OBVIOUS
<1> USE DEF TypeOK, NilInv, NilMeansGone, nsVars
<1>1. CASE MarkContent \/ ReleaseFinalizer \/ PodStops \/ RemoveNamespace
  BY <1>1 DEF MarkContent, ReleaseFinalizer, PodStops, RemoveNamespace, callVars
<1>2. CASE Get
  BY <1>2 DEF Get, Finish
<1>3. CASE Delete
  BY <1>3 DEF Delete, Finish
<1>4. CASE OnTick
  BY <1>4 DEF OnTick, Finish, StartForce
<1>5. CASE OnDone
  BY <1>5 DEF OnDone, StartForce
<1>6. CASE StripKind \/ Finalize
  BY <1>6 DEF StripKind, Finalize
<1>7. CASE LastGet
  BY <1>7 DEF LastGet, Finish
<1>8. CASE Create
  BY <1>8 DEF Create
<1>9. CASE Minute \/ Hang \/ Signal \/ UNCHANGED vars
  BY <1>9 DEF Minute, Hang, Signal, callVars, vars
<1> QED
  BY <1>1, <1>2, <1>3, <1>4, <1>5, <1>6, <1>7, <1>8, <1>9
  DEF Next, Caller, Controller, Terminating

\* DeleteNamespace never returns nil while the namespace exists, and
\* RecreateNamespace never without having made it anew, whichever of the ticker and
\* the context wins the select (provider.go:119-174, 255-267).
THEOREM NilIsGone == Spec => []NilMeansGone
<1>1. Init => NilInv
  BY DEF Init, NilInv, NilMeansGone
<1>2. NilInv => NilMeansGone
  BY DEF NilInv
<1> QED
  BY <1>1, <1>2, NilStep, TypeCorrect, PTL DEF Spec

-----------------------------------------------------------------------------
(* What outlives the namespace.                                             *)

InStrip(k) == \E i \in 1..Len(strip) : strip[i] = k

\* As long as no call has failed of its own: two minutes into the wait the controller has been
\* through the content, and what a forced finalization has been through holds no finalizer,
\* unless a signal has interrupted it. One that is interrupted does not finalize the namespace
\* either: the one under context.Background() does, and that one nothing interrupts.
StripInv ==
  /\ marked => content = Lasting(held, podRuns)
  /\ faults = 0 =>
       /\ phase = "absent" /\ marked => held \subseteq {"custom"}
       /\ phase = "absent" /\ ~marked => content = {} \/ parent = "done"
       /\ pc \in {"get", "delete"} => now = 0
       /\ pc \in {"wait", "strip"} => phase # "active"
       /\ pc \in {"wait", "strip"} /\ now > ForceAfter => marked \/ phase = "absent"
       /\ pc = "strip" =>
            /\ parent = "live" => now > ForceAfter
            /\ ~background => now < Deadline
            /\ background \/ parent = "live" => \A k \in held \ {"custom"} : InStrip(k)

\* An error that is not the context's is a fault.
LEMMA CallErrFaults ==
  ASSUME TypeOK, NEW done, CallErr(done), faults' = 0
  PROVE  done /\ faults' = faults
  BY DEF CallErr, TypeOK

\* All but custom resources are stripped.
LEMMA AllInStrip == ASSUME strip' = StripOrder, NEW k \in Kinds \ {"custom"} PROVE InStrip(k)'
  BY DEF InStrip, StripOrder, Kinds

\* Taking the head off leaves the other kinds in the sequence.
LEMMA TailInStrip ==
  ASSUME strip \in Seq(Kinds), strip # << >>, strip' = Tail(strip),
         NEW k, InStrip(k), k # Head(strip)
  PROVE  InStrip(k)'
<1>1. PICK i \in 1..Len(strip) : strip[i] = k
  BY DEF InStrip
<1>2. i # 1 /\ Len(strip) \in Nat
  BY <1>1
<1>3. i - 1 \in 1..Len(Tail(strip)) /\ Tail(strip)[i - 1] = k
  BY <1>1, <1>2, HeadTailProperties
<1> QED
  BY <1>3 DEF InStrip

\* Every step keeps it.
LEMMA StripStep == TypeOK /\ StripInv /\ [Next]_vars => StripInv'
<1> SUFFICES ASSUME TypeOK, StripInv, [Next]_vars PROVE StripInv'
  OBVIOUS
<1> USE DEF nsVars
<1>1. /\ now \in Nat /\ now <= Deadline /\ ForceAfter \in Nat /\ Deadline \in Nat
      /\ ForceAfter + 1 < Deadline /\ faults \in Nat /\ strip \in Seq(Kinds)
      /\ Lasting(held, podRuns) \subseteq content /\ held \subseteq Kinds
      /\ parent \in {"live", "done"}
  BY TimesAssumption, BoundsAssumption DEF TypeOK
<1>2. CASE MarkContent \/ ReleaseFinalizer
  <2>1. /\ marked' => content' = Lasting(held', podRuns')
        /\ held' \subseteq held /\ UNCHANGED << callVars, parent, faults, phase >>
        /\ phase = "terminating" /\ marked'
    BY <1>2 DEF MarkContent, ReleaseFinalizer
  <2> QED
    BY <2>1 DEF StripInv, callVars, InStrip
<1>3. CASE PodStops
  <2>1. /\ content' = Lasting(held', podRuns')
        /\ marked /\ UNCHANGED << callVars, parent, faults, phase, marked, held >>
    BY <1>3 DEF PodStops
  <2> QED
    BY <2>1 DEF StripInv, callVars, InStrip
<1>4. CASE RemoveNamespace
  <2>1. /\ marked /\ content = {} /\ phase' = "absent"
        /\ UNCHANGED << callVars, parent, faults, marked, content, held, podRuns >>
    BY <1>4 DEF RemoveNamespace
  <2>2. held = {}
    BY <1>1, <2>1 DEF Lasting
  <2> QED
    BY <2>1, <2>2 DEF StripInv, callVars, InStrip
<1>5. CASE Get
  <2>1. UNCHANGED << phase, marked, content, held, podRuns, parent, now >> /\ pc = "get"
    BY <1>5 DEF Get, Finish
  <2>2. faults' = 0 => faults = 0
    BY <1>1, <1>5 DEF Get, CallErr
  <2>3. pc' \notin {"get", "strip"} /\ (pc' = "wait" => phase = "terminating")
    BY <1>5 DEF Get, Finish
  <2> QED
    BY <1>1, <2>1, <2>2, <2>3 DEF StripInv
<1>6. CASE Delete
  <2>1. UNCHANGED << marked, content, held, podRuns, parent, now >> /\ pc = "delete"
    BY <1>6 DEF Delete, Finish
  <2>2. faults' = 0 => faults = 0
    BY <1>1, <1>6 DEF Delete, CallErr
  <2>3. /\ pc' \notin {"get", "delete", "strip"}
        /\ phase' = "terminating" \/ (phase' = phase /\ pc' \in {"create", "returned"})
    BY <1>6 DEF Delete, Finish
  <2> QED
    BY <1>1, <2>1, <2>2, <2>3 DEF StripInv
<1>7. CASE OnTick
  <2>1. UNCHANGED << phase, marked, content, held, podRuns, parent, now >> /\ pc = "wait"
    BY <1>7 DEF OnTick, Finish, StartForce
  <2>2. faults' = 0 => faults = 0
    <3>1. CallErr(CtxDone) \/ UNCHANGED faults
      BY <1>7 DEF OnTick
    <3> QED
      BY <1>1, <3>1 DEF CallErr
  <2>3. pc' \notin {"get", "delete"}
    BY <1>7 DEF OnTick, Finish, StartForce
  <2>4. CASE pc' = "strip"
    <3>1. now > ForceAfter /\ ~CtxDone /\ strip' = StripOrder
      BY <1>7, <2>1, <2>4 DEF OnTick, StartForce, Finish
    <3>2. \A k \in held' \ {"custom"} : InStrip(k)'
      BY <1>1, <2>1, <3>1, AllInStrip
    <3>3. now < Deadline
      BY <1>1, <3>1 DEF CtxDone
    <3> QED
      BY <2>1, <2>2, <2>4, <3>1, <3>2, <3>3 DEF StripInv
  <2>5. CASE pc' # "strip"
    BY <2>1, <2>2, <2>3, <2>5 DEF StripInv
  <2> QED
    BY <2>4, <2>5
<1>8. CASE OnDone
  <2>1. /\ strip' = StripOrder /\ background' = TRUE /\ pc = "wait" /\ pc' = "strip"
        /\ UNCHANGED << now, phase, marked, content, held, podRuns, parent, faults >>
        /\ CtxDone
    BY <1>8 DEF OnDone, StartForce
  <2>2. \A k \in held' \ {"custom"} : InStrip(k)'
    BY <1>1, <2>1, AllInStrip
  <2>3. parent = "live" => now > ForceAfter
    BY <1>1, <2>1 DEF CtxDone
  <2> QED
    BY <2>1, <2>2, <2>3 DEF StripInv
<1>9. CASE StripKind
  <2>1. /\ pc = "strip" /\ pc' = "strip" /\ strip # << >> /\ strip' = Tail(strip)
        /\ UNCHANGED << now, background, phase, marked, podRuns, parent >>
    BY <1>9 DEF StripKind
  <2>2. marked' => content' = Lasting(held', podRuns')
    BY <1>1, <1>9 DEF StripKind, StripInv
  <2>3. held' \subseteq held /\ (~marked => content' = content)
    BY <1>9 DEF StripKind
  <2>4. faults' = 0 => faults = 0
    BY <1>1, <1>9 DEF StripKind, CallErr
  <2>5. ASSUME faults' = 0, background \/ parent = "live" PROVE Head(strip) \notin held'
    <3>1. CASE CallErr(CtxDone /\ ~background)
      <4>1. CtxDone /\ ~background
        BY <2>5, <3>1, CallErrFaults
      <4> QED
        BY <1>1, <2>1, <2>4, <2>5, <4>1 DEF StripInv, CtxDone
    <3>2. CASE held' = held \ {Head(strip)}
      BY <3>2
    <3> QED
      BY <1>9, <3>1, <3>2 DEF StripKind
  <2>6. ASSUME faults' = 0, background \/ parent = "live", NEW k \in held' \ {"custom"}
        PROVE  InStrip(k)'
    <3>1. InStrip(k) /\ k # Head(strip)
      BY <2>1, <2>3, <2>4, <2>5, <2>6 DEF StripInv
    <3> QED
      BY <1>1, <2>1, <3>1, TailInStrip
  <2> QED
    BY <2>1, <2>2, <2>3, <2>4, <2>6 DEF StripInv
<1>10. CASE Finalize
  <2>1. /\ pc = "strip" /\ strip = << >> /\ pc' \in {"last", "wait"}
        /\ UNCHANGED << now, parent, marked, content, held, podRuns >>
    BY <1>10 DEF Finalize
  <2>2. CASE CallErr(CtxDone /\ ~background) /\ UNCHANGED nsVars
    <3>1. faults' = 0 => faults = 0
      BY <2>2, CallErrFaults
    <3> QED
      BY <2>1, <2>2, <3>1 DEF StripInv
  <2>3. CASE (background \/ ~CtxDone) /\ phase' = "absent" /\ UNCHANGED faults
    <3>0. (background \/ parent = "live") /\ \A k : ~InStrip(k)
      BY <1>1, <2>1, <2>3 DEF InStrip, CtxDone
    <3>1. faults = 0 => held \subseteq {"custom"}
      BY <2>1, <3>0 DEF StripInv
    <3>2. faults = 0 /\ ~marked => content = {} \/ parent = "done"
      BY <1>1, <2>1 DEF StripInv
    <3> QED
      BY <2>1, <2>3, <3>1, <3>2 DEF StripInv
  <2> QED
    BY <1>10, <2>2, <2>3 DEF Finalize
<1>11. CASE LastGet
  BY <1>1, <1>11 DEF LastGet, Finish, StripInv, CallErr
<1>12. CASE Create
  <2>1. /\ pc' = "returned" /\ UNCHANGED << now, parent, marked, content, held, podRuns >>
        /\ phase' = phase \/ phase' = "active"
        /\ faults' = 0 => faults = 0
    BY <1>1, <1>12 DEF Create, CallErr
  <2> QED
    BY <2>1 DEF StripInv
<1>13. CASE Minute
  BY <1>1, <1>13 DEF Minute, StripInv
<1>14. CASE Hang \/ Signal
  BY <1>1, <1>14 DEF Hang, Signal, StripInv, callVars, InStrip
<1>15. CASE UNCHANGED vars
  BY <1>15 DEF vars, callVars, StripInv, InStrip
<1> QED
  BY <1>2, <1>3, <1>4, <1>5, <1>6, <1>7, <1>8, <1>9, <1>10, <1>11, <1>12, <1>13, <1>14, <1>15
  DEF Next, Caller, Controller, Terminating

\* It holds in every state.
LEMMA StripInvariant == Spec => [](TypeOK /\ StripInv)
<1>1. Init => StripInv
  BY TimesAssumption DEF Init, StripInv
<1> QED
  BY <1>1, InitType, StepType, StripStep, PTL DEF Spec

\* When no call has failed of its own, nothing outlives a namespace but custom resources, the
\* kind that the forced finalization does not know, and a pod that its node has not stopped,
\* which it passes over (provider.go:180-253): whichever finalizers are stuck, whenever others
\* are removed, and whenever a signal comes, unless it comes before the controller has deleted
\* the content.
THEOREM NothingElseOutlives == Spec => []OrphansAreKnown
<1>1. StripInv => OrphansAreKnown
  BY DEF StripInv, OrphansAreKnown, Lasting
<1> QED
  BY <1>1, StripInvariant, PTL

-----------------------------------------------------------------------------
(* The forced finalization ends the wait. *)

Undisturbed == faults = 0 /\ parent = "live"

\* Nothing happens after the first minute over ForceAfter but that the namespace is found
\* gone at the next tick.
ForceInv ==
  Undisturbed =>
    /\ result # "err"
    /\ pc \in {"get", "delete"} => now = 0 /\ ~forcedOnce
    /\ pc = "wait" /\ now <= ForceAfter => ~forcedOnce
    /\ pc = "wait" /\ now > ForceAfter => (tick /\ ~forcedOnce) \/ phase = "absent"
    /\ pc = "wait" /\ now > ForceAfter + 1 => tick /\ phase = "absent"
    /\ pc = "wait" => now <= ForceAfter + 2
    /\ pc = "strip" => ~background /\ now = ForceAfter + 1
    /\ pc # "last"
    /\ pc = "create" => phase = "absent"

\* A failing call that is a fault disturbs.
LEMMA CallErrDisturbs ==
  ASSUME TypeOK, NEW done, CallErr(done), UNCHANGED parent, Undisturbed'
  PROVE  done /\ Undisturbed
  BY CallErrFaults DEF Undisturbed

LEMMA ForceStep ==
  ASSUME ForceAfter + 2 < Deadline, TypeOK, ForceInv, [Next]_vars
  PROVE  ForceInv'
<1>1. /\ now \in Nat /\ ForceAfter \in Nat /\ Deadline \in Nat /\ faults \in Nat
      /\ tick \in BOOLEAN /\ forcedOnce \in BOOLEAN /\ background \in BOOLEAN
  BY TimesAssumption, BoundsAssumption DEF TypeOK
<1>2. SUFFICES ASSUME Undisturbed' PROVE ForceInv'
  BY DEF ForceInv
<1> USE DEF nsVars
<1>3. CASE MarkContent \/ ReleaseFinalizer \/ PodStops \/ RemoveNamespace
  <2>1. UNCHANGED << callVars, parent, faults >> /\ phase' \in {phase, "absent"}
    BY <1>3 DEF MarkContent, ReleaseFinalizer, PodStops, RemoveNamespace
  <2>2. Undisturbed
    BY <1>2, <2>1 DEF Undisturbed
  <2> QED
    BY <2>1, <2>2 DEF ForceInv, callVars
<1>4. CASE Get
  <2>1. parent' = parent /\ ~CallErr(parent = "done")
    BY <1>2, <1>4, CallErrDisturbs DEF Get, Undisturbed
  <2>2. Undisturbed /\ UNCHANGED << phase, now, forcedOnce >>
    BY <1>2, <1>4, <2>1 DEF Get, Finish, Undisturbed
  <2>3. /\ pc = "get" /\ pc' \in {"create", "returned", "wait", "delete"}
        /\ result' \in {result, "nil"}
        /\ pc' = "create" => phase = "absent"
    BY <1>4, <2>1 DEF Get, Finish
  <2> QED
    BY <1>1, <2>2, <2>3 DEF ForceInv
<1>5. CASE Delete
  <2>1. parent' = parent /\ ~CallErr(parent = "done")
    BY <1>2, <1>5, CallErrDisturbs DEF Delete, Undisturbed
  <2>2. pc = "delete" /\ pc' = "wait" /\ Undisturbed /\ UNCHANGED << now, forcedOnce, result >>
    BY <1>2, <1>5, <2>1 DEF Delete, Undisturbed
  <2> QED
    BY <1>1, <2>2 DEF ForceInv
<1>6. CASE OnTick
  <2>1. pc = "wait" /\ tick /\ tick' = FALSE /\ UNCHANGED << phase, parent >>
    BY <1>6 DEF OnTick
  <2>2. Undisturbed
    BY <1>2, <1>6, <2>1, CallErrDisturbs DEF OnTick, Undisturbed
  <2>3. ~CtxDone
    BY <1>1, <2>1, <2>2 DEF ForceInv, CtxDone, Undisturbed
  <2>4. ~CallErr(CtxDone)
    BY <1>2, <2>1, <2>3, CallErrDisturbs
  <2>5. CASE phase = "absent" /\ Finish("nil")
    BY <2>1, <2>2, <2>5 DEF Finish, ForceInv
  <2>6. CASE phase = "terminating" /\ ~forcedOnce /\ now > ForceAfter /\ StartForce(FALSE)
    BY <1>1, <2>1, <2>2, <2>6 DEF StartForce, ForceInv
  <2>7. CASE /\ phase = "terminating" /\ ~(~forcedOnce /\ now > ForceAfter)
             /\ UNCHANGED << mode, pc, result, now, forcedOnce, background, strip >>
    BY <1>1, <2>1, <2>2, <2>7 DEF ForceInv
  <2> QED
    BY <1>6, <2>3, <2>4, <2>5, <2>6, <2>7 DEF OnTick
<1>7. CASE OnDone
  <2>1. pc = "wait" /\ CtxDone /\ UNCHANGED << parent, faults >>
    BY <1>7 DEF OnDone
  <2>2. Undisturbed
    BY <1>2, <2>1 DEF Undisturbed
  <2> QED
    BY <1>1, <2>1, <2>2 DEF ForceInv, CtxDone, Undisturbed
<1>8. CASE StripKind
  <2>1. pc = "strip" /\ UNCHANGED << pc, result, now, forcedOnce, background, phase, parent >>
    BY <1>8 DEF StripKind
  <2>2. Undisturbed
    BY <1>2, <1>8, <2>1, CallErrDisturbs DEF StripKind, Undisturbed
  <2> QED
    BY <2>1, <2>2 DEF ForceInv
<1>9. CASE Finalize
  <2>1. pc = "strip" /\ UNCHANGED << result, now, forcedOnce, background, parent >>
    BY <1>9 DEF Finalize
  <2>2. Undisturbed
    BY <1>2, <1>9, <2>1, CallErrDisturbs DEF Finalize, Undisturbed
  <2>3. ~background /\ now = ForceAfter + 1 /\ ~CtxDone
    BY <1>1, <2>1, <2>2 DEF ForceInv, CtxDone, Undisturbed
  <2>4. ~CallErr(CtxDone /\ ~background)
    BY <1>2, <2>1, <2>3, CallErrDisturbs
  <2>5. phase' = "absent" /\ pc' = "wait"
    BY <1>9, <2>3, <2>4 DEF Finalize
  <2> QED
    BY <1>1, <2>1, <2>2, <2>3, <2>5 DEF ForceInv
<1>10. CASE LastGet
  <2>1. Undisturbed /\ pc = "last"
    BY <1>2, <1>10, CallErrDisturbs DEF LastGet, Undisturbed
  <2> QED
    BY <2>1 DEF ForceInv
<1>11. CASE Create
  <2>1. pc = "create" /\ pc' = "returned" /\ parent' = parent
    BY <1>11 DEF Create
  <2>2. ~CallErr(parent = "done")
    BY <1>2, <2>1, CallErrDisturbs DEF Undisturbed
  <2>3. Undisturbed
    BY <1>2, <1>11, <2>1, <2>2 DEF Create, Undisturbed
  <2>4. result' = "nil"
    BY <1>11, <2>1, <2>2, <2>3 DEF Create, ForceInv
  <2> QED
    BY <2>1, <2>4 DEF ForceInv
<1>12. CASE Minute
  <2>1. /\ pc = "wait" /\ ~tick /\ tick' = TRUE /\ now' = now + 1
        /\ UNCHANGED << pc, result, forcedOnce, background, phase, parent, faults >>
    BY <1>12 DEF Minute
  <2>2. Undisturbed
    BY <1>2, <2>1 DEF Undisturbed
  <2> QED
    BY <1>1, <2>1, <2>2 DEF ForceInv
<1>13. CASE Hang \/ Signal
  BY <1>1, <1>2, <1>13 DEF Hang, Signal, Undisturbed
<1>14. CASE UNCHANGED vars
  BY <1>2, <1>14 DEF vars, callVars, ForceInv, Undisturbed
<1> QED
  BY <1>3, <1>4, <1>5, <1>6, <1>7, <1>8, <1>9, <1>10, <1>11, <1>12, <1>13, <1>14
  DEF Next, Caller, Controller, Terminating

\* A namespace that finalizers hold for ever is gone, and nil returned, before the deadline
\* (provider.go:129-178), if the deadline leaves a tick after the forced finalization: two and
\* five minutes do. The wait for the namespace is then the only thing that a stuck one costs.
THEOREM StuckIsRemoved ==
  ASSUME ForceAfter + 2 < Deadline
  PROVE  Spec => []StuckIsResolved
<1>1. Init => ForceInv
  BY TimesAssumption DEF Init, ForceInv
<1>2. TypeOK /\ ForceInv /\ [Next]_vars => ForceInv'
  BY ForceStep
<1>3. TypeOK /\ ForceInv => StuckIsResolved
  BY BoundsAssumption DEF ForceInv, StuckIsResolved, Undisturbed, TypeOK
<1> QED
  BY <1>1, <1>2, <1>3, InitType, StepType, PTL DEF Spec
=============================================================================
