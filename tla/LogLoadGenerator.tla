-------------------------- MODULE LogLoadGenerator -------------------------
(***************************************************************************)
(* The log producer: in each second it sends the load of the experiment to *)
(* the stack under test in about Parts batches, waits after an error and   *)
(* sends again while the second lasts, and sleeps what is left of it. A    *)
(* row of the benchmark claims that the stack took in lps lines a second.  *)
(***************************************************************************)
EXTENDS Integers

CONSTANTS
  Loads,      \* values of LOGS_PER_SEC
  Parts,      \* batches a second is meant to have: 10
  Cap,        \* lines in a batch at most: 500
  Second,     \* a second, in ticks
  Pause,      \* the sleep after an error, in ticks: 50 ms
  Timeout,    \* the timeout of the HTTP client, in ticks: 10 s
  MaxRounds   \* bound: seconds of load

ASSUME GeneratorAssumption ==
  /\ Loads \subseteq Nat \ {0} /\ Parts \in Nat \ {0, 1} /\ Cap \in Nat \ {0}
  /\ Second \in Nat \ {0} /\ Pause \in Nat \ {0} /\ Timeout \in Nat
  /\ MaxRounds \in Nat \ {0}

VARIABLES
  lps,       \* LOGS_PER_SEC
  backend,   \* BACKEND
  pc,        \* where main is: in the loop of a second, in the sleep after an error,
             \* in the sleep to the deadline, or killed with the pod
  clock,     \* time.Now
  deadline,  \* of this second
  sent,      \* lines of this second that were answered for
  rounds,    \* seconds begun
  counted,   \* history: sent, over the seconds before
  stored,    \* history: lines of this second that the backend has stored
  failed,    \* history: batches of this second that ended in an error
  slowest    \* history: the longest answer of this second

envVars == << lps, backend >>
vars == << envVars, pc, clock, deadline, sent, rounds, counted, stored, failed, slowest >>

Least(a, b) == IF a < b THEN a ELSE b
Greatest(a, b) == IF a < b THEN b ELSE a

\* Plausible slips: one line at a time; the last batch is not cut.
SingleLine == 1
WholeBatch(n) == n

\* batch, before it is cut to what is left of the load.
FullBatch == Least(Cap, Greatest(1, lps \div Parts))

Cut(n) == Least(n, lps - sent)

Batch == Cut(FullBatch)

Init ==
  /\ lps \in Loads /\ backend \in {"loki", "opensearch"}
  /\ pc = "loop" /\ clock = 0 /\ deadline = Second /\ sent = 0 /\ rounds = 1
  /\ counted = 0 /\ stored = 0 /\ failed = 0 /\ slowest = 0

Takes(d) ==
  /\ clock' = clock + d
  /\ slowest' = Greatest(slowest, d)

\* What a batch that is answered with 2xx has left in the backend. The bulk API of
\* OpenSearch answers 200 when it has refused documents, which is only logged.
StoredOf(n) == IF backend = "opensearch" THEN 0..n ELSE {n}

-----------------------------------------------------------------------------
(* main, one action for each turn of its loops. *)

InLoop == pc = "loop" /\ sent < lps /\ clock < deadline

\* flushLoki, flushOpenSearch return nil.
BatchAnswered ==
  /\ InLoop
  /\ \E d \in 0..Timeout, k \in StoredOf(Batch) : Takes(d) /\ stored' = stored + k
  /\ sent' = sent + Batch
  /\ UNCHANGED << envVars, pc, deadline, rounds, counted, failed >>

\* A plausible slip: what failed is counted.
BatchFailsCounted ==
  /\ InLoop
  /\ \E d \in 0..Timeout, k \in 0..Batch : Takes(d) /\ stored' = stored + k
  /\ failed' = failed + 1 /\ pc' = "backoff"
  /\ sent' = sent + Batch
  /\ UNCHANGED << envVars, deadline, rounds, counted >>

\* They return an error: a refused connection, another status, or an answer that was
\* lost or too late, in which case the backend may have stored the lines.
BatchFails ==
  /\ InLoop
  /\ \E d \in 0..Timeout, k \in 0..Batch : Takes(d) /\ stored' = stored + k
  /\ failed' = failed + 1 /\ pc' = "backoff"
  /\ UNCHANGED << envVars, deadline, sent, rounds, counted >>

\* A plausible slip: no sleep before the next try.
NoBackoff ==
  /\ pc = "backoff" /\ pc' = "loop"
  /\ UNCHANGED << envVars, clock, deadline, sent, rounds, counted, stored, failed, slowest >>

\* time.Sleep(50 * time.Millisecond)
Backoff ==
  /\ pc = "backoff" /\ pc' = "loop"
  /\ clock' = clock + Pause
  /\ UNCHANGED << envVars, deadline, sent, rounds, counted, stored, failed, slowest >>

LoopEnds ==
  /\ pc = "loop" /\ ~InLoop
  /\ pc' = "rest"
  /\ UNCHANGED << envVars, clock, deadline, sent, rounds, counted, stored, failed, slowest >>

NewSecond(now) ==
  /\ pc' = "loop" /\ clock' = now /\ deadline' = now + Second
  /\ rounds' = rounds + 1 /\ counted' = counted + sent
  /\ sent' = 0 /\ stored' = 0 /\ failed' = 0 /\ slowest' = 0
  /\ UNCHANGED envVars

\* A plausible slip: the next second begins as soon as the load is sent.
NoRest == pc = "rest" /\ rounds < MaxRounds /\ NewSecond(clock)

\* The sleep to the deadline, if it has not passed, and the next second.
Rest == pc = "rest" /\ rounds < MaxRounds /\ NewSecond(Greatest(clock, deadline))

\* The deletion of the deployment ends the process at any point.
Killed ==
  /\ pc # "killed" /\ pc' = "killed"
  /\ UNCHANGED << envVars, clock, deadline, sent, rounds, counted, stored, failed, slowest >>

Terminating == pc = "killed" /\ UNCHANGED vars

Next == \/ BatchAnswered \/ BatchFails \/ Backoff \/ LoopEnds \/ Rest
        \/ Killed \/ Terminating

Spec == Init /\ [][Next]_vars

-----------------------------------------------------------------------------
(* Properties. *)

TypeOK ==
  /\ lps \in Loads /\ backend \in {"loki", "opensearch"}
  /\ pc \in {"loop", "backoff", "rest", "killed"}
  /\ clock \in Nat /\ deadline \in Nat
  /\ sent \in 0..lps
  /\ rounds \in 1..MaxRounds
  /\ counted \in Nat /\ stored \in Nat /\ failed \in Nat /\ slowest \in 0..Timeout

\* The load is never higher than the row claims, over any time since the start: a
\* second that was late is not made up for, and no second begins early.
RateNotExceeded == counted + sent <= lps * (clock \div Second + 1)

\* The tries that fit into a second when each of them fails.
Retries == (Second + Pause - 1) \div Pause

\* What the backend holds of a second: with Loki at least what was counted, and with
\* either no more than the lines of each failed try on top, of which the sleep after an
\* error lets only Retries happen.
StoredNearSent ==
  /\ backend = "loki" => stored >= sent
  /\ stored <= sent + Retries * FullBatch

\* The producer keeps up: a second that ends short, without an error, had an answer
\* that took a share of it. The share is 1/(2 * Parts - 2) although the load is divided
\* by Parts: the division cuts the batch, so 19 lines go out one by one. A load above
\* Parts * Cap needs as many batches as Cap makes of it, so a smaller share is enough.
KeepsUp ==
  pc = "rest" /\ sent < lps /\ failed = 0 =>
    IF lps <= Parts * Cap THEN slowest * (2 * Parts - 2) >= Second
                          ELSE slowest * (lps - 1) >= Second * Cap
=============================================================================
