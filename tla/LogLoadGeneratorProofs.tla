---------------------- MODULE LogLoadGeneratorProofs -----------------------
(***************************************************************************)
(* Theorems about module LogLoadGenerator, for every load, batch size,     *)
(* pause, timeout and number of seconds.                                   *)
(***************************************************************************)
EXTENDS LogLoadGenerator, TLAPS

-----------------------------------------------------------------------------
(* Products and quotients, which the provers know little of. *)

LEMMA ProductMonotone ==
  ASSUME NEW a \in Int, NEW b \in Int, NEW c \in Nat, a <= b
  PROVE  a * c <= b * c /\ c * a <= c * b
  BY SMT

LEMMA ProductType ==
  ASSUME NEW a \in Nat, NEW b \in Nat PROVE a * b \in Nat
  BY SMT

LEMMA ProductZero ==
  ASSUME NEW a \in Nat PROVE 0 * a = 0
  BY SMT

LEMMA ProductCancels ==
  ASSUME NEW a \in Int, NEW b \in Int, NEW c \in Nat \ {0}, a * c <= b * c
  PROVE  a <= b
<1> SUFFICES ASSUME b + 1 <= a PROVE FALSE
  OBVIOUS
<1>1. (b + 1) * c <= a * c
  BY ProductMonotone
<1>2. (b + 1) * c = b * c + c
  BY SMT
<1> QED
  BY <1>1, <1>2

LEMMA Quotient ==
  ASSUME NEW n \in Nat, NEW d \in Nat \ {0}
  PROVE  /\ n \div d \in Nat
         /\ (n \div d) * d <= n
         /\ n < (n \div d) * d + d
  BY SMT

LEMMA QuotientAbove ==
  ASSUME NEW n \in Nat, NEW d \in Nat \ {0}, NEW k \in Nat, k * d <= n
  PROVE  k <= n \div d
<1> DEFINE q == n \div d
<1>1. q \in Nat /\ n < q * d + d
  BY Quotient
<1> HIDE DEF q
<1>2. q * d + d = (q + 1) * d
  BY <1>1, SMT
<1> SUFFICES ASSUME q + 1 <= k PROVE FALSE
  BY <1>1 DEF q
<1>3. (q + 1) * d <= k * d
  BY <1>1, ProductMonotone
<1>4. (q + 1) * d \in Int /\ k * d \in Int
  BY <1>1, SMT
<1> QED
  BY <1>1, <1>2, <1>3, <1>4

-----------------------------------------------------------------------------
(* Types. *)

\* The load is fixed when the process starts.
LEMMA LoadType == lps \in Loads => lps \in Nat \ {0}
  BY GeneratorAssumption

\* A batch is of one line at least and of Cap lines at most.
LEMMA FullBatchType ==
  ASSUME lps \in Loads
  PROVE  /\ FullBatch \in 1..Cap
         /\ FullBatch <= Greatest(1, lps \div Parts)
<1>1. lps \in Nat /\ Parts \in Nat \ {0} /\ Cap \in Nat \ {0}
  BY GeneratorAssumption
<1>2. lps \div Parts \in Nat
  BY <1>1, Quotient
<1> QED
  BY <1>1, <1>2 DEF FullBatch, Least, Greatest

\* The last batch of a second is cut to what is left of the load.
LEMMA BatchType ==
  ASSUME TypeOK, sent < lps
  PROVE  /\ Batch \in 1..FullBatch /\ Batch \in Nat
         /\ sent + Batch \in 0..lps
         /\ sent + Batch < lps => Batch = FullBatch
<1>1. lps \in Nat /\ FullBatch \in 1..Cap /\ sent \in 0..lps
  BY FullBatchType, LoadType DEF TypeOK
<1>2. FullBatch \in Nat /\ FullBatch >= 1
  BY <1>1, GeneratorAssumption
<1> HIDE DEF FullBatch
<1> QED
  BY <1>1, <1>2 DEF Batch, Cut, Least

\* What an answered batch leaves in the backend is at most the batch.
LEMMA StoredOfType ==
  ASSUME NEW n \in Nat, NEW k \in StoredOf(n)
  PROVE  k \in 0..n /\ (backend = "loki" => k = n)
  BY DEF StoredOf

\* A request takes time, of which the longest is remembered.
LEMMA TakesType ==
  ASSUME TypeOK, NEW d \in 0..Timeout, Takes(d)
  PROVE  /\ d \in Nat /\ clock' = clock + d /\ clock' \in Nat
         /\ slowest' \in 0..Timeout /\ slowest <= slowest' /\ d <= slowest'
  BY GeneratorAssumption DEF TypeOK, Takes, Greatest

\* The types hold in every state.
LEMMA StepType == TypeOK /\ [Next]_vars => TypeOK'
<1> SUFFICES ASSUME TypeOK, [Next]_vars PROVE TypeOK'
  OBVIOUS
<1> USE DEF envVars
<1>1. CASE BatchAnswered
  <2>1. PICK d \in 0..Timeout, k \in StoredOf(Batch) : Takes(d) /\ stored' = stored + k
    BY <1>1 DEF BatchAnswered
  <2>2. sent < lps /\ sent' = sent + Batch
    BY <1>1 DEF BatchAnswered, InLoop
  <2>3. Batch \in Nat /\ k \in 0..Batch
    BY <2>2, BatchType, StoredOfType
  <2>4. sent' \in 0..lps' /\ stored' \in Nat
    BY <1>1, <2>1, <2>2, <2>3, BatchType DEF BatchAnswered, TypeOK
  <2> QED
    BY <1>1, <2>1, <2>4, TakesType DEF BatchAnswered, TypeOK
<1>2. CASE BatchFails
  <2>1. PICK d \in 0..Timeout, k \in 0..Batch : Takes(d) /\ stored' = stored + k
    BY <1>2 DEF BatchFails
  <2>2. Batch \in Nat
    BY <1>2, BatchType DEF BatchFails, InLoop
  <2>3. stored' \in Nat
    BY <2>1, <2>2 DEF TypeOK
  <2> QED
    BY <1>2, <2>1, <2>3, TakesType DEF BatchFails, TypeOK
<1>3. CASE Backoff
  BY <1>3, GeneratorAssumption DEF Backoff, TypeOK
<1>4. CASE LoopEnds
  BY <1>4 DEF LoopEnds, TypeOK
<1>5. CASE Rest
  BY <1>5, GeneratorAssumption DEF Rest, NewSecond, Greatest, TypeOK
<1>6. CASE Killed
  BY <1>6 DEF Killed, TypeOK
<1>7. CASE UNCHANGED vars
  BY <1>7 DEF vars, TypeOK
<1> QED
  BY <1>1, <1>2, <1>3, <1>4, <1>5, <1>6, <1>7 DEF Next, Terminating

LEMMA InitType == Init => TypeOK
  BY GeneratorAssumption DEF Init, TypeOK

\* No batch is counted beyond the load of its second (main.go:39-41), and clocks and
\* counters keep their types, for every load and every timing of the answers.
THEOREM TypeCorrect == Spec => []TypeOK
  BY InitType, StepType, PTL DEF Spec

-----------------------------------------------------------------------------
(* The rate. *)

\* The present second began no earlier than if all of them had been on time, and the
\* ones before have counted no more than their load.
OnTime ==
  /\ rounds * Second <= deadline
  /\ deadline <= clock + Second
  /\ counted <= (rounds - 1) * lps

LEMMA OnTimeStep == TypeOK /\ OnTime /\ [Next]_vars => OnTime'
<1> SUFFICES ASSUME TypeOK, OnTime, [Next]_vars PROVE OnTime'
  OBVIOUS
<1> USE DEF envVars
<1>1. Second \in Nat /\ Pause \in Nat /\ lps \in Nat /\ clock \in Nat /\ deadline \in Nat
      /\ rounds \in Nat \ {0} /\ counted \in Nat /\ sent \in 0..lps
  BY GeneratorAssumption DEF TypeOK
<1>2. CASE BatchAnswered \/ BatchFails
  <2>1. PICK d \in 0..Timeout : Takes(d)
    BY <1>2 DEF BatchAnswered, BatchFails
  <2>2. clock' \in Nat /\ clock' >= clock
    BY <1>1, <2>1, TakesType
  <2> QED
    BY <1>1, <1>2, <2>2 DEF BatchAnswered, BatchFails, OnTime
<1>3. CASE Backoff
  BY <1>1, <1>3 DEF Backoff, OnTime
<1>4. CASE LoopEnds \/ Killed \/ UNCHANGED vars
  BY <1>4 DEF LoopEnds, Killed, vars, OnTime
<1>5. CASE Rest
  <2>1. /\ clock' = Greatest(clock, deadline) /\ deadline' = Greatest(clock, deadline) + Second
        /\ rounds' = rounds + 1 /\ counted' = counted + sent /\ lps' = lps
    BY <1>5 DEF Rest, NewSecond
  <2>2. /\ clock' \in Nat /\ clock' >= deadline
        /\ deadline' = clock' + Second /\ deadline' <= clock' + Second
    BY <1>1, <2>1 DEF Greatest
  <2>3. (rounds + 1) * Second = rounds * Second + Second
    BY <1>1, SMT
  <2>4. rounds * lps = (rounds - 1) * lps + lps
    BY <1>1, SMT
  <2>5. rounds * Second \in Nat /\ (rounds - 1) * lps \in Nat
    BY <1>1, ProductType
  <2>6. rounds' * Second <= deadline'
    BY <1>1, <2>1, <2>2, <2>3, <2>5 DEF OnTime
  <2>7. counted' <= (rounds' - 1) * lps'
    <3>1. rounds' - 1 = rounds
      BY <1>1, <2>1
    <3>2. counted' <= rounds * lps
      BY <1>1, <2>1, <2>4, <2>5 DEF OnTime
    <3> QED
      BY <2>1, <3>1, <3>2
  <2>8. deadline' <= clock' + Second
    BY <2>2
  <2> QED
    BY <2>6, <2>7, <2>8 DEF OnTime
<1> QED
  BY <1>2, <1>3, <1>4, <1>5 DEF Next, Terminating

LEMMA OnTimeRate == TypeOK /\ OnTime => RateNotExceeded
<1> SUFFICES ASSUME TypeOK, OnTime PROVE RateNotExceeded
  OBVIOUS
<1>1. Second \in Nat \ {0} /\ lps \in Nat /\ clock \in Nat /\ deadline \in Nat
      /\ rounds \in Nat \ {0} /\ counted \in Nat /\ sent \in 0..lps
  BY GeneratorAssumption DEF TypeOK
<1> DEFINE q == clock \div Second
<1>2. rounds - 1 \in Nat /\ q \in Nat
  BY <1>1, Quotient
<1>3. (rounds - 1) * Second = rounds * Second - Second
  BY <1>1, SMT
<1>4. (rounds - 1) * Second <= clock
  BY <1>1, <1>3, ProductType DEF OnTime
<1>5. rounds - 1 <= q
  BY <1>1, <1>2, <1>4, QuotientAbove
<1> HIDE DEF q
<1>6. rounds * lps <= (q + 1) * lps
  BY <1>1, <1>2, <1>5, ProductMonotone
<1>7. (q + 1) * lps = lps * (q + 1) /\ rounds * lps = (rounds - 1) * lps + lps
  BY <1>1, <1>2, SMT
<1>8. (rounds - 1) * lps \in Nat /\ lps * (q + 1) \in Nat
  BY <1>1, <1>2, ProductType
<1>9. counted + sent <= lps * (q + 1)
  BY <1>1, <1>6, <1>7, <1>8 DEF OnTime
<1> QED
  BY <1>9 DEF RateNotExceeded, q

\* Over any time since its start the producer has counted no more lines than the row
\* claims for it (main.go:58-60), however late the answers and whatever fails.
THEOREM LoadNotExceeded == Spec => []RateNotExceeded
<1>1. Init => OnTime
  BY GeneratorAssumption DEF Init, OnTime
<1> QED
  BY <1>1, InitType, StepType, OnTimeStep, OnTimeRate, PTL DEF Spec

-----------------------------------------------------------------------------
(* What the backend holds. *)

\* The errors of a second, without the one after which the producer still sleeps.
Slept == IF pc = "backoff" THEN failed - 1 ELSE failed

\* A second has room for so many errors only as its sleeps allow; each left a batch at
\* most.
ErrorsFit ==
  /\ pc = "backoff" => failed >= 1
  /\ pc # "killed" => Slept * Pause <= clock - deadline + Second
  /\ failed >= 1 => (failed - 1) * Pause < Second
  /\ backend = "loki" => stored >= sent
  /\ stored <= sent + failed * FullBatch

\* A batch that was answered.
LEMMA AnsweredFits == TypeOK /\ ErrorsFit /\ BatchAnswered => ErrorsFit'
<1> SUFFICES ASSUME TypeOK, ErrorsFit, BatchAnswered PROVE ErrorsFit'
  OBVIOUS
<1>1. PICK d \in 0..Timeout, k \in StoredOf(Batch) : Takes(d) /\ stored' = stored + k
  BY DEF BatchAnswered
<1>2. /\ d \in Nat /\ clock' = clock + d
      /\ pc = "loop" /\ sent < lps /\ sent' = sent + Batch
      /\ lps' = lps /\ backend' = backend /\ pc' = pc /\ deadline' = deadline /\ failed' = failed
  BY <1>1, TakesType DEF BatchAnswered, InLoop, envVars
<1>3. Batch \in Nat /\ k \in 0..Batch /\ (backend = "loki" => k = Batch)
  BY <1>1, <1>2, BatchType, StoredOfType
<1>4. FullBatch' = FullBatch /\ FullBatch \in Nat /\ failed \in Nat
  BY <1>2, FullBatchType, GeneratorAssumption DEF TypeOK, FullBatch
<1>5. failed * FullBatch \in Nat /\ failed * Pause \in Nat
  BY <1>4, ProductType, GeneratorAssumption
<1>6. sent \in Nat /\ stored \in Nat /\ clock \in Nat /\ deadline \in Nat /\ Second \in Nat
  BY GeneratorAssumption, LoadType DEF TypeOK
<1>7. Slept' = failed /\ Slept = failed
  BY <1>2 DEF Slept
<1>8. stored' <= sent' + failed' * FullBatch' /\ (backend' = "loki" => stored' >= sent')
  BY <1>1, <1>2, <1>3, <1>4, <1>5, <1>6 DEF ErrorsFit
<1>9. Slept' * Pause <= clock' - deadline' + Second
  BY <1>2, <1>5, <1>6, <1>7 DEF ErrorsFit
<1> HIDE DEF Slept
<1> QED
  BY <1>2, <1>4, <1>8, <1>9 DEF ErrorsFit

\* A batch that failed: it began within the second, after the sleeps of the ones before.
LEMMA FailureFits == TypeOK /\ ErrorsFit /\ BatchFails => ErrorsFit'
<1> SUFFICES ASSUME TypeOK, ErrorsFit, BatchFails PROVE ErrorsFit'
  OBVIOUS
<1>1. PICK d \in 0..Timeout, k \in 0..Batch : Takes(d) /\ stored' = stored + k
  BY DEF BatchFails
<1>2. /\ d \in Nat /\ clock' = clock + d
      /\ pc = "loop" /\ sent < lps /\ clock < deadline /\ sent' = sent
      /\ lps' = lps /\ backend' = backend /\ pc' = "backoff" /\ deadline' = deadline
      /\ failed' = failed + 1
  BY <1>1, TakesType DEF BatchFails, InLoop, envVars
<1>3. Batch \in Nat /\ Batch <= FullBatch /\ k \in 0..Batch
  <2>1. Batch \in 1..FullBatch /\ Batch \in Nat
    BY <1>2, BatchType
  <2>2. FullBatch \in Nat
    BY FullBatchType, GeneratorAssumption DEF TypeOK
  <2> QED
    BY <1>1, <2>1, <2>2
<1>4. FullBatch' = FullBatch /\ FullBatch \in Nat /\ failed \in Nat
  BY <1>2, FullBatchType, GeneratorAssumption DEF TypeOK, FullBatch
<1>5. failed * FullBatch \in Nat /\ failed * Pause \in Nat
  BY <1>4, ProductType, GeneratorAssumption
<1>6. sent \in Nat /\ stored \in Nat /\ clock \in Nat /\ deadline \in Nat /\ Second \in Nat
  BY GeneratorAssumption, LoadType DEF TypeOK
<1>7. (failed + 1) * FullBatch = failed * FullBatch + FullBatch
  BY <1>4, SMT
<1>8. failed' - 1 = failed
  BY <1>2, <1>4
<1>9. Slept' = failed /\ Slept = failed
  BY <1>2, <1>8 DEF Slept
<1>10. stored' <= sent' + failed' * FullBatch' /\ (backend' = "loki" => stored' >= sent')
  BY <1>1, <1>2, <1>3, <1>4, <1>5, <1>6, <1>7 DEF ErrorsFit
<1>11. Slept' * Pause <= clock' - deadline' + Second
  BY <1>2, <1>5, <1>6, <1>9 DEF ErrorsFit
<1>12. (failed' - 1) * Pause < Second
  <2>1. failed * Pause <= clock - deadline + Second
    BY <1>2, <1>9 DEF ErrorsFit
  <2>2. failed * Pause < Second
    BY <1>2, <1>5, <1>6, <2>1
  <2> QED
    BY <1>8, <2>2
<1> HIDE DEF Slept
<1> QED
  BY <1>2, <1>4, <1>10, <1>11, <1>12 DEF ErrorsFit

\* The sleep after an error.
LEMMA BackoffFits == TypeOK /\ ErrorsFit /\ Backoff => ErrorsFit'
<1> SUFFICES ASSUME TypeOK, ErrorsFit, Backoff PROVE ErrorsFit'
  OBVIOUS
<1>1. /\ pc = "backoff" /\ pc' = "loop" /\ clock' = clock + Pause /\ sent' = sent
      /\ lps' = lps /\ backend' = backend /\ deadline' = deadline /\ failed' = failed
      /\ stored' = stored
  BY DEF Backoff, envVars
<1>2. FullBatch' = FullBatch
  BY <1>1 DEF FullBatch
<1>3. /\ clock \in Nat /\ deadline \in Nat /\ Second \in Nat /\ Pause \in Nat /\ failed \in Nat
      /\ failed - 1 \in Nat
  BY <1>1, GeneratorAssumption DEF TypeOK, ErrorsFit
<1>4. failed * Pause = (failed - 1) * Pause + Pause /\ (failed - 1) * Pause \in Nat
  BY <1>3, SMT
<1>5. Slept' = failed /\ Slept = failed - 1
  BY <1>1 DEF Slept
<1>6. Slept' * Pause <= clock' - deadline' + Second
  BY <1>1, <1>3, <1>4, <1>5 DEF ErrorsFit
<1> HIDE DEF Slept
<1> QED
  BY <1>1, <1>2, <1>6 DEF ErrorsFit

LEMMA ErrorsFitStep == TypeOK /\ OnTime /\ ErrorsFit /\ [Next]_vars => ErrorsFit'
<1> SUFFICES ASSUME TypeOK, OnTime, ErrorsFit, [Next]_vars PROVE ErrorsFit'
  OBVIOUS
<1>1. CASE LoopEnds \/ Killed \/ UNCHANGED vars
  <2>1. FullBatch' = FullBatch
    BY <1>1 DEF LoopEnds, Killed, vars, envVars, FullBatch
  <2>2. pc' # "killed" => Slept' = Slept
    BY <1>1 DEF LoopEnds, Killed, vars, Slept
  <2>3. pc' = "backoff" => pc = "backoff"
    BY <1>1 DEF LoopEnds, Killed, vars
  <2> HIDE DEF Slept
  <2> QED
    BY <1>1, <2>1, <2>2, <2>3 DEF LoopEnds, Killed, vars, envVars, ErrorsFit
<1>2. CASE Rest
  <2>1. /\ pc' = "loop" /\ failed' = 0 /\ stored' = 0 /\ sent' = 0 /\ lps' = lps
        /\ clock' = Greatest(clock, deadline) /\ deadline' = clock' + Second
    BY <1>2 DEF Rest, NewSecond, envVars
  <2>2. clock' \in Nat /\ Second \in Nat /\ Pause \in Nat /\ FullBatch' \in Nat
    <3>1. FullBatch' = FullBatch /\ FullBatch \in Nat
      BY <2>1, FullBatchType, GeneratorAssumption DEF TypeOK, FullBatch
    <3> QED
      BY <2>1, <3>1, GeneratorAssumption DEF TypeOK, Greatest
  <2>3. Slept' = 0
    BY <2>1 DEF Slept
  <2>4. 0 * Pause = 0 /\ 0 * FullBatch' = 0
    BY <2>2, ProductZero
  <2> HIDE DEF Slept
  <2>5. Slept' * Pause <= clock' - deadline' + Second
    BY <2>1, <2>2, <2>3, <2>4
  <2>6. stored' <= sent' + failed' * FullBatch'
    BY <2>1, <2>4
  <2> QED
    BY <2>1, <2>5, <2>6 DEF ErrorsFit
<1> QED
  BY <1>1, <1>2, AnsweredFits, FailureFits, BackoffFits DEF Next, Terminating

LEMMA ErrorsFitStored == TypeOK /\ ErrorsFit => StoredNearSent
<1> SUFFICES ASSUME TypeOK, ErrorsFit PROVE StoredNearSent
  OBVIOUS
<1>1. /\ Second \in Nat /\ Pause \in Nat \ {0} /\ failed \in Nat /\ FullBatch \in Nat
      /\ sent \in Nat /\ stored \in Nat
  BY FullBatchType, LoadType, GeneratorAssumption DEF TypeOK
<1>2. Second + Pause - 1 \in Nat
  BY <1>1
<1>3. failed * Pause <= Second + Pause - 1
  <2>1. CASE failed = 0
    <3>1. 0 * Pause = 0
      BY <1>1, ProductZero
    <3> QED
      BY <1>2, <2>1, <3>1
  <2>2. CASE failed >= 1
    <3>1. failed - 1 \in Nat /\ failed * Pause = (failed - 1) * Pause + Pause
      BY <1>1, <2>2, SMT
    <3>2. (failed - 1) * Pause \in Nat
      BY <1>1, <3>1, ProductType
    <3> QED
      BY <1>1, <2>2, <3>1, <3>2 DEF ErrorsFit
  <2> QED
    BY <1>1, <2>1, <2>2
<1>4. failed <= Retries /\ Retries \in Nat
  BY <1>1, <1>2, <1>3, QuotientAbove, Quotient DEF Retries
<1> HIDE DEF Retries
<1>5. failed * FullBatch <= Retries * FullBatch
  BY <1>1, <1>4, ProductMonotone
<1>6. failed * FullBatch \in Nat /\ Retries * FullBatch \in Nat
  BY <1>1, <1>4, ProductType
<1>7. stored <= sent + Retries * FullBatch
  BY <1>1, <1>5, <1>6 DEF ErrorsFit
<1> QED
  BY <1>7 DEF StoredNearSent, ErrorsFit

\* What the backend holds of a second is at most the lines that were counted and one
\* batch for each error that the sleeps of 50 ms let happen (main.go:51-55), although
\* a batch whose answer is lost is stored and sent again; of Loki it is no less than
\* what was counted.
THEOREM StoredStaysNear == Spec => []StoredNearSent
<1>1. Init => OnTime /\ ErrorsFit
  <2> SUFFICES ASSUME Init PROVE OnTime /\ ErrorsFit
    OBVIOUS
  <2>1. FullBatch \in Nat /\ Pause \in Nat /\ Second \in Nat
    BY FullBatchType, GeneratorAssumption DEF Init
  <2>2. 0 * FullBatch = 0 /\ 0 * Pause = 0
    BY <2>1, ProductZero
  <2> QED
    BY <2>1, <2>2, GeneratorAssumption DEF Init, OnTime, ErrorsFit, Slept
<1> QED
  BY <1>1, InitType, StepType, OnTimeStep, ErrorsFitStep, ErrorsFitStored, PTL DEF Spec

-----------------------------------------------------------------------------
(* Whether the producer keeps up. *)

Elapsed == clock - deadline + Second

\* While the load is not sent and nothing has failed, every batch was a full one, and took
\* no longer than the slowest.
FullBatches ==
  /\ pc \in {"loop", "rest"} /\ failed = 0 /\ sent < lps =>
       Elapsed * FullBatch <= slowest * sent
  /\ pc = "rest" => sent >= lps \/ clock >= deadline

LEMMA FullBatchesAnswered == TypeOK /\ OnTime /\ FullBatches /\ BatchAnswered => FullBatches'
<1> SUFFICES ASSUME TypeOK, OnTime, FullBatches, BatchAnswered,
                    failed' = 0, sent' < lps'
             PROVE  Elapsed' * FullBatch' <= slowest' * sent'
  BY DEF FullBatches, BatchAnswered, InLoop
<1>1. PICK d \in 0..Timeout, k \in StoredOf(Batch) : Takes(d) /\ stored' = stored + k
  BY DEF BatchAnswered
<1>2. /\ d \in Nat /\ clock' = clock + d /\ slowest <= slowest' /\ d <= slowest'
      /\ slowest' \in 0..Timeout /\ deadline' = deadline /\ lps' = lps
      /\ pc = "loop" /\ failed = 0 /\ sent < lps /\ sent' = sent + Batch
  BY <1>1, TakesType DEF BatchAnswered, InLoop, envVars
<1>3. FullBatch' = FullBatch /\ FullBatch \in Nat /\ sent' = sent + FullBatch
  BY <1>2, BatchType, FullBatchType, GeneratorAssumption DEF TypeOK, FullBatch
<1>4. /\ slowest \in Nat /\ slowest' \in Nat /\ sent \in Nat /\ Elapsed \in Nat
      /\ Elapsed' = Elapsed + d
  BY <1>2, LoadType, GeneratorAssumption DEF TypeOK, OnTime, Elapsed
<1> HIDE DEF Elapsed, FullBatch, Batch
<1>5. Elapsed * FullBatch <= slowest * sent
  BY <1>2 DEF FullBatches
<1>6. slowest * sent <= slowest' * sent /\ d * FullBatch <= slowest' * FullBatch
  <2>1. slowest \in Int /\ slowest' \in Int /\ d \in Int
    BY <1>2, <1>4
  <2>2. slowest * sent <= slowest' * sent
    BY <1>2, <1>4, <2>1, ProductMonotone
  <2>3. d * FullBatch <= slowest' * FullBatch
    BY <1>2, <1>3, <2>1, ProductMonotone
  <2> QED
    BY <2>2, <2>3
<1>7. /\ (Elapsed + d) * FullBatch = Elapsed * FullBatch + d * FullBatch
      /\ slowest' * (sent + FullBatch) = slowest' * sent + slowest' * FullBatch
  BY <1>2, <1>3, <1>4, SMT
<1>8. /\ Elapsed * FullBatch \in Nat /\ d * FullBatch \in Nat /\ slowest * sent \in Nat
      /\ slowest' * sent \in Nat /\ slowest' * FullBatch \in Nat
  BY <1>2, <1>3, <1>4, ProductType
<1>9. (Elapsed + d) * FullBatch <= slowest' * (sent + FullBatch)
  BY <1>5, <1>6, <1>7, <1>8
<1> QED
  BY <1>3, <1>4, <1>9

LEMMA FullBatchesStep ==
  TypeOK /\ OnTime /\ ErrorsFit /\ FullBatches /\ [Next]_vars => FullBatches'
<1> SUFFICES ASSUME TypeOK, OnTime, ErrorsFit, FullBatches, [Next]_vars PROVE FullBatches'
  OBVIOUS
<1>1. CASE BatchFails \/ Backoff
  <2>1. failed' # 0 /\ pc' # "rest"
    BY <1>1 DEF BatchFails, Backoff, ErrorsFit, TypeOK
  <2> QED
    BY <2>1 DEF FullBatches
<1>2. CASE LoopEnds
  <2>1. /\ Elapsed' = Elapsed /\ FullBatch' = FullBatch /\ slowest' = slowest /\ sent' = sent
        /\ lps' = lps /\ failed' = failed /\ clock' = clock /\ deadline' = deadline
        /\ pc = "loop"
    BY <1>2 DEF LoopEnds, envVars, Elapsed, FullBatch
  <2>2. sent >= lps \/ clock >= deadline
    BY <1>2, LoadType DEF LoopEnds, InLoop, TypeOK
  <2> HIDE DEF Elapsed, FullBatch
  <2> QED
    BY <2>1, <2>2 DEF FullBatches
<1>3. CASE Rest
  <2>1. /\ pc' = "loop" /\ sent' = 0 /\ slowest' = 0 /\ lps' = lps
        /\ clock' = Greatest(clock, deadline) /\ deadline' = clock' + Second
    BY <1>3 DEF Rest, NewSecond, envVars
  <2>2. clock' \in Nat /\ Second \in Nat /\ FullBatch' \in Nat
    <3>1. FullBatch' = FullBatch /\ FullBatch \in Nat
      BY <2>1, FullBatchType, GeneratorAssumption DEF TypeOK, FullBatch
    <3> QED
      BY <2>1, <3>1, GeneratorAssumption DEF TypeOK, Greatest
  <2>3. Elapsed' = 0
    BY <2>1, <2>2 DEF Elapsed
  <2>4. 0 * FullBatch' = 0 /\ 0 * 0 = 0
    BY <2>2, ProductZero
  <2> QED
    BY <2>1, <2>3, <2>4 DEF FullBatches
<1>4. CASE Killed
  BY <1>4 DEF Killed, FullBatches
<1>5. CASE UNCHANGED vars
  <2>1. Elapsed' = Elapsed /\ FullBatch' = FullBatch
    BY <1>5 DEF vars, envVars, Elapsed, FullBatch
  <2> HIDE DEF Elapsed, FullBatch
  <2> QED
    BY <1>5, <2>1 DEF vars, envVars, FullBatches
<1> QED
  BY <1>1, <1>2, <1>3, <1>4, <1>5, FullBatchesAnswered DEF Next, Terminating

\* The load is less than 2 * Parts batches, whatever the division cuts off.
LEMMA LoadInBatches ==
  ASSUME lps \in Loads, lps \in Parts..(Parts * Cap)
  PROVE  FullBatch \in Nat \ {0} /\ lps - 1 <= (2 * Parts - 2) * FullBatch
<1> DEFINE b == lps \div Parts
<1>1. lps \in Nat /\ Parts \in Nat \ {0} /\ Parts - 2 \in Nat /\ Cap \in Nat \ {0}
  BY GeneratorAssumption
<1>2. b \in Nat /\ b * Parts <= lps /\ lps < b * Parts + Parts
  BY <1>1, Quotient
<1>3. 1 <= b
  <2>1. 1 * Parts <= lps
    BY <1>1
  <2> QED
    BY <1>1, <2>1, QuotientAbove
<1>4. b <= Cap
  <2>1. b * Parts <= Cap * Parts
    <3>1. Cap * Parts = Parts * Cap /\ Parts * Cap \in Nat /\ b * Parts \in Nat
      BY <1>1, <1>2, ProductType
    <3> HIDE DEF b
    <3> QED
      BY <1>1, <1>2, <3>1
  <2> HIDE DEF b
  <2> QED
    BY <1>1, <1>2, <2>1, ProductCancels
<1>5. FullBatch = b
  BY <1>1, <1>2, <1>3, <1>4 DEF FullBatch, Least, Greatest
<1> HIDE DEF b
<1>6. (2 * Parts - 2) * b = b * Parts + (Parts - 2) * b
  BY <1>1, <1>2, SMT
<1>7. (Parts - 2) * 1 <= (Parts - 2) * b /\ (Parts - 2) * 1 = Parts - 2
  BY <1>1, <1>2, <1>3, ProductMonotone
<1>8. b * Parts \in Nat /\ (Parts - 2) * b \in Nat
  BY <1>1, <1>2, ProductType
<1> QED
  BY <1>1, <1>2, <1>3, <1>5, <1>6, <1>7, <1>8

\* A load below Parts is sent line by line.
LEMMA LoadInLines ==
  ASSUME lps \in Loads, lps < Parts
  PROVE  FullBatch = 1
<1> DEFINE b == lps \div Parts
<1>1. lps \in Nat \ {0} /\ Parts \in Nat \ {0} /\ Cap \in Nat \ {0}
  BY GeneratorAssumption
<1>2. b \in Nat /\ b * Parts <= lps
  BY <1>1, Quotient
<1>3. ~(1 <= b)
  <2>1. 1 * Parts = Parts
    BY <1>1
  <2>2. ASSUME 1 <= b PROVE FALSE
    <3>1. 1 * Parts <= b * Parts
      BY <1>1, <1>2, <2>2, ProductMonotone
    <3>2. b * Parts \in Nat
      BY <1>1, <1>2, ProductType
    <3> HIDE DEF b
    <3> QED
      BY <1>1, <1>2, <2>1, <3>1, <3>2
  <2> QED
    BY <2>2
<1> QED
  BY <1>1, <1>2, <1>3 DEF FullBatch, Least, Greatest

\* A load above Parts * Cap is sent in batches of Cap.
LEMMA LoadInCaps ==
  ASSUME lps \in Loads, lps > Parts * Cap
  PROVE  FullBatch = Cap
<1> DEFINE b == lps \div Parts
<1>1. lps \in Nat /\ Parts \in Nat \ {0} /\ Cap \in Nat \ {0} /\ Parts * Cap \in Nat
  BY GeneratorAssumption, ProductType
<1>2. b \in Nat
  BY <1>1, Quotient
<1>3. Cap <= b
  <2>1. Cap * Parts = Parts * Cap
    BY <1>1
  <2>2. Cap * Parts <= lps
    BY <1>1, <2>1
  <2> QED
    BY <1>1, <2>2, QuotientAbove
<1> QED
  BY <1>1, <1>2, <1>3 DEF FullBatch, Least, Greatest

\* An answer of an unfinished second was slow, whatever the batches were.
LEMMA SlowAnswer ==
  ASSUME TypeOK, OnTime, FullBatches, pc = "rest", sent < lps, failed = 0,
         FullBatch \in Nat \ {0}, NEW n \in Nat, lps - 1 <= n
  PROVE  Second * FullBatch <= slowest * n
<1>1. /\ Second \in Nat /\ clock \in Nat /\ deadline \in Nat /\ slowest \in Nat /\ lps \in Nat
      /\ sent \in Nat
  BY LoadType, GeneratorAssumption DEF TypeOK
<1>2. Elapsed \in Nat /\ Second <= Elapsed
  BY <1>1 DEF FullBatches, Elapsed
<1>3. Elapsed * FullBatch <= slowest * sent
  BY DEF FullBatches
<1> HIDE DEF Elapsed, FullBatch
<1>4. Second * FullBatch <= Elapsed * FullBatch
  BY <1>1, <1>2, ProductMonotone
<1>5. slowest * sent <= slowest * n
  BY <1>1, ProductMonotone
<1>6. /\ Second * FullBatch \in Nat /\ Elapsed * FullBatch \in Nat /\ slowest * sent \in Nat
      /\ slowest * n \in Nat
  BY <1>1, <1>2, ProductType
<1> QED
  BY <1>3, <1>4, <1>5, <1>6

LEMMA FullBatchesKeepUp == TypeOK /\ OnTime /\ FullBatches => KeepsUp
<1> SUFFICES ASSUME TypeOK, OnTime, FullBatches, pc = "rest", sent < lps, failed = 0
             PROVE  IF lps <= Parts * Cap THEN slowest * (2 * Parts - 2) >= Second
                                          ELSE slowest * (lps - 1) >= Second * Cap
  BY DEF KeepsUp
<1> DEFINE n == 2 * Parts - 2
<1>1. /\ Second \in Nat /\ slowest \in Nat /\ lps \in Nat \ {0} /\ lps \in Loads /\ n \in Nat
      /\ Parts \in Nat \ {0} /\ Cap \in Nat \ {0} /\ Parts * Cap \in Nat
  BY LoadType, GeneratorAssumption, ProductType DEF TypeOK
<1>2. CASE lps <= Parts * Cap
  <2>1. FullBatch \in Nat \ {0} /\ lps - 1 <= n * FullBatch
    <3>1. CASE lps < Parts
      <4>1. FullBatch = 1 /\ n * 1 = n
        BY <1>1, <3>1, LoadInLines
      <4> QED
        BY <1>1, <3>1, <4>1
    <3>2. CASE lps >= Parts
      BY <1>1, <1>2, <3>2, LoadInBatches
    <3> QED
      BY <1>1, <3>1, <3>2
  <2> HIDE DEF n, FullBatch
  <2>2. n * FullBatch \in Nat
    BY <1>1, <2>1, ProductType
  <2>3. Second * FullBatch <= slowest * (n * FullBatch)
    BY <2>1, <2>2, SlowAnswer
  <2>4. slowest * (n * FullBatch) = (slowest * n) * FullBatch
    BY <1>1, <2>1, SMT
  <2>5. slowest * n \in Nat /\ Second * FullBatch \in Nat
    BY <1>1, <2>1, ProductType
  <2>6. Second <= slowest * n
    BY <1>1, <2>1, <2>3, <2>4, <2>5, ProductCancels
  <2> QED
    BY <1>1, <1>2, <2>5, <2>6 DEF n
<1>3. CASE lps > Parts * Cap
  <2>1. FullBatch = Cap
    BY <1>1, <1>3, LoadInCaps
  <2>2. Second * Cap <= slowest * (lps - 1)
    BY <1>1, <2>1, SlowAnswer
  <2>3. Second * Cap \in Nat /\ slowest * (lps - 1) \in Nat
    BY <1>1, ProductType
  <2> QED
    BY <1>1, <1>3, <2>2, <2>3
<1> QED
  BY <1>1, <1>2, <1>3

\* A second that ends short although nothing failed had an answer that took the
\* (2 * Parts - 2)th part of it or more: with ten parts, answers within 1/18 s are fast
\* enough for every load up to 5000 lines a second (main.go:32-41), although the batches
\* of ten parts would let one expect 1/10 s. A load of 19 needs no less. Above that the cut
\* at 500 lines counts: for 10000 lines a second they are fast enough within 1/20 s.
THEOREM ProducerKeepsUp == Spec => []KeepsUp
<1>1. Init => OnTime /\ ErrorsFit /\ FullBatches
  <2> SUFFICES ASSUME Init PROVE OnTime /\ ErrorsFit /\ FullBatches
    OBVIOUS
  <2>1. FullBatch \in Nat /\ Pause \in Nat /\ Second \in Nat
    BY FullBatchType, GeneratorAssumption DEF Init
  <2>2. 0 * FullBatch = 0 /\ 0 * Pause = 0 /\ 0 * 0 = 0
    BY <2>1, ProductZero
  <2>3. Elapsed = 0
    BY <2>1 DEF Init, Elapsed
  <2> QED
    BY <2>1, <2>2, <2>3, GeneratorAssumption DEF Init, OnTime, ErrorsFit, Slept, FullBatches
<1> QED
  BY <1>1, InitType, StepType, OnTimeStep, ErrorsFitStep, FullBatchesStep, FullBatchesKeepUp,
     PTL DEF Spec
=============================================================================
