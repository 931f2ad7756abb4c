------------------------- MODULE CategorizerProofs -------------------------
(***************************************************************************)
(* Theorems about Categorizer for any number of workers, requests and      *)
(* retries.                                                                *)
(***************************************************************************)
EXTENDS Categorizer, FiniteSetTheorems, TLAPS

(* The four ways in which a worker sends a result.                         *)
Sends(w) ==
    \/ SkipJob(w)
    \/ CallAnswered(w)
    \/ GiveUp(w)
    \/ StopRetrying(w)

(* What all four have in common: the result is one of the worker's job.    *)
LEMMA SendsResult ==
    ASSUME TypeOK, NEW w \in Workers, Sends(w)
    PROVE  /\ job[w] \in Requests
           /\ pc[w] \in Busy
           /\ \E r \in Result :
                 /\ Send(w, r)
                 /\ r.index = job[w]
                 /\ \/ r.error = "nil" /\ r.response = r.index
                    \/ r.error # "nil" /\ r.response = 0
<1>1. pc[w] \in Busy /\ job[w] \in Requests
  <2>1. pc[w] \in Busy
    BY DEF Sends, SkipJob, CallAnswered, GiveUp, StopRetrying, Busy
  <2>2. job[w] # 0 /\ job[w] \in 0..(next - 1) /\ next \in 1..(NumRequests + 1)
    BY <2>1 DEF TypeOK
  <2> QED
    BY <2>1, <2>2, SizesAssumption DEF Requests
<1>2. Answer(job[w]) \in Result
  BY <1>1 DEF Answer, Result, Errors
<1>3. /\ Failure(job[w], "context") \in Result
      /\ Failure(job[w], "failed") \in Result
  BY <1>1 DEF Failure, Result, Errors
<1>4. CASE CallAnswered(w)
  BY <1>1, <1>2, <1>4 DEF CallAnswered, Answer
<1>5. CASE ~CallAnswered(w)
  BY <1>1, <1>3, <1>5 DEF Sends, SkipJob, GiveUp, StopRetrying, Failure
<1> QED
  BY <1>1, <1>4, <1>5

-----------------------------------------------------------------------------
(* Type correctness, with the counter of the WaitGroup.                    *)

LEMMA RunningFinite == IsFiniteSet(Running)
  BY FS_Subset, SizesAssumption DEF Running

LEMMA InitType == Init => TypeOK
<1> SUFFICES ASSUME Init PROVE TypeOK
  OBVIOUS
<1>1. Running = {}
  BY DEF Init, Running
<1>2. Cardinality(Running) = 0
  BY <1>1, FS_EmptySet
<1>3. /\ job \in [Workers -> 0..(next - 1)]
      /\ next \in 1..(NumRequests + 1)
      /\ jobs \subseteq 1..(next - 1) /\ results \subseteq Result
  BY SizesAssumption DEF Init
<1>4. /\ responses \in [Requests -> Requests \cup {0}]
      /\ errs \in [Requests -> Errors]
  BY DEF Init, Errors
<1>5. /\ pc \in [Workers -> WorkerLabels]
      /\ attempt \in [Workers -> 0..MaxRetries]
      /\ \A w \in Workers : job[w] # 0 <=> pc[w] \in Busy
  BY SizesAssumption DEF Init, WorkerLabels, Busy
<1> QED
  BY <1>2, <1>3, <1>4, <1>5, SizesAssumption DEF Init, TypeOK

(* The counter follows a worker that starts, one that ends and one that    *)
(* does neither.                                                           *)
LEMMA RunningSteps ==
    ASSUME TypeOK, NEW w \in Workers, NEW l, pc' = [pc EXCEPT ![w] = l]
    PROVE  /\ pc[w] = "none" /\ l = "receive"
                => Cardinality(Running') = Cardinality(Running) + 1
           /\ pc[w] = "receive" /\ l = "exited"
                => Cardinality(Running') = Cardinality(Running) - 1
           /\ pc[w] \notin {"none", "exited"} /\ l \notin {"none", "exited"}
                => Running' = Running
<1>1. ASSUME pc[w] = "none", l = "receive"
      PROVE  Running' = Running \cup {w} /\ w \notin Running
  BY <1>1 DEF Running, TypeOK
<1>2. ASSUME pc[w] = "receive", l = "exited"
      PROVE  Running' = Running \ {w} /\ w \in Running
  BY <1>2 DEF Running, TypeOK
<1>3. ASSUME pc[w] \notin {"none", "exited"}, l \notin {"none", "exited"}
      PROVE  Running' = Running
  BY <1>3 DEF Running, TypeOK
<1>4. ASSUME pc[w] = "none", l = "receive"
      PROVE  Cardinality(Running') = Cardinality(Running) + 1
  BY <1>1, <1>4, RunningFinite, FS_AddElement
<1>5. ASSUME pc[w] = "receive", l = "exited"
      PROVE  Cardinality(Running') = Cardinality(Running) - 1
  BY <1>2, <1>5, RunningFinite, FS_RemoveElement
<1> QED
  BY <1>3, <1>4, <1>5

LEMMA MainType == ASSUME TypeOK, Main PROVE TypeOK'
<1> USE SizesAssumption DEF TypeOK, channels, locals
<1>1. ASSUME pc' = pc PROVE Running' = Running
  BY <1>1 DEF Running
<1>2. CASE CategorizeBatch
  BY <1>1, <1>2 DEF CategorizeBatch, Errors
<1>3. ASSUME NEW w \in Workers, StartWorker(w) PROVE TypeOK'
  <2>1. pc' = [pc EXCEPT ![w] = "receive"] /\ pc[w] = "none"
    BY <1>3 DEF StartWorker, Goto
  <2>2. Cardinality(Running') = Cardinality(Running) + 1
    BY <2>1, RunningSteps
  <2> QED
    BY <1>3, <2>1, <2>2 DEF StartWorker, WorkerLabels, Busy
<1>4. CASE SendJob
  BY <1>1, <1>4 DEF SendJob
<1>5. CASE CloseJobs
  BY <1>1, <1>5 DEF CloseJobs
<1>6. CASE Collect
  <2>1. PICK r \in results :
          /\ results' = results \ {r}
          /\ responses' = [responses EXCEPT ![r.index] = r.response]
          /\ errs' = [errs EXCEPT ![r.index] = r.error]
    BY <1>6 DEF Collect
  <2>2. r \in Result
    OBVIOUS
  <2> QED
    BY <1>1, <1>6, <2>1, <2>2 DEF Collect, Result
<1>7. CASE FinishBatch
  BY <1>1, <1>7 DEF FinishBatch
<1> QED
  BY <1>2, <1>3, <1>4, <1>5, <1>6, <1>7 DEF Main

LEMMA WorkerType == ASSUME TypeOK, NEW w \in Workers, Worker(w) PROVE TypeOK'
<1> USE SizesAssumption DEF TypeOK, channels, Goto
<1>1. CASE ReceiveJob(w)
  <2>1. PICK i \in jobs : jobs' = jobs \ {i} /\ job' = [job EXCEPT ![w] = i]
    BY <1>1 DEF ReceiveJob
  <2>2. pc' = [pc EXCEPT ![w] = "check"] /\ pc[w] = "receive"
    BY <1>1 DEF ReceiveJob
  <2>3. Running' = Running
    BY <2>2 DEF Running
  <2>4. i \in 1..(next - 1)
    OBVIOUS
  <2> QED
    BY <1>1, <2>1, <2>2, <2>3, <2>4 DEF ReceiveJob, WorkerLabels, Busy
<1>2. CASE Exit(w)
  <2>1. pc' = [pc EXCEPT ![w] = "exited"] /\ pc[w] = "receive"
    BY <1>2 DEF Exit
  <2>2. Cardinality(Running') = Cardinality(Running) - 1
    BY <2>1, RunningSteps
  <2> QED
    BY <1>2, <2>1, <2>2 DEF Exit, WorkerLabels, Busy
<1>3. CASE Sends(w)
  <2>1. PICK r \in Result : Send(w, r)
    BY <1>3, SendsResult
  <2>2. pc' = [pc EXCEPT ![w] = "receive"] /\ pc[w] \in Busy
    BY <1>3, <2>1, SendsResult DEF Send
  <2>3. Running' = Running
    BY <2>2 DEF Running, Busy
  <2> QED
    BY <2>1, <2>2, <2>3 DEF Send, WorkerLabels, Busy
<1>4. ASSUME NEW l \in Busy, pc[w] \in Busy, pc' = [pc EXCEPT ![w] = l]
      PROVE  Running' = Running
  BY <1>4, RunningSteps DEF Busy
<1>5. CASE BeginJob(w)
  <2>1. Running' = Running
    BY <1>4, <1>5 DEF BeginJob, Busy
  <2> QED
    BY <1>5, <2>1 DEF BeginJob, WorkerLabels, Busy
<1>6. CASE CallFailed(w)
  <2>1. Running' = Running
    BY <1>4, <1>6 DEF CallFailed, Busy
  <2> QED
    BY <1>6, <2>1 DEF CallFailed, WorkerLabels, Busy
<1>7. CASE Awake(w)
  <2>1. Running' = Running
    BY <1>4, <1>7 DEF Awake, Busy
  <2> QED
    BY <1>7, <2>1 DEF Awake, WorkerLabels, Busy
<1> QED
  BY <1>1, <1>2, <1>3, <1>5, <1>6, <1>7 DEF Worker, Sends

LEMMA NextType == ASSUME TypeOK, [Next]_vars PROVE TypeOK'
<1>1. ASSUME pc' = pc PROVE Running' = Running
  BY <1>1 DEF Running
<1>2. CASE CloseResults
  BY <1>1, <1>2 DEF TypeOK, CloseResults, locals
<1>3. CASE Cancel
  BY <1>1, <1>3 DEF TypeOK, Cancel, locals, channels
<1>4. CASE UNCHANGED vars
  BY <1>1, <1>4 DEF TypeOK, vars
<1> QED
  BY <1>2, <1>3, <1>4, MainType, WorkerType DEF Next, Over

-----------------------------------------------------------------------------
(* The inductive invariant.                                                *)

Answered(i) ==
    \/ errs[i] = "nil" /\ responses[i] = i
    \/ errs[i] # "nil" /\ responses[i] = 0

(* What the caller and the goroutines have behind them at each statement:  *)
(* which channel is closed, who runs still.                                *)
Phases ==
    /\ main \in {"start", "send", "collect"} => configured
    /\ main \in {"send", "collect"} => \A w \in Workers : pc[w] # "none"
    /\ main = "called" => \A i \in Requests : responses[i] = 0
    /\ main \in {"called", "start"} => next = 1
    /\ main = "done" =>
          IF configured THEN resultsClosed /\ results = {}
                        ELSE \A i \in Requests : Answered(i)
    /\ closer # "none" => jobsClosed
    /\ jobsClosed => next > NumRequests /\ \A w \in Workers : pc[w] # "none"
    /\ resultsClosed => \A w \in Workers : pc[w] = "exited"
    /\ \A w \in Workers : pc[w] = "exited" => jobsClosed /\ jobs = {}

(* A request that was sent is in jobs, with a worker, in results or        *)
(* answered.                                                               *)
Kept ==
    /\ \A r \in results : \/ r.error = "nil" /\ r.response = r.index
                          \/ r.error # "nil" /\ r.response = 0
    /\ \A i \in 1..(next - 1) :
          \/ i \in jobs
          \/ \E w \in Workers : job[w] = i
          \/ \E r \in results : r.index = i
          \/ Answered(i)

(* It is in one of these places only.                                      *)
Distinct ==
    /\ \A r \in results : r.index < next /\ r.index \notin jobs
    /\ \A r \in results, w \in Workers : job[w] # r.index
    /\ \A r1, r2 \in results : r1.index = r2.index => r1 = r2
    /\ \A w \in Workers : job[w] \notin jobs
    /\ \A v, w \in Workers : job[v] = job[w] /\ job[v] # 0 => v = w

IInv == TypeOK /\ Phases /\ Kept /\ Distinct

LEMMA InitIInv == Init => IInv
<1> SUFFICES ASSUME Init PROVE IInv
  OBVIOUS
<1>1. TypeOK
  BY InitType
<1>2. Phases
  BY SizesAssumption DEF Init, Phases
<1>3. Kept
  BY DEF Init, Kept
<1>4. Distinct
  BY DEF Init, Distinct
<1> QED
  BY <1>1, <1>2, <1>3, <1>4 DEF IInv

-----------------------------------------------------------------------------
(* The steps of the caller.                                                *)

LEMMA MainPhases == ASSUME IInv, Main PROVE Phases'
<1> USE SizesAssumption DEF IInv, TypeOK, Phases, channels, locals
<1>1. CASE CategorizeBatch
  BY <1>1 DEF CategorizeBatch, Answered
<1>2. ASSUME NEW w \in Workers, StartWorker(w) PROVE Phases'
  BY <1>2 DEF StartWorker, Goto, Answered
<1>3. CASE SendJob
  BY <1>3 DEF SendJob, Answered
<1>4. CASE CloseJobs
  BY <1>4 DEF CloseJobs, Answered
<1>5. CASE Collect
  BY <1>5 DEF Collect, Answered
<1>6. CASE FinishBatch
  BY <1>6 DEF FinishBatch, Answered
<1> QED
  BY <1>1, <1>2, <1>3, <1>4, <1>5, <1>6 DEF Main

LEMMA MainKept == ASSUME IInv, Main PROVE Kept' /\ Distinct'
<1> USE SizesAssumption DEF IInv, TypeOK, Kept, Distinct, channels, locals
<1>1. CASE CategorizeBatch
  <2>1. next' = next /\ results' = results /\ jobs' = jobs /\ job' = job
    BY <1>1 DEF CategorizeBatch
  <2>2. next' = 1
    BY <1>1, <2>1 DEF CategorizeBatch, Phases
  <2>3. \A i \in 1..(next' - 1) : FALSE
    BY <2>2
  <2> QED
    BY <2>1, <2>3
<1>2. ASSUME NEW w \in Workers, StartWorker(w) PROVE Kept' /\ Distinct'
  BY <1>2 DEF StartWorker, Goto, Answered
<1>3. CASE SendJob
  <2>1. /\ jobs' = jobs \cup {next} /\ next' = next + 1
        /\ UNCHANGED <<results, job, responses, errs>>
    BY <1>3 DEF SendJob
  <2>2. next \in Nat /\ \A w \in Workers : job[w] \in 0..(next - 1)
    OBVIOUS
  <2>3. Kept'
    BY <2>1, <2>2 DEF Answered
  <2>4. Distinct'
    BY <2>1, <2>2 DEF Result, Requests
  <2> QED
    BY <2>3, <2>4
<1>4. CASE CloseJobs
  BY <1>4 DEF CloseJobs, Answered
<1>5. CASE Collect
  <2>1. PICK r \in results :
          /\ results' = results \ {r}
          /\ responses' = [responses EXCEPT ![r.index] = r.response]
          /\ errs' = [errs EXCEPT ![r.index] = r.error]
    BY <1>5 DEF Collect
  <2>2. UNCHANGED <<next, jobs, job>>
    BY <1>5 DEF Collect
  <2>3. r.index \in Requests
    BY DEF Result
  <2>4. Answered(r.index)'
    BY <2>1, <2>3 DEF Answered
  <2>5. \A i \in Requests : i # r.index => (Answered(i)' <=> Answered(i))
    BY <2>1, <2>3 DEF Answered
  <2>6. \A i \in 1..(next - 1) : i \in Requests
    BY DEF Requests
  <2>7. Kept'
    BY <2>1, <2>2, <2>4, <2>5, <2>6
  <2>8. Distinct'
    BY <2>1, <2>2
  <2> QED
    BY <2>7, <2>8
<1>6. CASE FinishBatch
  BY <1>6 DEF FinishBatch, Answered
<1> QED
  BY <1>1, <1>2, <1>3, <1>4, <1>5, <1>6 DEF Main

-----------------------------------------------------------------------------
(* The steps of a worker.                                                  *)

LEMMA WorkerPhases ==
    ASSUME IInv, NEW w \in Workers, Worker(w) PROVE Phases'
<1> USE SizesAssumption DEF IInv, TypeOK, Phases, channels, Goto
<1>1. CASE ReceiveJob(w)
  BY <1>1 DEF ReceiveJob, Answered
<1>2. CASE Exit(w)
  BY <1>2 DEF Exit, Answered
<1>3. CASE Sends(w)
  <2>1. PICK r \in Result : Send(w, r)
    BY <1>3, SendsResult
  <2>2. pc[w] \in Busy
    BY <1>3, SendsResult
  <2> QED
    BY <2>1, <2>2 DEF Send, Busy, Answered
<1>4. CASE BeginJob(w)
  BY <1>4 DEF BeginJob, Answered
<1>5. CASE CallFailed(w)
  BY <1>5 DEF CallFailed, Answered
<1>6. CASE Awake(w)
  BY <1>6 DEF Awake, Answered
<1> QED
  BY <1>1, <1>2, <1>3, <1>4, <1>5, <1>6 DEF Worker, Sends

LEMMA WorkerKept ==
    ASSUME IInv, NEW w \in Workers, Worker(w) PROVE Kept' /\ Distinct'
<1> USE SizesAssumption DEF IInv, TypeOK, Kept, Distinct, channels, Goto
<1>1. CASE ReceiveJob(w)
  <2>1. PICK i \in jobs : jobs' = jobs \ {i} /\ job' = [job EXCEPT ![w] = i]
    BY <1>1 DEF ReceiveJob
  <2>2. UNCHANGED <<next, results, responses, errs>>
    BY <1>1 DEF ReceiveJob
  <2>3. job[w] = 0
    BY <1>1 DEF ReceiveJob, Busy
  <2>4. i # 0 /\ i < next
    OBVIOUS
  <2>5. Kept'
    <3>1. ASSUME NEW k \in 1..(next - 1), NEW v \in Workers, job[v] = k
          PROVE  job'[v] = k
      BY <2>1, <2>3, <3>1
    <3>2. job'[w] = i
      BY <2>1
    <3> QED
      BY <2>1, <2>2, <3>1, <3>2 DEF Answered
  <2>6. Distinct'
    BY <2>1, <2>2, <2>3, <2>4
  <2> QED
    BY <2>5, <2>6
<1>2. CASE Exit(w)
  BY <1>2 DEF Exit, Answered
<1>3. CASE Sends(w)
  <2>1. PICK r \in Result :
          /\ Send(w, r)
          /\ r.index = job[w]
          /\ \/ r.error = "nil" /\ r.response = r.index
             \/ r.error # "nil" /\ r.response = 0
    BY <1>3, SendsResult
  <2>2. /\ results' = results \cup {r} /\ job' = [job EXCEPT ![w] = 0]
        /\ UNCHANGED <<next, jobs, responses, errs>>
    BY <2>1 DEF Send
  <2>3. job[w] # 0 /\ job[w] < next /\ job[w] \notin jobs
    BY <1>3, SendsResult
  <2>4. Kept'
    BY <2>1, <2>2 DEF Answered
  <2>5. Distinct'
    <3>1. \A s \in results' : s.index < next /\ s.index \notin jobs
      BY <2>1, <2>2, <2>3
    <3>2. \A s \in results', v \in Workers : job'[v] # s.index
      BY <2>1, <2>2, <2>3 DEF Result, Requests
    <3>3. \A s1, s2 \in results' : s1.index = s2.index => s1 = s2
      BY <2>1, <2>2
    <3>4. \A v \in Workers : job'[v] \notin jobs
      BY <2>2
    <3>5. \A v1, v2 \in Workers : job'[v1] = job'[v2] /\ job'[v1] # 0 => v1 = v2
      BY <2>2
    <3> QED
      BY <2>2, <3>1, <3>2, <3>3, <3>4, <3>5
  <2> QED
    BY <2>4, <2>5
<1>4. CASE BeginJob(w)
  BY <1>4 DEF BeginJob, Answered
<1>5. CASE CallFailed(w)
  BY <1>5 DEF CallFailed, Answered
<1>6. CASE Awake(w)
  BY <1>6 DEF Awake, Answered
<1> QED
  BY <1>1, <1>2, <1>3, <1>4, <1>5, <1>6 DEF Worker, Sends

-----------------------------------------------------------------------------
(* The remaining steps, and the theorems.                                  *)

(* When the counter of the WaitGroup is zero after the last job was sent,  *)
(* every worker has exited.                                                *)
LEMMA CloserPhases == ASSUME IInv, CloseResults PROVE Phases'
<1>1. Running = {}
  BY RunningFinite, FS_EmptySet DEF IInv, TypeOK, CloseResults
<1>2. \A w \in Workers : pc[w] = "exited"
  BY <1>1 DEF IInv, Phases, CloseResults, Running
<1> QED
  BY <1>2 DEF IInv, Phases, CloseResults, locals, Answered

LEMMA NextIInv == IInv /\ [Next]_vars => IInv'
<1> SUFFICES ASSUME IInv, [Next]_vars PROVE IInv'
  OBVIOUS
<1>1. TypeOK'
  BY NextType DEF IInv
<1>2. CASE Main
  BY <1>1, <1>2, MainPhases, MainKept DEF IInv
<1>3. ASSUME NEW w \in Workers, Worker(w) PROVE IInv'
  BY <1>1, <1>3, WorkerPhases, WorkerKept DEF IInv
<1>4. CASE CloseResults
  <2>1. Kept' /\ Distinct'
    BY <1>4 DEF CloseResults, IInv, Kept, Distinct, Answered, locals
  <2> QED
    BY <1>1, <1>4, <2>1, CloserPhases DEF IInv
<1>5. CASE Cancel
  BY <1>1, <1>5 DEF Cancel, IInv, Phases, Kept, Distinct, Answered, locals,
     channels
<1>6. CASE UNCHANGED vars
  BY <1>1, <1>6 DEF IInv, Phases, Kept, Distinct, Answered, vars, channels,
     locals
<1> QED
  BY <1>2, <1>3, <1>4, <1>5, <1>6 DEF Next, Over

(* What holds between the workers, the caller and their channels.          *)
THEOREM Inductive == Spec => []IInv
<1> QED
  BY InitIInv, NextIInv, PTL DEF Spec

(* The types hold and the WaitGroup of CategorizeBatch (service.go:322-332 *)
(* and 363) counts the running workers, for any number of them.            *)
THEOREM TypeCorrect == Spec => []TypeOK
<1>1. IInv => TypeOK
  BY DEF IInv
<1> QED
  BY <1>1, Inductive, PTL

LEMMA DoneAnswered == IInv => OwnAnswerOrError
<1> SUFFICES ASSUME IInv, main = "done", NEW i \in Requests PROVE Answered(i)
  BY DEF OwnAnswerOrError, Answered
<1>1. CASE ~configured
  BY <1>1 DEF IInv, Phases
<1>2. CASE configured
  <2>1. results = {} /\ \A w \in Workers : pc[w] = "exited"
    BY <1>2 DEF IInv, Phases
  <2>2. jobs = {} /\ next > NumRequests
    BY <2>1, SizesAssumption DEF IInv, Phases
  <2>3. \A w \in Workers : job[w] = 0
    BY <2>1 DEF IInv, TypeOK, Busy
  <2>4. i \in 1..(next - 1) /\ i # 0
    BY <2>2, SizesAssumption DEF IInv, TypeOK, Requests
  <2> QED
    BY <2>1, <2>2, <2>3, <2>4 DEF IInv, Kept
<1> QED
  BY <1>1, <1>2 DEF IInv, TypeOK

(* What processAddedTransactions relies on (sync_service.go:189-216): each *)
(* request gets its own answer or an error, for any number of workers and  *)
(* requests, whatever fails and whenever the context ends.                 *)
THEOREM AnswersInPlace == Spec => []OwnAnswerOrError
<1> QED
  BY Inductive, DoneAnswered, PTL

(* No goroutine of CategorizeBatch ever sends on a closed channel.         *)
THEOREM ChannelsOpen == Spec => []NoSendOnClosed
<1>1. IInv => NoSendOnClosed
  BY DEF IInv, Phases, NoSendOnClosed
<1> QED
  BY <1>1, Inductive, PTL

LEMMA RoomLeft == IInv => RoomForEveryResult
<1> SUFFICES ASSUME IInv, NEW w \in Workers, pc[w] \in Busy
             PROVE  Cardinality(results) < NumRequests
  BY DEF RoomForEveryResult
<1> DEFINE Others == Requests \ {job[w]}
<1> DEFINE f == [r \in results |-> r.index]
<1>1. job[w] \in Requests
  BY SizesAssumption DEF IInv, TypeOK, Requests
<1>2. IsFiniteSet(Requests) /\ Cardinality(Requests) = NumRequests
  BY FS_Interval, SizesAssumption DEF Requests
<1>3. IsFiniteSet(Others) /\ Cardinality(Others) = NumRequests - 1
  BY <1>1, <1>2, FS_RemoveElement
<1>4. \A r \in results : r.index \in Others
  BY DEF IInv, TypeOK, Distinct, Result
<1>5. f \in Injection(results, Others)
  BY <1>4 DEF Injection, IsInjective, IInv, Distinct
<1>6. IsFiniteSet(results) /\ Cardinality(results) <= NumRequests - 1
  BY <1>3, <1>5, FS_Injection
<1>7. Cardinality(results) \in Nat
  BY <1>6, FS_CardinalityType
<1> QED
  BY <1>6, <1>7, SizesAssumption

(* The buffer of results is large enough: no worker ever waits for the     *)
(* caller to collect (service.go:320).                                     *)
THEOREM AlwaysRoom == Spec => []RoomForEveryResult
<1> QED
  BY Inductive, RoomLeft, PTL

-----------------------------------------------------------------------------
(* The batch ends: nobody waits for ever, and there is an end to the steps. *)

(* The goroutine that closes results is started once the jobs are sent,    *)
(* before it is needed, and is gone only when it has closed them.          *)
CloserDue ==
    /\ main \in {"called", "start", "send"} => closer = "none"
    /\ main = "collect" => closer # "none"
    /\ closer = "done" => resultsClosed

LEMMA NextCloser == ASSUME CloserDue, [Next]_vars PROVE CloserDue'
<1> USE DEF CloserDue
<1>1. CASE Main
  BY <1>1 DEF Main, CategorizeBatch, StartWorker, SendJob, CloseJobs, Collect,
     FinishBatch, channels
<1>2. ASSUME NEW w \in Workers, Worker(w) PROVE CloserDue'
  BY <1>2 DEF Worker, ReceiveJob, Exit, SkipJob, BeginJob, CallAnswered,
     CallFailed, GiveUp, Awake, StopRetrying, Send, channels
<1>3. CASE CloseResults \/ Cancel \/ UNCHANGED vars
  BY <1>3 DEF CloseResults, Cancel, vars, channels
<1> QED
  BY <1>1, <1>2, <1>3 DEF Next, Over

(* The caller's next statement goes through.                               *)
CallerProceeds ==
    \/ main \in {"called", "start", "send"}
    \/ main = "collect" /\ (results # {} \/ resultsClosed)

(* A worker's does: a job or the end of the jobs is there to receive, or   *)
(* there is room for its result.                                           *)
WorkerProceeds(w) ==
    \/ pc[w] = "receive" /\ (jobs # {} \/ jobsClosed)
    \/ pc[w] \in Busy /\ Cardinality(results) < NumRequests

(* Until the batch is done, somebody has a statement that goes through:    *)
(* the caller, its workers and the goroutine that closes results never all *)
(* wait for each other on their channels and the WaitGroup.                *)
SomebodyProceeds ==
    \/ main = "done"
    \/ CallerProceeds
    \/ closer = "wait" /\ wg = 0
    \/ \E w \in Workers : WorkerProceeds(w)

(* CategorizeBatch cannot deadlock (service.go:320-366), for any number of *)
(* workers and requests.                                                   *)
THEOREM NeverStuck == Spec => []SomebodyProceeds
<1>1. ASSUME IInv, CloserDue PROVE SomebodyProceeds
  <2>1. SUFFICES ASSUME main = "collect", results = {}, ~resultsClosed,
                        ~(closer = "wait" /\ wg = 0)
                 PROVE  \E w \in Workers : WorkerProceeds(w)
    BY <1>1 DEF SomebodyProceeds, CallerProceeds, IInv, TypeOK
  <2>2. closer = "wait" /\ jobsClosed
    BY <1>1, <2>1 DEF CloserDue, IInv, TypeOK, Phases
  <2>3. Cardinality(Running) # 0
    BY <1>1, <2>1, <2>2 DEF IInv, TypeOK
  <2>4. PICK w \in Workers : pc[w] \notin {"none", "exited"}
    BY <2>3, FS_EmptySet DEF Running
  <2>5. CASE pc[w] = "receive"
    BY <2>2, <2>5 DEF WorkerProceeds
  <2>6. CASE pc[w] \in Busy
    BY <1>1, <2>6, RoomLeft DEF RoomForEveryResult, WorkerProceeds
  <2> QED
    BY <1>1, <2>4, <2>5, <2>6 DEF IInv, TypeOK, WorkerLabels, Busy
<1>2. Init => CloserDue
  BY DEF Init, CloserDue
<1> QED
  BY <1>1, <1>2, Inductive, NextCloser, PTL DEF Spec

-----------------------------------------------------------------------------

(* How far a worker is with its job, counted backwards to its result.      *)
StepsOfWorker(w) ==
    CASE pc[w] = "check" -> 2 * MaxRetries + 4
      [] pc[w] = "sleep" -> 2 * (MaxRetries - attempt[w]) + 4
      [] OTHER           -> 2 * (MaxRetries - attempt[w]) + 3

MaxSteps == 2 * MaxRetries + 6

(* The steps a request has left, numbered: all until it is sent, less in   *)
(* jobs, then those of its worker, and the last in results.                *)
StepsOfRequests ==
    {x \in Requests \X (1..MaxSteps) :
        \/ x[1] >= next
        \/ x[1] \in jobs /\ x[2] < MaxSteps
        \/ \E w \in Workers : job[w] = x[1] /\ x[2] <= StepsOfWorker(w)
        \/ \E r \in results : r.index = x[1] /\ x[2] = 1}

(* Those the goroutines have left besides: to start and to end.            *)
StepsOfGoroutines ==
    {x \in Workers \X {"starts", "exits"} :
        \/ pc[x[1]] = "none"
        \/ pc[x[1]] # "exited" /\ x[2] = "exits"}

StepsOfOthers ==
    {x \in {"call", "start", "send", "collect", "close", "cancel"} :
        \/ x = "call" /\ main = "called"
        \/ x = "start" /\ main \in {"called", "start"}
        \/ x = "send" /\ main \in {"called", "start", "send"}
        \/ x = "collect" /\ main # "done"
        \/ x = "close" /\ closer # "done"
        \/ x = "cancel" /\ ~cancelled}

(* Every step uses some of these up and gives none back, and they are      *)
(* finitely many: whatever the model answers, whatever is retried, no      *)
(* behaviour of the batch goes on for ever (service.go:131).               *)
UsesUp ==
    LET Left == <<StepsOfRequests, StepsOfGoroutines, StepsOfOthers>> IN
    /\ StepsOfRequests' \subseteq StepsOfRequests
    /\ StepsOfGoroutines' \subseteq StepsOfGoroutines
    /\ StepsOfOthers' \subseteq StepsOfOthers
    /\ Left' # Left

EndsInFiniteSteps == [][UsesUp]_vars

LEMMA StepsOfWorkerType ==
    ASSUME TypeOK, NEW w \in Workers
    PROVE  StepsOfWorker(w) \in 3..(MaxSteps - 2)
<1>1. attempt[w] \in Int /\ 0 <= attempt[w] /\ attempt[w] <= MaxRetries
  BY SizesAssumption DEF TypeOK
<1>2. MaxRetries \in Nat
  BY SizesAssumption
<1>3. CASE pc[w] = "check"
  BY <1>2, <1>3 DEF StepsOfWorker, MaxSteps
<1>4. CASE pc[w] = "sleep"
  BY <1>1, <1>2, <1>4 DEF StepsOfWorker, MaxSteps
<1>5. CASE pc[w] \notin {"check", "sleep"}
  BY <1>1, <1>2, <1>5 DEF StepsOfWorker, MaxSteps
<1> QED
  BY <1>3, <1>4, <1>5

(* A worker that comes nearer to its result.                               *)
LEMMA NearerResult ==
    ASSUME IInv, NEW w \in Workers, pc[w] \in Busy,
           UNCHANGED <<next, jobs, results, job>>,
           \A v \in Workers \ {w} : StepsOfWorker(v)' = StepsOfWorker(v),
           StepsOfWorker(w)' \in Int, StepsOfWorker(w)' < StepsOfWorker(w)
    PROVE  /\ StepsOfRequests' \subseteq StepsOfRequests
           /\ StepsOfRequests' # StepsOfRequests
<1> DEFINE x == <<job[w], StepsOfWorker(w)>>
<1>1. StepsOfWorker(w) \in 3..(MaxSteps - 2) /\ MaxSteps \in Int
  BY StepsOfWorkerType, SizesAssumption DEF IInv, MaxSteps
<1>2. job[w] \in Requests /\ job[w] < next
  BY SizesAssumption DEF IInv, TypeOK, Requests
<1>3. \A v \in Workers : job[v] = job[w] => v = w
  BY <1>2, SizesAssumption DEF IInv, Distinct, Requests
<1>4. StepsOfRequests' \subseteq StepsOfRequests
  <2> SUFFICES ASSUME NEW y \in StepsOfRequests' PROVE y \in StepsOfRequests
    OBVIOUS
  <2>1. y \in Requests \X (1..MaxSteps)
    BY DEF StepsOfRequests
  <2>2. y[2] \in Int
    BY <2>1
  <2>3. ASSUME NEW v \in Workers, job[v] = y[1], y[2] <= StepsOfWorker(v)'
        PROVE  y[2] <= StepsOfWorker(v)
    BY <1>1, <2>2, <2>3
  <2> QED
    BY <2>1, <2>3 DEF StepsOfRequests
<1>5. x \in StepsOfRequests
  <2>1. x \in Requests \X (1..MaxSteps)
    BY <1>1, <1>2
  <2> QED
    BY <1>1, <2>1 DEF StepsOfRequests
<1>6. x \notin StepsOfRequests'
  <2>1. job[w] \notin jobs /\ \A r \in results : r.index # job[w]
    BY DEF IInv, Distinct
  <2>2. ~(job[w] >= next)
    BY <1>2, SizesAssumption DEF IInv, TypeOK, Requests
  <2>3. \A v \in Workers : job[v] = job[w]
                              => ~(StepsOfWorker(w) <= StepsOfWorker(v)')
    BY <1>1, <1>3
  <2> QED
    BY <2>1, <2>2, <2>3 DEF StepsOfRequests
<1> QED
  BY <1>4, <1>5, <1>6

(* A result takes the place of the steps of its worker.                    *)
LEMMA SendUses ==
    ASSUME IInv, NEW w \in Workers, Sends(w)
    PROVE  /\ StepsOfRequests' \subseteq StepsOfRequests
           /\ StepsOfRequests' # StepsOfRequests
<1>1. PICK r \in Result : Send(w, r) /\ r.index = job[w]
  BY SendsResult DEF IInv
<1>2. job[w] \in Requests /\ pc[w] \in Busy
  BY SendsResult DEF IInv
<1>3. /\ UNCHANGED <<next, jobs>> /\ results' = results \cup {r}
      /\ job' = [job EXCEPT ![w] = 0]
      /\ attempt' = [attempt EXCEPT ![w] = 0]
      /\ pc' = [pc EXCEPT ![w] = "receive"]
  BY <1>1 DEF Send, Goto
<1>4. /\ job'[w] = 0
      /\ \A v \in Workers \ {w} :
            job'[v] = job[v] /\ StepsOfWorker(v)' = StepsOfWorker(v)
  BY <1>3 DEF IInv, TypeOK, StepsOfWorker
<1>5. StepsOfWorker(w) \in 3..(MaxSteps - 2) /\ MaxSteps \in Int
  BY StepsOfWorkerType, SizesAssumption DEF IInv, MaxSteps
<1> DEFINE x == <<job[w], 2>>
<1>6. StepsOfRequests' \subseteq StepsOfRequests
  <2> SUFFICES ASSUME NEW y \in StepsOfRequests' PROVE y \in StepsOfRequests
    OBVIOUS
  <2>1. y \in Requests \X (1..MaxSteps) /\ y[1] # 0
    BY SizesAssumption DEF StepsOfRequests, Requests
  <2>2. \/ y[1] >= next
        \/ y[1] \in jobs /\ y[2] < MaxSteps
        \/ \E v \in Workers : job'[v] = y[1] /\ y[2] <= StepsOfWorker(v)'
        \/ \E q \in results' : q.index = y[1] /\ y[2] = 1
    BY <1>3 DEF StepsOfRequests
  <2>3. CASE \E v \in Workers : job'[v] = y[1] /\ y[2] <= StepsOfWorker(v)'
    <3>1. \E v \in Workers : job[v] = y[1] /\ y[2] <= StepsOfWorker(v)
      BY <1>4, <2>1, <2>3
    <3> QED
      BY <2>1, <3>1 DEF StepsOfRequests
  <2>4. CASE r.index = y[1] /\ y[2] = 1
    <3>1. job[w] = y[1] /\ y[2] <= StepsOfWorker(w)
      BY <1>1, <1>5, <2>4
    <3> QED
      BY <2>1, <3>1 DEF StepsOfRequests
  <2> QED
    BY <1>3, <2>1, <2>2, <2>3, <2>4 DEF StepsOfRequests
<1>7. x \in StepsOfRequests
  <2>1. x \in Requests \X (1..MaxSteps)
    BY <1>2, <1>5
  <2> QED
    BY <1>5, <2>1 DEF StepsOfRequests
<1>8. x \notin StepsOfRequests'
  <2>1. job[w] \notin jobs' /\ ~(job[w] >= next')
    BY <1>2, <1>3, SizesAssumption DEF IInv, TypeOK, Distinct, Requests
  <2>2. \A v \in Workers : job'[v] # job[w]
    BY <1>2, <1>4, SizesAssumption DEF IInv, Distinct, Requests
  <2> QED
    BY <2>1, <2>2 DEF StepsOfRequests
<1> QED
  BY <1>6, <1>7, <1>8

LEMMA WorkerUses == ASSUME IInv, NEW w \in Workers, Worker(w) PROVE UsesUp
<1>1. UNCHANGED StepsOfOthers
  BY DEF Worker, ReceiveJob, Exit, SkipJob, BeginJob, CallAnswered,
     CallFailed, GiveUp, Awake, StopRetrying, Send, channels, StepsOfOthers
<1>2. CASE Exit(w)
  <2>1. UNCHANGED StepsOfRequests
    BY <1>2 DEF Exit, Goto, channels, StepsOfRequests, IInv, TypeOK,
       StepsOfWorker, Busy, Requests
  <2>2. /\ StepsOfGoroutines' \subseteq StepsOfGoroutines
        /\ <<w, "exits">> \in StepsOfGoroutines
        /\ <<w, "exits">> \notin StepsOfGoroutines'
    BY <1>2 DEF Exit, Goto, IInv, TypeOK, StepsOfGoroutines
  <2> QED
    BY <1>1, <2>1, <2>2 DEF UsesUp
<1>3. ASSUME ~Exit(w)
      PROVE  UNCHANGED StepsOfGoroutines
  BY <1>3 DEF Worker, ReceiveJob, SkipJob, BeginJob, CallAnswered,
     CallFailed, GiveUp, Awake, StopRetrying, Send, Goto, IInv, TypeOK,
     StepsOfGoroutines
<1>4. CASE Sends(w)
  BY <1>1, <1>3, <1>4, SendUses
     DEF UsesUp, Sends, SkipJob, CallAnswered, GiveUp, StopRetrying, Exit
<1>5. ASSUME pc[w] \in Busy, ~Exit(w),
             UNCHANGED <<next, jobs, results, job>>,
             \A v \in Workers \ {w} : StepsOfWorker(v)' = StepsOfWorker(v),
             StepsOfWorker(w)' \in Int, StepsOfWorker(w)' < StepsOfWorker(w)
      PROVE  UsesUp
  BY <1>1, <1>3, <1>5, NearerResult DEF UsesUp
<1>6. MaxRetries \in Int /\ attempt[w] \in Int /\ attempt[w] >= 0
  BY SizesAssumption DEF IInv, TypeOK
<1>7. CASE BeginJob(w)
  BY <1>5, <1>6, <1>7
     DEF BeginJob, Exit, Goto, channels, StepsOfWorker, IInv, TypeOK, Busy
<1>8. CASE CallFailed(w)
  BY <1>5, <1>6, <1>8
     DEF CallFailed, Exit, Goto, channels, StepsOfWorker, IInv, TypeOK, Busy
<1>9. CASE Awake(w)
  BY <1>5, <1>6, <1>9
     DEF Awake, Exit, Goto, channels, StepsOfWorker, IInv, TypeOK, Busy
<1>10. CASE ReceiveJob(w)
  <2>1. PICK i \in jobs : /\ jobs' = jobs \ {i}
                          /\ job' = [job EXCEPT ![w] = i]
    BY <1>10 DEF ReceiveJob
  <2>2. /\ UNCHANGED <<next, results, attempt>>
        /\ pc' = [pc EXCEPT ![w] = "check"] /\ pc[w] = "receive"
    BY <1>10 DEF ReceiveJob, Goto
  <2>3. /\ i \in Requests /\ i < next /\ next \in Int /\ i \in Int
        /\ job[w] = 0
    BY <2>1, <2>2, SizesAssumption DEF IInv, TypeOK, Requests, Busy
  <2>4. /\ job'[w] = i /\ StepsOfWorker(w)' = MaxSteps - 2
        /\ \A v \in Workers \ {w} :
              job'[v] = job[v] /\ StepsOfWorker(v)' = StepsOfWorker(v)
    BY <2>1, <2>2, <1>6 DEF IInv, TypeOK, StepsOfWorker, MaxSteps
  <2>5. MaxSteps \in Int /\ MaxSteps > 3
    BY SizesAssumption DEF MaxSteps
  <2>6. StepsOfRequests' \subseteq StepsOfRequests
    <3> SUFFICES ASSUME NEW y \in StepsOfRequests' PROVE y \in StepsOfRequests
      OBVIOUS
    <3>1. y \in Requests \X (1..MaxSteps)
      BY DEF StepsOfRequests
    <3>2. \/ y[1] >= next
          \/ y[1] \in jobs' /\ y[2] < MaxSteps
          \/ \E v \in Workers : job'[v] = y[1] /\ y[2] <= StepsOfWorker(v)'
          \/ \E q \in results : q.index = y[1] /\ y[2] = 1
      BY <2>2 DEF StepsOfRequests
    <3>3. CASE \E v \in Workers : job'[v] = y[1] /\ y[2] <= StepsOfWorker(v)'
      <4>1. \/ \E v \in Workers : job[v] = y[1] /\ y[2] <= StepsOfWorker(v)
            \/ y[1] = i /\ y[2] <= MaxSteps - 2
        BY <2>4, <3>3
      <4>2. y[2] \in Int
        BY <3>1
      <4> QED
        BY <2>5, <3>1, <4>1, <4>2 DEF StepsOfRequests
    <3> QED
      BY <2>1, <3>1, <3>2, <3>3 DEF StepsOfRequests
  <2> DEFINE x == <<i, MaxSteps - 1>>
  <2>7. x \in StepsOfRequests
    <3>1. x \in Requests \X (1..MaxSteps)
      BY <2>3, <2>5
    <3> QED
      BY <2>5, <3>1 DEF StepsOfRequests
  <2>8. x \notin StepsOfRequests'
    <3>1. \A v \in Workers : job'[v] = i => v = w
      BY <2>4 DEF IInv, Distinct
    <3>2. \A q \in results : q.index # i
      BY DEF IInv, Distinct
    <3>3. \A v \in Workers : job'[v] = i => ~(MaxSteps - 1 <= StepsOfWorker(v)')
      BY <2>4, <2>5, <3>1
    <3>4. i \notin jobs' /\ ~(i >= next')
      BY <2>1, <2>2, <2>3
    <3> QED
      BY <2>2, <3>2, <3>3, <3>4 DEF StepsOfRequests
  <2>9. ~Exit(w)
    BY <2>2, <1>10, <2>1 DEF Exit
  <2> QED
    BY <1>1, <1>3, <2>6, <2>7, <2>8, <2>9 DEF UsesUp
<1> QED
  BY <1>2, <1>4, <1>7, <1>8, <1>9, <1>10 DEF Worker, Sends

LEMMA MainUses == ASSUME IInv, CloserDue, Main PROVE UsesUp
<1>1. ASSUME UNCHANGED <<pc, attempt, job, next, jobs, results>>
      PROVE  UNCHANGED StepsOfRequests
  BY <1>1 DEF StepsOfRequests, StepsOfWorker
<1>2. ASSUME pc' = pc
      PROVE  UNCHANGED StepsOfGoroutines
  BY <1>2 DEF StepsOfGoroutines
<1>3. CASE CategorizeBatch
  <2>1. /\ StepsOfOthers' \subseteq StepsOfOthers
        /\ "call" \in StepsOfOthers /\ "call" \notin StepsOfOthers'
    BY <1>3 DEF CategorizeBatch, StepsOfOthers
  <2>2. UNCHANGED <<StepsOfRequests, StepsOfGoroutines>>
    BY <1>1, <1>2, <1>3 DEF CategorizeBatch, channels, locals
  <2> QED
    BY <2>1, <2>2 DEF UsesUp
<1>4. ASSUME NEW w \in Workers, StartWorker(w)
      PROVE  UsesUp
  <2>1. /\ StepsOfGoroutines' \subseteq StepsOfGoroutines
        /\ <<w, "starts">> \in StepsOfGoroutines
        /\ <<w, "starts">> \notin StepsOfGoroutines'
    BY <1>4 DEF StartWorker, Goto, IInv, TypeOK, StepsOfGoroutines
  <2>2. UNCHANGED StepsOfRequests
    <3>1. pc[w] = "none" /\ pc' = [pc EXCEPT ![w] = "receive"]
      BY <1>4 DEF StartWorker, Goto
    <3>2. \A v \in Workers : StepsOfWorker(v)' = StepsOfWorker(v)
      BY <1>4, <3>1 DEF StartWorker, StepsOfWorker, IInv, TypeOK
    <3> QED
      BY <1>4, <3>2 DEF StartWorker, channels, StepsOfRequests
  <2>3. UNCHANGED StepsOfOthers
    BY <1>4 DEF StartWorker, StepsOfOthers
  <2> QED
    BY <2>1, <2>2, <2>3 DEF UsesUp
<1>5. CASE SendJob
  <2>1. StepsOfOthers' \subseteq StepsOfOthers
    BY <1>5 DEF SendJob, StepsOfOthers
  <2>2. UNCHANGED StepsOfGoroutines
    BY <1>2, <1>5 DEF SendJob, locals
  <2>3. /\ jobs' = jobs \cup {next} /\ next' = next + 1
        /\ UNCHANGED <<pc, attempt, job, results>>
        /\ next \in Requests
    BY <1>5, SizesAssumption DEF SendJob, locals, IInv, TypeOK, Requests
  <2>4. MaxSteps \in Nat /\ MaxSteps > 0 /\ next \in Int
    BY <2>3, SizesAssumption DEF MaxSteps, Requests
  <2>5. \A v \in Workers : StepsOfWorker(v)' = StepsOfWorker(v)
    BY <2>3 DEF StepsOfWorker
  <2>6. StepsOfRequests' \subseteq StepsOfRequests
    <3> SUFFICES ASSUME NEW y \in StepsOfRequests' PROVE y \in StepsOfRequests
      OBVIOUS
    <3>1. y \in Requests \X (1..MaxSteps) /\ y[1] \in Int
      BY DEF StepsOfRequests, Requests
    <3> QED
      BY <2>3, <2>4, <2>5, <3>1 DEF StepsOfRequests
  <2> DEFINE x == <<next, MaxSteps>>
  <2>7. x \in StepsOfRequests
    <3>1. x \in Requests \X (1..MaxSteps)
      BY <2>3, <2>4
    <3> QED
      BY <2>4, <3>1 DEF StepsOfRequests
  <2>8. x \notin StepsOfRequests'
    <3>1. \A v \in Workers : job'[v] # next
      BY <2>3, <2>4 DEF IInv, TypeOK
    <3>2. \A q \in results' : q.index # next
      BY <2>3, <2>4 DEF IInv, Distinct
    <3> QED
      BY <2>3, <2>4, <3>1, <3>2 DEF StepsOfRequests
  <2> QED
    BY <2>1, <2>2, <2>6, <2>7, <2>8 DEF UsesUp
<1>6. CASE CloseJobs
  <2>1. /\ StepsOfOthers' \subseteq StepsOfOthers
        /\ "send" \in StepsOfOthers /\ "send" \notin StepsOfOthers'
    <3>1. closer # "done"
      BY <1>6 DEF CloseJobs, CloserDue
    <3> QED
      BY <1>6, <3>1 DEF CloseJobs, StepsOfOthers
  <2>2. UNCHANGED <<StepsOfRequests, StepsOfGoroutines>>
    BY <1>1, <1>2, <1>6 DEF CloseJobs, locals
  <2> QED
    BY <2>1, <2>2 DEF UsesUp
<1>7. CASE Collect
  <2>1. UNCHANGED <<StepsOfOthers, StepsOfGoroutines>>
    BY <1>2, <1>7 DEF Collect, locals, StepsOfOthers
  <2>2. PICK r \in results : results' = results \ {r}
    BY <1>7 DEF Collect
  <2>3. UNCHANGED <<next, jobs, pc, attempt, job>>
    BY <1>7 DEF Collect, locals
  <2>4. \A v \in Workers : StepsOfWorker(v)' = StepsOfWorker(v)
    BY <2>3 DEF StepsOfWorker
  <2>5. StepsOfRequests' \subseteq StepsOfRequests
    BY <2>2, <2>3, <2>4 DEF StepsOfRequests
  <2> DEFINE x == <<r.index, 1>>
  <2>6. r.index \in Requests /\ r.index < next /\ next \in Int
    BY <2>2 DEF IInv, TypeOK, Distinct, Result
  <2>7. x \in StepsOfRequests
    <3>1. x \in Requests \X (1..MaxSteps)
      BY <2>6, SizesAssumption DEF MaxSteps
    <3> QED
      BY <2>2, <3>1 DEF StepsOfRequests
  <2>8. x \notin StepsOfRequests'
    <3>1. r.index \notin jobs /\ \A v \in Workers : job[v] # r.index
      BY <2>2 DEF IInv, Distinct
    <3>2. \A q \in results' : q.index # r.index
      BY <2>2 DEF IInv, Distinct
    <3>3. ~(r.index >= next)
      BY <2>6 DEF Requests
    <3> QED
      BY <2>3, <3>1, <3>2, <3>3 DEF StepsOfRequests
  <2> QED
    BY <2>1, <2>5, <2>7, <2>8 DEF UsesUp
<1>8. CASE FinishBatch
  <2>1. /\ StepsOfOthers' \subseteq StepsOfOthers
        /\ "collect" \in StepsOfOthers /\ "collect" \notin StepsOfOthers'
    BY <1>8 DEF FinishBatch, StepsOfOthers
  <2>2. UNCHANGED <<StepsOfRequests, StepsOfGoroutines>>
    BY <1>1, <1>2, <1>8 DEF FinishBatch, channels, locals
  <2> QED
    BY <2>1, <2>2 DEF UsesUp
<1> QED
  BY <1>3, <1>4, <1>5, <1>6, <1>7, <1>8 DEF Main

LEMMA EnvironmentUses == ASSUME CloseResults \/ Cancel PROVE UsesUp
<1>1. UNCHANGED <<StepsOfRequests, StepsOfGoroutines>>
  BY DEF CloseResults, Cancel, channels, locals, StepsOfRequests,
     StepsOfWorker, StepsOfGoroutines
<1>2. /\ StepsOfOthers' \subseteq StepsOfOthers
      /\ StepsOfOthers' # StepsOfOthers
  <2>1. CASE CloseResults
    <3>1. /\ StepsOfOthers' \subseteq StepsOfOthers
          /\ "close" \in StepsOfOthers /\ "close" \notin StepsOfOthers'
      BY <2>1 DEF CloseResults, StepsOfOthers
    <3> QED
      BY <3>1
  <2>2. CASE Cancel
    <3>1. /\ StepsOfOthers' \subseteq StepsOfOthers
          /\ "cancel" \in StepsOfOthers /\ "cancel" \notin StepsOfOthers'
      BY <2>2 DEF Cancel, StepsOfOthers
    <3> QED
      BY <3>1
  <2> QED
    BY <2>1, <2>2
<1> QED
  BY <1>1, <1>2 DEF UsesUp

(* What is used up is finite.                                              *)
LEMMA StepsAreFinite ==
    /\ IsFiniteSet(StepsOfRequests)
    /\ IsFiniteSet(StepsOfGoroutines)
    /\ IsFiniteSet(StepsOfOthers)
<1>1. IsFiniteSet(Requests) /\ IsFiniteSet(1..MaxSteps)
  BY FS_Interval, SizesAssumption DEF Requests, MaxSteps
<1> HIDE DEF Requests
<1>2. IsFiniteSet(Requests \X (1..MaxSteps))
  BY <1>1, FS_Product
<1>3. IsFiniteSet({"starts", "exits"})
  <2>1. IsFiniteSet({"starts"})
    BY FS_Singleton
  <2>2. {"starts", "exits"} = {"starts"} \cup {"exits"}
    OBVIOUS
  <2> QED
    BY <2>1, <2>2, FS_AddElement
<1>4. IsFiniteSet(Workers \X {"starts", "exits"})
  BY <1>3, FS_Product, SizesAssumption
<1>5. IsFiniteSet({"call", "start", "send", "collect", "close", "cancel"})
  <2>1. IsFiniteSet({"call"}) /\ IsFiniteSet({"start"}) /\ IsFiniteSet({"send"})
    BY FS_Singleton
  <2>2. /\ IsFiniteSet({"collect"}) /\ IsFiniteSet({"close"})
        /\ IsFiniteSet({"cancel"})
    BY FS_Singleton
  <2>3. IsFiniteSet({"call"} \cup {"start"} \cup {"send"} \cup {"collect"}
                       \cup {"close"} \cup {"cancel"})
    BY <2>1, <2>2, FS_Union
  <2>4. {"call"} \cup {"start"} \cup {"send"} \cup {"collect"}
           \cup {"close"} \cup {"cancel"}
          = {"call", "start", "send", "collect", "close", "cancel"}
    OBVIOUS
  <2> QED
    BY <2>3, <2>4
<1>6. /\ StepsOfRequests \in SUBSET (Requests \X (1..MaxSteps))
      /\ StepsOfGoroutines \in SUBSET (Workers \X {"starts", "exits"})
      /\ StepsOfOthers \in
            SUBSET {"call", "start", "send", "collect", "close", "cancel"}
  BY DEF StepsOfRequests, StepsOfGoroutines, StepsOfOthers
<1> QED
  BY <1>2, <1>4, <1>5, <1>6, FS_Subset

(* Every step of the batch uses up some of the finitely many it has, for   *)
(* any number of workers, requests and retries.  With NeverStuck: once all *)
(* goroutines have run as far as they can, the batch is done.              *)
THEOREM StepsRunOut == Spec => EndsInFiniteSteps
<1>1. ASSUME IInv, CloserDue, [Next]_vars
      PROVE  [UsesUp]_vars
  BY <1>1, MainUses, WorkerUses, EnvironmentUses DEF Next, Over
<1>2. Init => CloserDue
  BY DEF Init, CloserDue
<1> QED
  BY <1>1, <1>2, Inductive, NextCloser, PTL DEF Spec, EndsInFiniteSteps
=============================================================================
