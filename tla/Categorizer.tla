---------------------------- MODULE Categorizer ----------------------------
(***************************************************************************)
(* Service.CategorizeBatch of api/internal/categorizer/service.go: one     *)
(* call of it, the goroutines it starts, and the use the sync service      *)
(* makes of its answers.                                                   *)
(*                                                                         *)
(* The caller sends the indices of the requests to the workers through the *)
(* buffered channel jobs; they answer through the buffered channel         *)
(* results, in any order; a goroutine of its own closes results when the   *)
(* WaitGroup says that every worker is done.  Both channels are sets here: *)
(* an index is sent once, and which of two waiting values is received      *)
(* first makes no difference to anybody.                                   *)
(***************************************************************************)
EXTENDS Integers, FiniteSets

CONSTANTS
    Workers,     \* the goroutines started, no more than there are requests
    NumRequests, \* len(requests)
    MaxRetries,  \* s.maxRetries
    Configured   \* values s.configured may have

Requests == 1..NumRequests

ASSUME SizesAssumption ==
    /\ NumRequests \in Nat \ {0}
    /\ MaxRetries \in Nat
    /\ IsFiniteSet(Workers) /\ Workers # {}
    /\ Configured \subseteq BOOLEAN /\ Configured # {}

VARIABLES
    configured,    \* s.configured
    cancelled,     \* the context is
    main,          \* the statement of CategorizeBatch that comes next
    next,          \* index of its sending loop
    jobs,          \* channel jobs
    jobsClosed,
    results,       \* channel results
    resultsClosed,
    wg,            \* counter of the WaitGroup
    closer,        \* the goroutine that closes results
    pc,            \* the statement a worker executes next
    job,           \* the index it works on
    attempt,       \* variable attempt of Categorize
    responses,     \* the request each response answers, 0 for nil
    errs

channels == <<jobs, jobsClosed, results, resultsClosed>>
locals == <<pc, job, attempt>>
vars == <<configured, cancelled, main, next, jobs, jobsClosed, results,
          resultsClosed, wg, closer, pc, job, attempt, responses, errs>>

Errors == {"nil", "not configured", "failed", "context"}

(* A response answers the request it was asked for.                        *)
Result == [index : Requests, response : Requests \cup {0}, error : Errors]

Answer(i) == [index |-> i, response |-> i, error |-> "nil"]
Failure(i, e) == [index |-> i, response |-> 0, error |-> e]

Init ==
    /\ configured \in Configured
    /\ cancelled = FALSE
    /\ main = "called"
    /\ next = 1
    /\ jobs = {}
    /\ jobsClosed = FALSE
    /\ results = {}
    /\ resultsClosed = FALSE
    /\ wg = 0
    /\ closer = "none"
    /\ pc = [w \in Workers |-> "none"]
    /\ job = [w \in Workers |-> 0]
    /\ attempt = [w \in Workers |-> 0]
    /\ responses = [i \in Requests |-> 0]
    /\ errs = [i \in Requests |-> "nil"]

Goto(w, label) == pc' = [pc EXCEPT ![w] = label]

-----------------------------------------------------------------------------
(* CategorizeBatch.                                                        *)

CategorizeBatch ==
    /\ main = "called"
    /\ IF configured
       THEN main' = "start" /\ UNCHANGED errs
       ELSE /\ main' = "done"
            /\ errs' = [i \in Requests |-> "not configured"]
    /\ UNCHANGED <<configured, cancelled, next, channels, wg, closer, locals,
                   responses>>

\* Mutant: wg.Add is forgotten for a worker.
StartWorkerUncounted(w) ==
    /\ main = "start"
    /\ pc[w] = "none"
    /\ Goto(w, "receive")
    /\ UNCHANGED <<configured, cancelled, main, next, channels, wg, closer,
                   job, attempt, responses, errs>>

StartWorker(w) ==
    /\ main = "start"
    /\ pc[w] = "none"
    /\ wg' = wg + 1
    /\ Goto(w, "receive")
    /\ UNCHANGED <<configured, cancelled, main, next, channels, closer, job,
                   attempt, responses, errs>>

(* The buffer has room for every request.                                  *)
SendJob ==
    /\ main \in {"start", "send"}
    /\ \A w \in Workers : pc[w] # "none"
    /\ next <= NumRequests
    /\ jobs' = jobs \cup {next}
    /\ next' = next + 1
    /\ main' = "send"
    /\ UNCHANGED <<configured, cancelled, jobsClosed, results, resultsClosed,
                   wg, closer, locals, responses, errs>>

(* The goroutine that waits for the workers is started right behind.       *)
CloseJobs ==
    /\ main = "send"
    /\ next > NumRequests
    /\ jobsClosed' = TRUE
    /\ closer' = "wait"
    /\ main' = "collect"
    /\ UNCHANGED <<configured, cancelled, next, jobs, results, resultsClosed,
                   wg, locals, responses, errs>>

Collect ==
    /\ main = "collect"
    /\ \E r \in results :
          /\ results' = results \ {r}
          /\ responses' = [responses EXCEPT ![r.index] = r.response]
          /\ errs' = [errs EXCEPT ![r.index] = r.error]
    /\ UNCHANGED <<configured, cancelled, main, next, jobs, jobsClosed,
                   resultsClosed, wg, closer, locals>>

(* The range loop ends when the channel is closed and drained.             *)
FinishBatch ==
    /\ main = "collect"
    /\ results = {}
    /\ resultsClosed
    /\ main' = "done"
    /\ UNCHANGED <<configured, cancelled, next, channels, wg, closer, locals,
                   responses, errs>>

CloseResults ==
    /\ closer = "wait"
    /\ wg = 0
    /\ resultsClosed' = TRUE
    /\ closer' = "done"
    /\ UNCHANGED <<configured, cancelled, main, next, jobs, jobsClosed,
                   results, wg, locals, responses, errs>>

-----------------------------------------------------------------------------
(* categorizationWorker and Categorize.                                    *)

ReceiveJob(w) ==
    /\ pc[w] = "receive"
    /\ \E i \in jobs :
          /\ jobs' = jobs \ {i}
          /\ job' = [job EXCEPT ![w] = i]
    /\ Goto(w, "check")
    /\ UNCHANGED <<configured, cancelled, main, next, jobsClosed, results,
                   resultsClosed, wg, closer, attempt, responses, errs>>

Exit(w) ==
    /\ pc[w] = "receive"
    /\ jobs = {}
    /\ jobsClosed
    /\ wg' = wg - 1
    /\ Goto(w, "exited")
    /\ UNCHANGED <<configured, cancelled, main, next, channels, closer, job,
                   attempt, responses, errs>>

(* The worker sends a result and goes on to the next job.  The channel is  *)
(* bounded: a full one would make it wait.                                 *)
Send(w, r) ==
    /\ Cardinality(results) < NumRequests
    /\ results' = results \cup {r}
    /\ job' = [job EXCEPT ![w] = 0]
    /\ attempt' = [attempt EXCEPT ![w] = 0]
    /\ Goto(w, "receive")
    /\ UNCHANGED <<configured, cancelled, main, next, jobs, jobsClosed,
                   resultsClosed, wg, closer, responses, errs>>

\* Mutant: a cancelled context ends the worker without an answer.
DropJob(w) ==
    /\ pc[w] = "check"
    /\ cancelled
    /\ job' = [job EXCEPT ![w] = 0]
    /\ Goto(w, "receive")
    /\ UNCHANGED <<configured, cancelled, main, next, channels, wg, closer,
                   attempt, responses, errs>>

\* Mutant: the worker does not continue behind it.
SkipJobFallsThrough(w) ==
    /\ pc[w] = "check"
    /\ cancelled
    /\ Cardinality(results) < NumRequests
    /\ results' = results \cup {Failure(job[w], "context")}
    /\ Goto(w, "call")
    /\ UNCHANGED <<configured, cancelled, main, next, jobs, jobsClosed,
                   resultsClosed, wg, closer, job, attempt, responses, errs>>

(* Once the context is cancelled a job is answered with its error at once. *)
SkipJob(w) ==
    /\ pc[w] = "check"
    /\ cancelled
    /\ Send(w, Failure(job[w], "context"))

BeginJob(w) ==
    /\ pc[w] = "check"
    /\ ~cancelled
    /\ Goto(w, "call")
    /\ UNCHANGED <<configured, cancelled, main, next, channels, wg, closer,
                   job, attempt, responses, errs>>

CallAnswered(w) ==
    /\ pc[w] = "call"
    /\ Send(w, Answer(job[w]))

\* Mutant: one attempt too many.
CallFailedOnceMore(w) ==
    /\ pc[w] = "call"
    /\ attempt[w] <= MaxRetries
    /\ attempt' = [attempt EXCEPT ![w] = @ + 1]
    /\ Goto(w, "sleep")
    /\ UNCHANGED <<configured, cancelled, main, next, channels, wg, closer,
                   job, responses, errs>>

\* Mutant: an answer that cannot be decoded is asked for again, uncounted.
CallFailedUncounted(w) ==
    /\ pc[w] = "call"
    /\ Goto(w, "sleep")
    /\ UNCHANGED <<configured, cancelled, main, next, channels, wg, closer,
                   job, attempt, responses, errs>>

(* The model does not answer, or answers what cannot be decoded.           *)
CallFailed(w) ==
    /\ pc[w] = "call"
    /\ attempt[w] < MaxRetries
    /\ attempt' = [attempt EXCEPT ![w] = @ + 1]
    /\ Goto(w, "sleep")
    /\ UNCHANGED <<configured, cancelled, main, next, channels, wg, closer,
                   job, responses, errs>>

GiveUp(w) ==
    /\ pc[w] = "call"
    /\ attempt[w] >= MaxRetries
    /\ Send(w, Failure(job[w], "failed"))

Awake(w) ==
    /\ pc[w] = "sleep"
    /\ Goto(w, "call")
    /\ UNCHANGED <<configured, cancelled, main, next, channels, wg, closer,
                   job, attempt, responses, errs>>

StopRetrying(w) ==
    /\ pc[w] = "sleep"
    /\ cancelled
    /\ Send(w, Failure(job[w], "context"))

Cancel ==
    /\ ~cancelled
    /\ main # "done"
    /\ cancelled' = TRUE
    /\ UNCHANGED <<configured, main, next, channels, wg, closer, locals,
                   responses, errs>>

Main ==
    \/ CategorizeBatch
    \/ \E w \in Workers : StartWorker(w)
    \/ SendJob
    \/ CloseJobs
    \/ Collect
    \/ FinishBatch

Worker(w) ==
    \/ ReceiveJob(w)
    \/ Exit(w)
    \/ SkipJob(w)
    \/ BeginJob(w)
    \/ CallAnswered(w)
    \/ CallFailed(w)
    \/ GiveUp(w)
    \/ Awake(w)
    \/ StopRetrying(w)

(* The batch is over: it stays as it is.                                   *)
Over == main = "done" /\ UNCHANGED vars

Next ==
    \/ Main
    \/ CloseResults
    \/ \E w \in Workers : Worker(w)
    \/ Cancel
    \/ Over

(* Go schedules every goroutine, and a call of the model returns.          *)
Fairness ==
    /\ WF_vars(Main)
    /\ WF_vars(CloseResults)
    /\ \A w \in Workers : WF_vars(Worker(w))

Spec == Init /\ [][Next]_vars
FairSpec == Spec /\ Fairness

-----------------------------------------------------------------------------
(* Properties.                                                             *)

WorkerLabels == {"none", "receive", "check", "call", "sleep", "exited"}
Busy == {"check", "call", "sleep"}

Running == {w \in Workers : pc[w] \notin {"none", "exited"}}

(* The types of the variables; a worker holds a job exactly while it works *)
(* on one, and the WaitGroup counts the workers that run.                  *)
TypeOK ==
    /\ configured \in BOOLEAN /\ cancelled \in BOOLEAN
    /\ main \in {"called", "start", "send", "collect", "done"}
    /\ next \in 1..(NumRequests + 1)
    /\ jobs \subseteq 1..(next - 1) /\ jobsClosed \in BOOLEAN
    /\ results \subseteq Result /\ resultsClosed \in BOOLEAN
    /\ wg = Cardinality(Running)
    /\ closer \in {"none", "wait", "done"}
    /\ pc \in [Workers -> WorkerLabels]
    /\ job \in [Workers -> 0..(next - 1)]
    /\ attempt \in [Workers -> 0..MaxRetries]
    /\ responses \in [Requests -> Requests \cup {0}]
    /\ errs \in [Requests -> Errors]
    /\ \A w \in Workers : job[w] # 0 <=> pc[w] \in Busy

(* What the sync service relies on when it reads responses[i] wherever     *)
(* errs[i] is nil (sync_service.go:189-216), and "results in the same      *)
(* order as the input requests" (service.go:303): whatever order the       *)
(* workers answer in, whatever fails and whenever the context ends, each   *)
(* request has its own answer or an error, and never a nil without one.    *)
OwnAnswerOrError ==
    main = "done" =>
        \A i \in Requests : \/ errs[i] = "nil" /\ responses[i] = i
                            \/ errs[i] # "nil" /\ responses[i] = 0

(* Nobody sends on a closed channel, which would panic: results is closed  *)
(* when every worker is gone, jobs when every request is in.               *)
NoSendOnClosed ==
    /\ resultsClosed => \A w \in Workers : pc[w] = "exited"
    /\ jobsClosed => next > NumRequests

(* No worker ever waits for room in results, not even if nobody collects.  *)
RoomForEveryResult ==
    (\E w \in Workers : pc[w] \in Busy) => Cardinality(results) < NumRequests

(* The batch ends, whatever the model answers and the context does.        *)
BatchEnds == <>(main = "done")
=============================================================================
