------------------------ MODULE TransactionGenerator ------------------------
(***************************************************************************)
(* The refresh loops that requests start and stop for an item              *)
(* (api/server/services/plaid/transaction_generator.go and                 *)
(* api/server/handlers/plaid/transaction_generator.go).  Each start makes  *)
(* a generator, a stop channel and a loop; generators and channels are     *)
(* numbered by the start that makes them.                                  *)
(*                                                                         *)
(* A handler holds h.mu from its check to its last change, and is one      *)
(* step.  The loop takes no lock: it reads its generator's stop channel    *)
(* each time it comes to its select, and it uses the context of the        *)
(* request that started it, which has returned with that step.             *)
(***************************************************************************)
EXTENDS Integers

CONSTANTS
    Items,
    MaxStarts,  \* bound on the starts
    NoGenerator

ASSUME GeneratorAssumption ==
    /\ MaxStarts \in Nat
    /\ NoGenerator \notin 1..MaxStarts

VARIABLES
    generators, \* h.generators: item -> generator, or NoGenerator
    starts,     \* how many loops were started
    stopChan,   \* generator -> its channel
    running,    \* the generators whose flag running is set
    closed,     \* channels that are closed
    loop        \* start -> the loop: its generator, what it does, the channel
                \* its select waits for

loops == <<generators, starts, stopChan, running, closed, loop>>

Starts == 1..MaxStarts

Loop == [item : Items, gen : Starts, chan : Starts \cup {NoGenerator},
         pc : {"refresh", "select", "ended"}]

NoLoop == [item |-> NoGenerator, gen |-> NoGenerator, pc |-> "none",
           chan |-> NoGenerator]

GeneratorInit ==
    /\ generators = [i \in Items |-> NoGenerator]
    /\ starts = 0
    /\ stopChan = [g \in Starts |-> NoGenerator]
    /\ running = {}
    /\ closed = {}
    /\ loop = [n \in Starts |-> NoLoop]

IsRunning(i) == generators[i] # NoGenerator /\ generators[i] \in running

(* Start on the generator g: the loop begins with a refresh.               *)
StartLoop(i, g) ==
    /\ starts < MaxStarts
    /\ starts' = starts + 1
    /\ running' = running \cup {g}
    /\ stopChan' = [stopChan EXCEPT ![g] = starts']
    /\ generators' = [generators EXCEPT ![i] = g]
    /\ loop' = [loop EXCEPT ![starts'] =
          [item |-> i, gen |-> g, pc |-> "refresh", chan |-> NoGenerator]]
    /\ UNCHANGED closed

\* Mutant: the generator of an item is started again after it was stopped.
StartGeneratorAgain(i) ==
    /\ ~IsRunning(i)
    /\ \E g \in 1..(starts + 1) :
          /\ \A n \in 1..starts : g = n \/ loop[n].item # i
          /\ StartLoop(i, g)

StartGenerator(i) ==
    /\ ~IsRunning(i)
    /\ StartLoop(i, starts + 1)

\* Mutant: a generator is only taken off the map.
StopGeneratorForgets(i) ==
    /\ IsRunning(i)
    /\ generators' = [generators EXCEPT ![i] = NoGenerator]
    /\ UNCHANGED <<starts, stopChan, running, closed, loop>>

StopGenerator(i) ==
    /\ IsRunning(i)
    /\ LET g == generators[i] IN
          /\ closed' = closed \cup {stopChan[g]}
          /\ running' = running \ {g}
    /\ generators' = [generators EXCEPT ![i] = NoGenerator]
    /\ UNCHANGED <<starts, stopChan, loop>>

-----------------------------------------------------------------------------
(* refreshLoop.                                                            *)

(* A refresh returns, with or without an error, and the select begins.     *)
Refreshed(n) ==
    /\ loop[n].pc = "refresh"
    /\ loop' = [loop EXCEPT ![n].pc = "select",
                            ![n].chan = stopChan[loop[n].gen]]
    /\ UNCHANGED <<generators, starts, stopChan, running, closed>>

Tick(n) ==
    /\ loop[n].pc = "select"
    /\ loop' = [loop EXCEPT ![n].pc = "refresh", ![n].chan = NoGenerator]
    /\ UNCHANGED <<generators, starts, stopChan, running, closed>>

LoopStops(n) ==
    /\ loop[n].pc = "select"
    /\ loop[n].chan \in closed
    /\ loop' = [loop EXCEPT ![n].pc = "ended", ![n].chan = NoGenerator]
    /\ UNCHANGED <<generators, starts, stopChan, running, closed>>

(* External: Fiber gives the context to another request, with which its    *)
(* use is harmless (Refreshed), or to none: then its use in the refresh or *)
(* at the select that follows is a nil dereference (exchange_token.go:110). *)
(* Nothing recovers a panic of the loop, so that it ends the server: the   *)
(* map and all loops are lost.  A Done of the context (line 104) could     *)
(* only tell of the server's own end, which loses them as well.            *)
ContextPanics(n) ==
    /\ loop[n].pc = "refresh"
    /\ generators' = [i \in Items |-> NoGenerator]
    /\ starts' = 0
    /\ stopChan' = [g \in Starts |-> NoGenerator]
    /\ running' = {}
    /\ closed' = {}
    /\ loop' = [m \in Starts |-> NoLoop]

LoopStep(n) == Refreshed(n) \/ Tick(n) \/ LoopStops(n)

GeneratorNext ==
    \/ \E i \in Items : StartGenerator(i) \/ StopGenerator(i)
    \/ \E n \in Starts : LoopStep(n) \/ ContextPanics(n)

GeneratorSpec == GeneratorInit /\ [][GeneratorNext]_loops

-----------------------------------------------------------------------------
(* Properties.                                                             *)

(* The loop goes on: no channel it waits for, or will wait for, is closed. *)
GoesOn(n) ==
    \/ loop[n].pc = "refresh" /\ stopChan[loop[n].gen] \notin closed
    \/ loop[n].pc = "select" /\ loop[n].chan \notin closed

GeneratorType ==
    /\ starts \in 0..MaxStarts
    /\ generators \in [Items -> Starts \cup {NoGenerator}]
    /\ stopChan \in [Starts -> Starts \cup {NoGenerator}]
    /\ running \subseteq Starts /\ closed \subseteq Starts
    /\ loop \in [Starts -> {NoLoop} \cup Loop]
    /\ \A n \in 1..starts :
          /\ loop[n] \in Loop
          /\ loop[n].pc = "select" <=> loop[n].chan \in Starts
    /\ \A n \in Starts \ (1..starts) : loop[n] = NoLoop

(* At most one loop of an item goes on, however the handlers and the loops *)
(* interleave: one that was stopped is not revived by the next start,      *)
(* though it reads the channel again in each round                         *)
(* (transaction_generator.go:101, handlers transaction_generator.go:58).   *)
OneLoopPerItem ==
    \A i \in Items, m, n \in Starts :
        loop[m].item = i /\ loop[n].item = i /\ GoesOn(m) /\ GoesOn(n) => m = n

(* The status handler (line 143) calls a generator running just as long as *)
(* its loop goes on: no stop is lost, none ends the loop of another start, *)
(* and no loop ends without its generator knowing.                         *)
StatusIsTrue ==
    \A i \in Items :
        IsRunning(i) <=> \E n \in Starts : loop[n].item = i /\ GoesOn(n)
=============================================================================
