------------------------------- MODULE Services -------------------------------
(***************************************************************************)
(* The services that live as long as the app, in use by its jobs, and how   *)
(* they are stopped: owned_lifespan (src/app/main.py) and                    *)
(* ScanSupervisor.shutdown (src/app/jobs/supervisor.py).                     *)
(*                                                                           *)
(* A scan asks its guard while it collects, and its AI task asks for the     *)
(* local model when it has collected; the AI task of a saved report has no    *)
(* scan that waits for it.  A job is named by its guard, an AI task by its    *)
(* job.                                                                      *)
(***************************************************************************)
EXTENDS NetworkGuard, ModelRuntime

\* Bound: the tasks that ask, the jobs without a scan, the autostart setting, and
\* whether the network changes, the computer pauses and the status page is open.
CONSTANT Setups

ASSUME SetupsAssumption == \A s \in Setups : s.autostart \in BOOLEAN
ASSUME JobsAssumption == Guards \subseteq Tasks

VARIABLES
    setup,
    job,        \* where each job is
    halt,       \* shutdown has set the cancel events
    stage,      \* where the end of owned_lifespan is
    loose,      \* AI tasks that were taken out of _analysis_tasks while they ran
    unseen      \* history: servers that OllamaRuntime.close came too early for

vars == <<netVars, runtimeVars, setup, job, halt, stage, loose, unseen>>

Init ==
    /\ setup \in Setups
    /\ NetInit
    /\ outside \in {FALSE, setup.autostart}
    /\ server = [p \in Servers |-> "none"] /\ process = 0
    /\ client = [c \in Clients |->
                   IF setup.autostart /\ c \in {Maintain} \cup setup.retries THEN "lock" ELSE "off"]
    /\ launch = [c \in Clients |-> 0] /\ cut = {}
    /\ job = [g \in Guards |-> IF g \in setup.retries THEN "wording"
                               ELSE IF \E c \in setup.callers : Of[c] = g THEN "collect" ELSE "gone"]
    /\ halt = FALSE
    /\ stage = "up"
    /\ loose = {} /\ unseen = {}

\* analysis_capacity is one for all jobs.
Wording == {g \in Tasks : client[g] \notin {"off", "gone"}}

-----------------------------------------------------------------------------
(* The jobs *)

Asks(c) ==
    /\ c \in setup.callers /\ job[Of[c]] = "collect"
    /\ Ask(c)
    /\ UNCHANGED <<runtimeVars, setup, job, halt, stage, loose, unseen>>

\* The rest of the guard's and of the reader's steps.
NetStep ==
    /\ NetCalls \/ (setup.unrest /\ NetUnrest)
    /\ UNCHANGED <<runtimeVars, setup, job, halt, stage, loose, unseen>>

\* A worker of the scan is cancelled, by a sibling's failure or by its budget.
WorkerCancelled(c) ==
    /\ Leave(c)
    /\ UNCHANGED <<runtimeVars, setup, job, halt, stage, loose, unseen>>

\* The collection ends: the monitor and the workers are cancelled.  The events
\* are read here and not again; an interrupted network can still be explained.
Collected(g) ==
    /\ job[g] = "collect"
    /\ \/ (~halt \/ failed[g]) /\ job' = [job EXCEPT ![g] = "decided"]
       \/ job' = [job EXCEPT ![g] = "gone"]
    /\ asked' = [c \in Callers |-> IF Of[c] = g THEN "idle" ELSE asked[c]]
    /\ moved' = [c \in Callers |-> moved[c] /\ Of[c] # g]
    /\ got' = [c \in Callers |-> IF Of[c] = g THEN "none" ELSE got[c]]
    /\ lost' = [c \in Callers |-> lost[c] /\ Of[c] # g]
    /\ UNCHANGED <<world, netGuards, netThreads, slept, runtimeVars, setup, halt, stage, loose, unseen>>

\* generate calls wait_ready only when the app has a runtime.
Explain(g) ==
    /\ job[g] = "decided" /\ Wording = {}
    /\ job' = [job EXCEPT ![g] = "wording"]
    /\ To(g, IF setup.autostart THEN "lock" ELSE "gone")
    /\ UNCHANGED <<netVars, outside, server, process, launch, cut, setup, halt, stage, loose, unseen>>

Worded(g) ==
    /\ job[g] = "wording" /\ client[g] \in {"off", "gone"}
    /\ job' = [job EXCEPT ![g] = "gone"]
    /\ UNCHANGED <<netVars, runtimeVars, setup, halt, stage, loose, unseen>>

WakeUp(c) ==
    /\ Wake(c)
    /\ UNCHANGED <<netVars, setup, job, halt, stage, loose, unseen>>

RuntimeStep ==
    /\ setup.autostart /\ RuntimeOthers
    /\ UNCHANGED <<netVars, setup, job, halt, stage, loose, unseen>>

\* A user's cancel, or a deadline of the stage.
TaskCancelled(g) ==
    /\ g \in Wording
    /\ CancelClient(g)
    /\ UNCHANGED <<netVars, setup, job, halt, stage, loose, unseen>>

\* A cancel() that waited for an earlier task of the report, or the end of such a
\* task that was itself loose, removes what is registered when it gets there: a
\* retry that has begun since runs on, known to nobody.
Forget(g) ==
    /\ stage \in {"up", "scans"}
    /\ g \in setup.retries /\ g \in Wording
    /\ loose' = loose \cup {g}
    /\ UNCHANGED <<netVars, runtimeVars, setup, job, halt, stage, unseen>>

-----------------------------------------------------------------------------
(* The end of owned_lifespan *)

Known == Wording \ loose

\* task.cancel() of every registered AI task; at most one of them is at work.
CancelTasks ==
    IF Known = {} THEN UNCHANGED runtimeVars ELSE \E g \in Known : CancelClient(g)

\* ScanSupervisor.shutdown sets the events and cancels the AI tasks it knows.
Shutdown ==
    /\ stage = "up" /\ stage' = "scans"
    /\ halt' = TRUE
    /\ CancelTasks
    /\ UNCHANGED <<netVars, setup, job, loose, unseen>>

\* The scans have ended; the AI tasks there are now are cancelled, once more or
\* for the first time.
ScansEnded ==
    /\ stage = "scans" /\ stage' = "tasks"
    /\ \A g \in Guards \ setup.retries : job[g] = "gone"
    /\ CancelTasks
    /\ UNCHANGED <<netVars, setup, job, halt, loose, unseen>>

\* Nobody waits for a task that is in no registry.
TasksEnded ==
    /\ stage = "tasks" /\ stage' = "reads"
    /\ Known = {}
    /\ UNCHANGED <<netVars, runtimeVars, setup, job, halt, loose, unseen>>

\* FreshNetworkReader.close, then OllamaRuntime.close cancels the maintenance task.
ReadsEnded ==
    /\ stage = "reads" /\ stage' = "server"
    /\ reader = "idle"
    /\ IF client[Maintain] = "off" THEN UNCHANGED runtimeVars ELSE CancelClient(Maintain)
    /\ UNCHANGED <<netVars, setup, job, halt, loose, unseen>>

\* The server the app owns is terminated, or killed after five seconds.  The lock
\* is not taken and no flag is set: an AI task that still runs may be starting a
\* server, or start one later.
ServerStopped ==
    /\ stage = "server" /\ stage' = IF process = 0 THEN "closed" ELSE "ending"
    /\ client[Maintain] \in {"off", "gone"}
    /\ server' = [p \in Servers |-> IF p = process THEN "exited" ELSE server[p]]
    /\ unseen' = IF Wording = {} THEN {}
                 ELSE {p \in Servers : server[p] = "none" \/ \E c \in Clients : launch[c] = p}
    /\ UNCHANGED <<netVars, outside, process, client, launch, cut, setup, job, halt, loose>>

ServerEnded ==
    /\ stage = "ending" /\ stage' = "closed"
    /\ process' = 0
    /\ UNCHANGED <<netVars, outside, server, client, launch, cut, setup, job, halt, loose, unseen>>

Next ==
    \/ NetStep \/ RuntimeStep
    \/ \E c \in Callers : Asks(c) \/ WorkerCancelled(c)
    \/ \E g \in Guards : Collected(g) \/ Explain(g) \/ Worded(g) \/ TaskCancelled(g) \/ Forget(g)
    \/ \E c \in Clients : WakeUp(c)
    \/ Shutdown \/ ScansEnded \/ TasksEnded \/ ReadsEnded \/ ServerStopped \/ ServerEnded

Spec == Init /\ [][Next]_vars

-----------------------------------------------------------------------------

ServicesTypeOK ==
    /\ world \in Worlds
    /\ asked \in [Callers -> {"idle", "lock", "read", "resume", "accepted", "refused"}]
    /\ moved \in [Callers -> BOOLEAN] /\ lost \in [Callers -> BOOLEAN]
    /\ got \in [Callers -> {"none", "home", "away", "failed"}]
    /\ failed \in [Guards -> BOOLEAN] /\ late \in [Guards -> BOOLEAN] /\ slept \in [Guards -> BOOLEAN]
    /\ reader \in {"idle", "queued", "ask", "query", "over"}
    /\ status \in {"idle", "ask", "query"}
    /\ address \in {"none", "home", "away", "failed"} /\ rows \in Worlds \cup {"none", "failed"}
    /\ passed \in [Threads -> BOOLEAN]
    /\ outside \in BOOLEAN /\ halt \in BOOLEAN
    /\ server \in [Servers -> {"none", "starting", "alive", "exited"}]
    /\ process \in {0} \cup Servers /\ launch \in [Clients -> {0} \cup Servers]
    /\ client \in [Clients -> Inside \cup {"off", "lock", "sleep", "gone"}]
    /\ cut \subseteq Servers /\ setup \in Setups
    /\ job \in [Guards -> {"collect", "decided", "wording", "gone"}]
    /\ stage \in {"up", "scans", "tasks", "reads", "server", "ending", "closed"}
    /\ loose \subseteq Guards /\ unseen \subseteq Servers

Accepts(c) == asked[c] # "accepted" /\ asked'[c] = "accepted"

\* No layer keeps an answer: a check that is asked for after the network has
\* gone, with no read under way that began before, is not accepted while it is
\* gone, however callers, guards and threads share their reads.
AcceptedIsFresh == [][\A c \in Callers : Accepts(c) => ~lost[c]]_vars

\* A guard accepts nothing more after a pause of more than 45 seconds, whether
\* the pause came while it was idle, while a caller waited or during a read.
NothingAcceptedAfterPause == [][\A c \in Callers : Accepts(c) => ~slept[Of[c]]]_vars

\* When the app has ended, no thread reads the network for a scan and no server it
\* started is left, through launches that overlap cancellations.  Two kinds are
\* missed: a process whose starter was cancelled twice, and one that an AI task in no
\* registry had not yet finished starting when the runtime was closed; a server
\* such a task had started by then is ended with the others.
StoppedMeansQuiet ==
    stage = "closed" =>
       /\ reader = "idle" /\ \A c \in Callers : asked[c] \notin {"lock", "read", "resume"}
       /\ \A p \in Servers : server[p] \in {"starting", "alive"} => p \in cut \cup unseen

=============================================================================
