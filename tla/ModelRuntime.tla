----------------------------- MODULE ModelRuntime -----------------------------
(***************************************************************************)
(* The local model server the app may start: OllamaRuntime in                *)
(* src/app/explanations/runtime.py.                                          *)
(*                                                                           *)
(* The maintenance task calls ensure_ready every 30 seconds, an AI task calls *)
(* it every 2 seconds in wait_ready; one lock serialises them.  A server is   *)
(* started by a task of its own that the caller shields, so that a cancelled *)
(* caller still learns which process it has started.  A server somebody else *)
(* runs is used and never touched.                                           *)
(***************************************************************************)
EXTENDS Naturals

CONSTANTS
    Maintain,    \* the maintenance task
    Tasks,       \* AI tasks
    MaxLaunches  \* bound: servers started

ASSUME ClientsAssumption == Maintain \notin Tasks /\ MaxLaunches \in Nat

VARIABLES
    outside,     \* somebody else's server answers
    server,      \* the servers the app has started
    process,     \* self.process, 0 for None
    client,      \* where each caller of ensure_ready is
    launch,      \* the server a caller's `launching` task starts
    cut          \* history: servers whose caller was cancelled twice

runtimeVars == <<outside, server, process, client, launch, cut>>

Clients == {Maintain} \cup Tasks
Servers == 1 .. MaxLaunches

\* The callers inside `async with self.lock`.
Inside == {"probe", "launch", "rescue", "poll", "warm"}

Locked == \E c \in Clients : client[c] \in Inside

Serving == outside \/ \E p \in Servers : server[p] = "alive"

To(c, where) == client' = [client EXCEPT ![c] = where]

\* ensure_ready has returned: the caller asks again later.  An AI task may also be
\* done with it, with an answer, a state that will not change or after 150 seconds.
Return(c) ==
    \/ To(c, "sleep")
    \/ c \in Tasks /\ To(c, "gone")

\* Only the maintenance task warms the model, inside the lock.
Ready(c) == IF c = Maintain THEN To(c, "warm") ELSE Return(c)

Wake(c) ==
    /\ client[c] = "sleep" /\ To(c, "lock")
    /\ UNCHANGED <<outside, server, process, launch, cut>>

TakeLock(c) ==
    /\ client[c] = "lock" /\ ~Locked /\ To(c, "probe")
    /\ UNCHANGED <<outside, server, process, launch, cut>>

Gone(p) == p # 0 /\ server[p] # "alive"

\* provider.available: any state but unreachable is left alone.
ProbeAnswers(c) ==
    /\ client[c] = "probe"
    /\ \/ Serving /\ Ready(c)
       \/ Return(c)
    /\ UNCHANGED <<outside, server, process, launch, cut>>

\* unreachable: reap our own server, then start one or wait for the one we have.
Unreachable(c) ==
    /\ client[c] = "probe" /\ ~outside
    /\ process' = IF process # 0 /\ server[process] # "alive" THEN 0 ELSE process
    /\ \/ process' # 0 /\ To(c, "poll") /\ UNCHANGED <<server, launch>>
       \/ process' = 0 /\ Return(c) /\ UNCHANGED <<server, launch>>   \* next_start
       \/ /\ process' = 0
          /\ \E p \in Servers :
                /\ server[p] = "none" /\ \A q \in 1 .. p - 1 : server[q] # "none"
                /\ server' = [server EXCEPT ![p] = "starting"]
                /\ launch' = [launch EXCEPT ![c] = p]
          /\ To(c, "launch")
    /\ UNCHANGED <<outside, cut>>

\* The `launching` task: the program is missing, or there is a new process.
LaunchEnds(p) ==
    /\ server[p] = "starting"
    /\ \E how \in {"alive", "exited"} : server' = [server EXCEPT ![p] = how]
    /\ UNCHANGED <<outside, process, client, launch, cut>>

\* The caller learns what it started; one that was cancelled ends here.
Launched(c) ==
    /\ client[c] \in {"launch", "rescue"} /\ server[launch[c]] # "starting"
    /\ process' = IF Gone(launch[c]) THEN 0 ELSE launch[c]
    /\ launch' = [launch EXCEPT ![c] = 0]
    /\ IF client[c] = "rescue" THEN To(c, "gone")
       ELSE IF process' # 0 THEN To(c, "poll") ELSE Return(c)
    /\ UNCHANGED <<outside, server, cut>>

\* Twelve probes, half a second apart, or fewer when the process is gone.
Polled(c) ==
    /\ client[c] = "poll"
    /\ \/ Serving /\ Ready(c)
       \/ Return(c)
    /\ UNCHANGED <<outside, server, process, launch, cut>>

\* preload, if five minutes have passed; its errors are caught in _maintain.
Warmed(c) ==
    /\ client[c] = "warm" /\ To(c, "sleep")
    /\ UNCHANGED <<outside, server, process, launch, cut>>

\* Mutant: the caller that is cancelled does not wait for the process it starts.
CancelAtOnce(c) ==
    /\ To(c, "gone")
    /\ launch' = [launch EXCEPT ![c] = 0]
    /\ UNCHANGED <<outside, server, process, cut>>

\* What cancel() makes of a caller.  The first one is held back until the process
\* is known.  A second one goes to the `launching` task: asyncio ends a process it is
\* still creating, but one that is there already has no owner then.
CancelClient(c) ==
    IF client[c] = "launch"
      THEN To(c, "rescue") /\ UNCHANGED <<outside, server, process, launch, cut>>
      ELSE /\ To(c, "gone")
           /\ launch' = [launch EXCEPT ![c] = 0]
           /\ IF client[c] # "rescue" THEN UNCHANGED <<server, cut>>
              ELSE IF server[launch[c]] = "starting"
                THEN server' = [server EXCEPT ![launch[c]] = "exited"] /\ UNCHANGED cut
                ELSE cut' = cut \cup {launch[c]} /\ UNCHANGED server
           /\ UNCHANGED <<outside, process>>

ServerExits(p) ==
    /\ server[p] = "alive" /\ server' = [server EXCEPT ![p] = "exited"]
    /\ UNCHANGED <<outside, process, client, launch, cut>>

OutsideChanges ==
    /\ outside' = ~outside
    /\ UNCHANGED <<server, process, client, launch, cut>>

RuntimeOthers ==
    \/ \E c \in Clients :
          \/ TakeLock(c) \/ ProbeAnswers(c) \/ Unreachable(c) \/ Launched(c) \/ Polled(c)
          \/ Warmed(c)
    \/ \E p \in Servers : LaunchEnds(p) \/ ServerExits(p)
    \/ OutsideChanges

=============================================================================
