----------------------------- MODULE NetworkGuard -----------------------------
(***************************************************************************)
(* Whether the computer is still on the network a scan was authorised for:  *)
(* NetworkGuard.check, FreshNetworkReader and windows_connections in         *)
(* src/app/scanner/network.py.                                              *)
(*                                                                           *)
(* Each scan has a guard, asked by its monitor and by its workers.  Three     *)
(* layers share a read that is under way and never keep one: callers of one  *)
(* guard, guards of one reader, and threads of one process that query the     *)
(* adapters.  The two layers with a generation counter compare it with the   *)
(* value they saw first; a flag "it has moved since" stands for that.        *)
(*                                                                           *)
(* An observation is the interface's address and then the adapter rows; the  *)
(* network may change between the two.  The status page queries the rows in a *)
(* thread of its own.                                                        *)
(***************************************************************************)
EXTENDS Naturals, FiniteSets

CONSTANTS
    Callers,    \* the tasks that ask a guard
    Guards,
    Of          \* the guard a caller asks

ASSUME CallersAssumption == Of \in [Callers -> Guards]

VARIABLES
    world,      \* the network the computer is on, see Worlds
    asked,      \* where each caller's check is
    moved,      \* _generation of its guard has moved since the caller asked
    got,        \* what its read delivered
    failed,     \* NetworkGuard.failed
    late,       \* more than 45 s have passed since last_tick
    reader,     \* FreshNetworkReader's pending task and its thread
    address,    \* what that thread read first
    status,     \* the thread of the status page
    passed,     \* a query has ended since the thread's call of windows_connections
    rows,       \* _windows_query_result or _windows_query_error
    lost,       \* history: the network was gone when the caller asked, no read in flight
    slept       \* history: a pause of more than 45 s in the life of the guard

netCallers == <<asked, moved, got>>
netGuards == <<failed, late>>
netThreads == <<reader, address, status, passed, rows>>
netHistory == <<lost, slept>>
netVars == <<world, netCallers, netGuards, netThreads, netHistory>>

Threads == {"reader", "status"}

\* "twin" is another network that gives the computer the same address.
Worlds == {"home", "twin", "away"}

AddressIn(w) == IF w = "away" THEN "away" ELSE "home"

NetInit ==
    /\ world = "home"
    /\ asked = [c \in Callers |-> "idle"]
    /\ moved = [c \in Callers |-> FALSE]
    /\ got = [c \in Callers |-> "none"]
    /\ failed = [g \in Guards |-> FALSE] /\ late = [g \in Guards |-> FALSE]
    /\ reader = "idle" /\ address = "none" /\ status = "idle"
    /\ passed = [t \in Threads |-> FALSE] /\ rows = "none"
    /\ lost = [c \in Callers |-> FALSE] /\ slept = [g \in Guards |-> FALSE]

-----------------------------------------------------------------------------
(* NetworkGuard.check *)

Holding == {"read", "resume"}

Held(g) == \E c \in Callers : Of[c] = g /\ asked[c] \in Holding

\* Nothing that began earlier can still answer a caller of this guard.
Quiet(g) == reader = "idle" /\ status = "idle" /\ ~Held(g)

Ask(c) ==
    /\ asked[c] \in {"idle", "accepted"}
    /\ asked' = [asked EXCEPT ![c] = "lock"]
    /\ moved' = [moved EXCEPT ![c] = FALSE]
    /\ got' = [got EXCEPT ![c] = "none"]
    /\ lost' = [lost EXCEPT ![c] = world # "home" /\ Quiet(Of[c])]
    /\ UNCHANGED <<world, netGuards, netThreads, slept>>

\* The call of check is over, and what it kept with it; m says whose generation
\* has moved.
Ends(c, how, m) ==
    /\ asked' = [asked EXCEPT ![c] = how]
    /\ moved' = [m EXCEPT ![c] = FALSE]
    /\ got' = [got EXCEPT ![c] = "none"]
    /\ lost' = [lost EXCEPT ![c] = FALSE]

Accept(c) == Ends(c, "accepted", moved)

\* _fail, or the answer of a guard that has failed: the scan stops.
Refuse(c) ==
    /\ Ends(c, "refused", moved)
    /\ failed' = [failed EXCEPT ![Of[c]] = TRUE]

\* FreshNetworkReader.read: join the pending task, or create it.
JoinRead(c) ==
    /\ asked' = [asked EXCEPT ![c] = "read"]
    /\ UNCHANGED <<moved, got, lost>>
    /\ reader' = IF reader = "idle" THEN "queued" ELSE reader

\* Mutant: an overlapping read is shared before the pause is looked at.
EnterSharing(c) ==
    /\ asked[c] = "lock" /\ ~Held(Of[c])
    /\ \/ /\ failed[Of[c]] \/ (late[Of[c]] /\ ~moved[c])
          /\ Refuse(c) /\ UNCHANGED <<late, reader>>
       \/ /\ ~failed[Of[c]] /\ moved[c]
          /\ Accept(c) /\ UNCHANGED <<netGuards, reader>>
       \/ /\ ~failed[Of[c]] /\ ~late[Of[c]] /\ ~moved[c]
          /\ JoinRead(c)
          /\ late' = [late EXCEPT ![Of[c]] = FALSE] /\ UNCHANGED failed
    /\ UNCHANGED <<world, address, status, passed, rows, slept>>

\* The guard's lock is taken: an answer at once, or a read.
Enter(c) ==
    /\ asked[c] = "lock" /\ ~Held(Of[c])
    /\ \/ /\ failed[Of[c]] \/ late[Of[c]]
          /\ Refuse(c) /\ UNCHANGED <<late, reader>>
       \/ /\ ~failed[Of[c]] /\ ~late[Of[c]] /\ moved[c]
          /\ Accept(c) /\ UNCHANGED <<netGuards, reader>>
       \/ /\ ~failed[Of[c]] /\ ~late[Of[c]] /\ ~moved[c]
          /\ JoinRead(c)
          /\ late' = [late EXCEPT ![Of[c]] = FALSE] /\ UNCHANGED failed
    /\ UNCHANGED <<world, address, status, passed, rows, slept>>

\* The read has ended; its time is looked at again before its result.
Resume(c) ==
    /\ asked[c] = "resume"
    /\ IF got[c] = "home" /\ ~late[Of[c]]
         THEN /\ Ends(c, "accepted",
                       [d \in Callers |-> moved[d] \/ (Of[d] = Of[c] /\ asked[d] = "lock")])
              /\ UNCHANGED failed
         ELSE Refuse(c)
    /\ UNCHANGED <<world, late, netThreads, slept>>

\* A cancelled caller leaves its read to those who share it.
Leave(c) ==
    /\ asked[c] \in {"lock", "read", "resume"}
    /\ Ends(c, "idle", moved)
    /\ UNCHANGED <<world, netGuards, netThreads, slept>>

-----------------------------------------------------------------------------
(* connection_snapshot in the reader's thread, windows_connections in both *)

At(t) == IF t = "reader" THEN reader ELSE status

Step(t, to) == IF t = "reader" THEN reader' = to /\ UNCHANGED status
                               ELSE status' = to /\ UNCHANGED reader

\* nmap_interface_diagnostic, then the call of windows_connections.
ReadAddress ==
    /\ reader = "queued"
    /\ \/ address' = AddressIn(world) /\ reader' = "ask"
       \/ address' = "failed" /\ reader' = "over"
    /\ passed' = [passed EXCEPT !["reader"] = FALSE]
    /\ UNCHANGED <<world, netCallers, netGuards, status, rows, netHistory>>

StatusCalls ==
    /\ status = "idle" /\ status' = "ask"
    /\ passed' = [passed EXCEPT !["status"] = FALSE]
    /\ UNCHANGED <<world, netCallers, netGuards, reader, address, rows, netHistory>>

Querying == \E t \in Threads : At(t) = "query"

\* Mutant: an earlier result is good enough.
SharesCached(t) == passed[t] \/ rows = "home"

\* _windows_query_generation is not the one the call began with.
Shares(t) == passed[t]

Over(t) == IF t = "reader" THEN "over" ELSE "idle"

\* What the reader's thread returns, or raises.
Observed(r) == IF "failed" \in {address, r} THEN "failed"
               ELSE IF address = "home" /\ r = "home" THEN "home" ELSE "away"

\* The process lock is taken: the result of a query that ended meanwhile, or a query.
Acquire(t) ==
    /\ At(t) = "ask" /\ ~Querying
    /\ Step(t, IF Shares(t) THEN Over(t) ELSE "query")
    /\ address' = IF t = "reader" /\ Shares(t) THEN Observed(rows) ELSE address
    /\ passed' = [passed EXCEPT ![t] = FALSE]
    /\ UNCHANGED <<world, netCallers, netGuards, rows, netHistory>>

\* acquire(timeout=10)
Busy(t) ==
    /\ At(t) = "ask" /\ Querying
    /\ Step(t, Over(t))
    /\ address' = IF t = "reader" THEN "failed" ELSE address
    /\ passed' = [passed EXCEPT ![t] = FALSE]
    /\ UNCHANGED <<world, netCallers, netGuards, rows, netHistory>>

Query(t) ==
    /\ At(t) = "query"
    /\ rows' \in {world, "failed"}
    /\ Step(t, Over(t))
    /\ address' = IF t = "reader" THEN Observed(rows') ELSE address
    /\ passed' = [s \in Threads |-> At(s) = "ask"]
    /\ UNCHANGED <<world, netCallers, netGuards, netHistory>>

\* The event loop ends the task and wakes everyone who waits for it.
Deliver ==
    /\ reader = "over" /\ reader' = "idle"
    /\ asked' = [c \in Callers |-> IF asked[c] = "read" THEN "resume" ELSE asked[c]]
    /\ got' = [c \in Callers |-> IF asked[c] = "read" THEN address ELSE got[c]]
    /\ address' = "none"
    /\ UNCHANGED <<world, moved, netGuards, status, passed, rows, netHistory>>

-----------------------------------------------------------------------------
(* The world *)

Change ==
    /\ world' \in Worlds
    /\ lost' = [c \in Callers |-> lost[c] /\ world' # "home"]
    /\ UNCHANGED <<netCallers, netGuards, netThreads, slept>>

\* The computer sleeps, or nothing asks the guard for too long.
Pause(g) ==
    /\ ~failed[g]
    /\ late' = [late EXCEPT ![g] = TRUE]
    /\ slept' = [slept EXCEPT ![g] = TRUE]
    /\ UNCHANGED <<world, netCallers, failed, netThreads, lost>>

NetCalls ==
    \/ \E c \in Callers : Enter(c) \/ Resume(c)
    \/ ReadAddress \/ (\E t \in Threads : Acquire(t) \/ Busy(t) \/ Query(t)) \/ Deliver

NetUnrest == StatusCalls \/ Change \/ \E g \in Guards : Pause(g)

=============================================================================
