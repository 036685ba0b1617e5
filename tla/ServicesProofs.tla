---------------------------- MODULE ServicesProofs ----------------------------
(***************************************************************************)
(* Proofs about Services, for any callers, guards, AI tasks and launches.   *)
(*                                                                          *)
(* The guard: a caller that asks while nothing is under way and the network *)
(* is gone can be answered only by what began after it, and as long as the  *)
(* network stays away that is never "home", in the reader's thread, in a    *)
(* query that is shared, nor in the answer of another caller (FreshInv).    *)
(* The fact that a guard was late is lost only to its failure (PauseInv).   *)
(* The servers: one caller at a time is inside the lock, so self.process is  *)
(* never written over while it runs, and a server that runs is known there, *)
(* is being started by a caller that still waits for it, or was cut off     *)
(* (RuntimeInv).  The end of the app takes each of these away in an order   *)
(* in which the next stage cannot bring it back (StageInv); what an AI task *)
(* in no registry brings back was not there when the runtime was closed     *)
(* (UnseenInv).                                                             *)
(***************************************************************************)
EXTENDS Services, TLAPS

NetType ==
    /\ world \in Worlds
    /\ asked \in [Callers -> {"idle", "lock", "read", "resume", "accepted", "refused"}]
    /\ moved \in [Callers -> BOOLEAN] /\ lost \in [Callers -> BOOLEAN]
    /\ got \in [Callers -> {"none", "home", "away", "failed"}]
    /\ failed \in [Guards -> BOOLEAN] /\ late \in [Guards -> BOOLEAN] /\ slept \in [Guards -> BOOLEAN]
    /\ reader \in {"idle", "queued", "ask", "query", "over"}
    /\ status \in {"idle", "ask", "query"}
    /\ address \in {"none", "home", "away", "failed"} /\ rows \in Worlds \cup {"none", "failed"}
    /\ passed \in [Threads -> BOOLEAN]

RuntimeType ==
    /\ outside \in BOOLEAN
    /\ server \in [Servers -> {"none", "starting", "alive", "exited"}]
    /\ process \in {0} \cup Servers /\ launch \in [Clients -> {0} \cup Servers]
    /\ client \in [Clients -> Inside \cup {"off", "lock", "sleep", "gone"}]
    /\ cut \subseteq Servers

EndType ==
    /\ setup \in Setups /\ halt \in BOOLEAN
    /\ job \in [Guards -> {"collect", "decided", "wording", "gone"}]
    /\ stage \in {"up", "scans", "tasks", "reads", "server", "ending", "closed"}
    /\ loose \subseteq Guards /\ unseen \subseteq Servers

\* A guard keeps that it slept until it has failed, and none fails under its lock.
PauseInv ==
    /\ \A g \in Guards : slept[g] => late[g] \/ failed[g]
    /\ \A c \in Callers : asked[c] \in Holding => ~failed[Of[c]]
    /\ \A c, d \in Callers :
          asked[c] \in Holding /\ asked[d] \in Holding /\ Of[c] = Of[d] => c = d

\* Nothing is on its way that could tell a caller, who asked when the network had
\* gone, that it is there.
FreshInv ==
    \A c \in Callers : lost[c] =>
        /\ world # "home" /\ ~moved[c]
        /\ \A d \in Callers : Of[d] = Of[c] /\ asked[d] = "resume" => got[d] # "home"
        /\ reader = "over" => address # "home"
        /\ reader = "ask" /\ passed["reader"] => rows # "home"

NetInv == NetType /\ PauseInv /\ FreshInv

Starting == {"launch", "rescue"}

RuntimeInv ==
    /\ RuntimeType
    /\ \A c, d \in Clients : client[c] \in Inside /\ client[d] \in Inside => c = d
    /\ \A c \in Clients : launch[c] # 0 <=> client[c] \in Starting
    /\ \A c \in Clients : client[c] \in Starting => process = 0
    /\ process # 0 => server[process] \in {"alive", "exited"}
    /\ \A p \in Servers : server[p] \in {"starting", "alive"} =>
          p = process \/ p \in cut \cup unseen \/ \E c \in Clients : launch[c] = p

Closing == {"server", "ending", "closed"}

StageInv ==
    /\ EndType
    /\ \A c \in Callers : asked[c] \in {"lock", "read", "resume"} => job[Of[c]] = "collect"
    /\ \A g \in Guards : g \in setup.retries => job[g] \in {"wording", "gone"}
    /\ stage \in {"tasks", "reads"} \cup Closing => \A g \in Guards : job[g] \in {"wording", "gone"}
    /\ stage \in {"reads"} \cup Closing => \A g \in Tasks \ loose : client[g] \in {"off", "gone"}
    /\ stage \in Closing => reader = "idle"
    /\ stage \in {"ending", "closed"} => client[Maintain] \in {"off", "gone"}

\* Once the runtime is being closed, the servers that run are those it missed: with
\* nobody at work it missed none, and else also those that are not there yet.
UnseenInv ==
    /\ stage \notin {"ending", "closed"} => unseen = {}
    /\ stage \in {"ending", "closed"} =>
        /\ \A p \in Servers : server[p] \in {"starting", "alive"} => p \in cut \cup unseen
        /\ \/ \A d \in Clients : client[d] \in {"off", "gone"}
           \/ \A p \in Servers : server[p] = "none" => p \in unseen

Inv == NetInv /\ RuntimeInv /\ StageInv /\ UnseenInv

-----------------------------------------------------------------------------
(* The guards and the reader *)

LEMMA NetInitInv == NetInit => NetInv
BY CallersAssumption DEF NetInit, NetInv, NetType, PauseInv, FreshInv, Worlds, Threads, Holding

LEMMA AskKeepsNet == ASSUME NetInv, NEW c \in Callers, Ask(c) PROVE NetInv'
<1>1. NetType'
      BY DEF NetInv, NetType, Ask, netGuards, netThreads, Quiet
<1>2. PauseInv'
      BY CallersAssumption DEF NetInv, NetType, PauseInv, Ask, netGuards, Holding
<1>3. FreshInv'
  <2> SUFFICES ASSUME NEW e \in Callers, lost'[e]
               PROVE  /\ world' # "home" /\ ~moved'[e]
                      /\ \A d \in Callers : Of[d] = Of[e] /\ asked'[d] = "resume" => got'[d] # "home"
                      /\ reader' = "over" => address' # "home"
                      /\ reader' = "ask" /\ passed'["reader"] => rows' # "home"
      BY DEF FreshInv
  <2>1. CASE e = c
        BY <2>1 DEF NetInv, NetType, Ask, netThreads, Quiet, Held, Holding
  <2>2. CASE e # c
        BY <2>2 DEF NetInv, NetType, FreshInv, Ask, netThreads
  <2> QED BY <2>1, <2>2
<1> QED BY <1>1, <1>2, <1>3 DEF NetInv

\* A check that is over leaves what is on its way for the others.
LEMMA EndsKeepsNet ==
    ASSUME NetInv, NEW c \in Callers, NEW how \in {"idle", "accepted", "refused"},
           NEW m \in [Callers -> BOOLEAN], Ends(c, how, m),
           \A d \in Callers : lost[d] => ~m[d] \/ d = c,
           UNCHANGED <<world, netThreads, slept, late>>, failed' \in [Guards -> BOOLEAN],
           \A g \in Guards : failed[g] => failed'[g],
           \A d \in Callers : asked[d] \in Holding /\ d # c => failed'[Of[d]] = failed[Of[d]]
    PROVE  NetInv'
<1>1. /\ asked' = [asked EXCEPT ![c] = how] /\ moved' = [m EXCEPT ![c] = FALSE]
      /\ got' = [got EXCEPT ![c] = "none"] /\ lost' = [lost EXCEPT ![c] = FALSE]
      BY DEF Ends
<1>2. NetType'
      BY <1>1 DEF NetInv, NetType, netThreads
<1>3. PauseInv'
      BY <1>1, CallersAssumption DEF NetInv, NetType, PauseInv, Holding
<1>4. FreshInv'
      BY <1>1 DEF NetInv, NetType, FreshInv, netThreads
<1> QED BY <1>2, <1>3, <1>4 DEF NetInv

LEMMA RefuseKeepsNet ==
    ASSUME NetInv, NEW c \in Callers, Refuse(c), UNCHANGED <<world, netThreads, slept, late>>,
           \A d \in Callers : asked[d] \in Holding /\ Of[d] = Of[c] => d = c
    PROVE  NetInv'
<1>1. Ends(c, "refused", moved) /\ failed' = [failed EXCEPT ![Of[c]] = TRUE] /\ Of[c] \in Guards
      BY CallersAssumption DEF Refuse
<1>2. moved \in [Callers -> BOOLEAN] /\ \A d \in Callers : lost[d] => ~moved[d]
      BY DEF NetInv, NetType, FreshInv
<1>3. /\ failed' \in [Guards -> BOOLEAN] /\ \A g \in Guards : failed[g] => failed'[g]
      /\ \A d \in Callers : asked[d] \in Holding /\ d # c => failed'[Of[d]] = failed[Of[d]]
      BY <1>1, CallersAssumption DEF NetInv, NetType
<1> QED BY <1>1, <1>2, <1>3, EndsKeepsNet

LEMMA EnterKeepsNet == ASSUME NetInv, NEW c \in Callers, Enter(c) PROVE NetInv'
<1>1. /\ asked[c] = "lock" /\ Of[c] \in Guards /\ UNCHANGED <<world, address, status, passed, rows, slept>>
      /\ \A d \in Callers : Of[d] = Of[c] => asked[d] \notin Holding
      BY CallersAssumption DEF Enter, Held
<1>2. moved \in [Callers -> BOOLEAN] /\ (\A d \in Callers : lost[d] => ~moved[d])
      /\ failed \in [Guards -> BOOLEAN]
      BY DEF NetInv, NetType, FreshInv
<1>3. ASSUME Refuse(c), UNCHANGED <<late, reader>> PROVE NetInv'
      BY <1>1, <1>3, RefuseKeepsNet DEF netThreads
<1>4. ASSUME Accept(c), UNCHANGED <<netGuards, reader>> PROVE NetInv'
      BY <1>1, <1>2, <1>4, EndsKeepsNet DEF Accept, netThreads, netGuards
<1>5. ASSUME ~failed[Of[c]], ~late[Of[c]], ~moved[c], JoinRead(c),
             late' = [late EXCEPT ![Of[c]] = FALSE], UNCHANGED failed
      PROVE  NetInv'
  <2>1. NetType' /\ late' = late
        BY <1>1, <1>5 DEF NetInv, NetType, JoinRead
  <2>2. PauseInv'
        BY <1>1, <1>5, <2>1, CallersAssumption DEF NetInv, NetType, PauseInv, JoinRead, Holding
  <2>3. FreshInv'
        BY <1>1, <1>5 DEF NetInv, NetType, FreshInv, JoinRead
  <2> QED BY <2>1, <2>2, <2>3 DEF NetInv
<1> QED BY <1>3, <1>4, <1>5 DEF Enter

LEMMA ResumeKeepsNet == ASSUME NetInv, NEW c \in Callers, Resume(c) PROVE NetInv'
<1>1. asked[c] = "resume" /\ UNCHANGED <<world, late, netThreads, slept>>
      BY DEF Resume
<1>2. \A d \in Callers : asked[d] \in Holding /\ Of[d] = Of[c] => d = c
      BY <1>1 DEF NetInv, PauseInv, Holding
<1>3. ASSUME Refuse(c) PROVE NetInv'
      BY <1>1, <1>2, <1>3, RefuseKeepsNet
<1> DEFINE m == [d \in Callers |-> moved[d] \/ (Of[d] = Of[c] /\ asked[d] = "lock")]
<1>4. ASSUME got[c] = "home", Ends(c, "accepted", m), UNCHANGED failed PROVE NetInv'
  <2>1. m \in [Callers -> BOOLEAN]
        BY DEF NetInv, NetType
  <2>2. \A d \in Callers : lost[d] => ~m[d]
        BY <1>1, <1>4 DEF NetInv, FreshInv
  <2> HIDE DEF m
  <2>3. failed' \in [Guards -> BOOLEAN]
        BY <1>4 DEF NetInv, NetType
  <2> QED BY <1>1, <1>4, <2>1, <2>2, <2>3, EndsKeepsNet
<1> QED BY <1>3, <1>4 DEF Resume

LEMMA LeaveKeepsNet == ASSUME NetInv, NEW c \in Callers, Leave(c) PROVE NetInv'
<1>1. Ends(c, "idle", moved) /\ UNCHANGED <<world, netGuards, netThreads, slept>>
      BY DEF Leave
<1>2. moved \in [Callers -> BOOLEAN] /\ failed \in [Guards -> BOOLEAN]
      /\ \A d \in Callers : lost[d] => ~moved[d]
      BY DEF NetInv, NetType, FreshInv
<1> QED BY <1>1, <1>2, EndsKeepsNet DEF netGuards

\* A step of a thread: the guards and their callers are as they were.
LEMMA ThreadKeepsNet ==
    ASSUME NetInv, UNCHANGED <<world, netCallers, netGuards, netHistory>>, NetType',
           \A c \in Callers : lost[c] =>
              /\ reader' = "over" => address' # "home"
              /\ reader' = "ask" /\ passed'["reader"] => rows' # "home"
    PROVE  NetInv'
<1>1. UNCHANGED <<world, asked, moved, got, failed, late, lost, slept>>
      BY DEF netCallers, netGuards, netHistory
<1>2. PauseInv'
      BY <1>1 DEF NetInv, PauseInv
<1>3. FreshInv'
      BY <1>1 DEF NetInv, FreshInv
<1> QED BY <1>2, <1>3 DEF NetInv

LEMMA ReadAddressKeepsNet == ASSUME NetInv, ReadAddress PROVE NetInv'
<1>1. NetType'
      BY DEF NetInv, NetType, ReadAddress, netCallers, netGuards, netHistory, AddressIn, Threads
<1>2. reader' # "ask" \/ ~passed'["reader"]
      BY DEF NetInv, NetType, ReadAddress, Threads
<1>3. reader' = "over" => address' = "failed"
      BY DEF ReadAddress
<1> QED BY <1>1, <1>2, <1>3, ThreadKeepsNet DEF ReadAddress

LEMMA StatusCallsKeepsNet == ASSUME NetInv, StatusCalls PROVE NetInv'
<1>1. NetType'
      BY DEF NetInv, NetType, StatusCalls, netCallers, netGuards, netHistory, Threads
<1>2. UNCHANGED <<reader, address, rows>> /\ passed'["reader"] = passed["reader"]
      BY DEF NetInv, NetType, StatusCalls, Threads
<1>3. \A c \in Callers : lost[c] =>
          /\ reader' = "over" => address' # "home"
          /\ reader' = "ask" /\ passed'["reader"] => rows' # "home"
      BY <1>2 DEF NetInv, FreshInv
<1> QED BY <1>1, <1>3, ThreadKeepsNet DEF StatusCalls

LEMMA ObservedType == ASSUME NetInv, NEW r PROVE Observed(r) \in {"home", "away", "failed"}
BY DEF Observed

\* What a thread does in windows_connections.
LEMMA QueryKeepsNet ==
    ASSUME NetInv, NEW t \in Threads, Acquire(t) \/ Busy(t) \/ Query(t)
    PROVE  NetInv'
<1>1. UNCHANGED <<world, netCallers, netGuards, netHistory>>
      BY DEF Acquire, Busy, Query
<1>2. /\ rows' \in Worlds \cup {"none", "failed"} /\ passed' \in [Threads -> BOOLEAN]
      /\ \A c \in Callers : lost[c] => rows' # "home" \/ rows' = rows
      BY DEF NetInv, NetType, FreshInv, Acquire, Busy, Query
<1>3. CASE t = "reader"
  <2>1. UNCHANGED status /\ reader' \in {"query", "over"}
        BY <1>3 DEF Acquire, Busy, Query, Step, Over
  <2>2. address' \in {address, "failed", Observed(rows), Observed(rows')}
        BY <1>3 DEF Acquire, Busy, Query
  <2>3. NetType'
        BY <1>1, <1>2, <2>1, <2>2, ObservedType DEF NetInv, NetType, netCallers, netGuards, netHistory
  <2>4. ASSUME NEW c \in Callers, lost[c], reader' = "over" PROVE address' # "home"
    <3>1. CASE Acquire(t)
      <4>1. Shares(t) /\ address' = Observed(rows) /\ reader = "ask"
            BY <1>3, <2>4, <3>1 DEF Acquire, Step, At
      <4> QED BY <1>3, <2>4, <4>1 DEF NetInv, FreshInv, Shares, Observed
    <3>2. CASE Busy(t)
          BY <1>3, <3>2 DEF Busy
    <3>3. CASE Query(t)
          BY <1>3, <2>4, <3>3 DEF NetInv, FreshInv, Query, Observed
    <3> QED BY <3>1, <3>2, <3>3
  <2> QED BY <1>1, <2>1, <2>3, <2>4, ThreadKeepsNet
<1>4. CASE t = "status"
  <2>1. UNCHANGED <<reader, address>> /\ status' \in {"query", "idle"}
        BY <1>4 DEF Acquire, Busy, Query, Step, Over
  <2>2. NetType'
        BY <1>1, <1>2, <2>1 DEF NetInv, NetType, netCallers, netGuards, netHistory
  <2>3. ASSUME NEW c \in Callers, lost[c], reader' = "ask", passed'["reader"] PROVE rows' # "home"
    <3>1. CASE Query(t)
          BY <2>3, <3>1 DEF NetInv, FreshInv, Query
    <3>2. CASE Acquire(t) \/ Busy(t)
          BY <1>4, <2>1, <2>3, <3>2 DEF NetInv, NetType, FreshInv, Acquire, Busy, Threads
    <3> QED BY <3>1, <3>2
  <2>4. \A c \in Callers : lost[c] /\ reader' = "over" => address' # "home"
        BY <2>1 DEF NetInv, FreshInv
  <2> QED BY <1>1, <2>2, <2>3, <2>4, ThreadKeepsNet
<1> QED BY <1>3, <1>4 DEF Threads

LEMMA DeliverKeepsNet == ASSUME NetInv, Deliver PROVE NetInv'
<1>1. NetType'
      BY DEF NetInv, NetType, Deliver, netGuards, netHistory
<1>2. PauseInv'
  <2>1. \A c \in Callers : asked'[c] \in Holding => asked[c] \in Holding
        BY DEF Deliver, Holding
  <2> QED BY <2>1 DEF NetInv, PauseInv, Deliver, netGuards, netHistory
<1>3. FreshInv'
      BY DEF NetInv, FreshInv, Deliver, netHistory
<1> QED BY <1>1, <1>2, <1>3 DEF NetInv

LEMMA ChangeKeepsNet == ASSUME NetInv, Change PROVE NetInv'
<1>1. UNCHANGED <<asked, moved, got, failed, late, reader, address, status, passed, rows, slept>>
      BY DEF Change, netCallers, netGuards, netThreads
<1>2. NetType' /\ PauseInv'
      BY <1>1 DEF NetInv, NetType, PauseInv, Change
<1>3. FreshInv'
      BY <1>1 DEF NetInv, FreshInv, Change
<1> QED BY <1>2, <1>3 DEF NetInv

LEMMA PauseKeepsNet == ASSUME NetInv, NEW g \in Guards, Pause(g) PROVE NetInv'
<1>1. UNCHANGED <<world, asked, moved, got, failed, reader, address, status, passed, rows, lost>>
      BY DEF Pause, netCallers, netThreads
<1>2. NetType' /\ PauseInv'
      BY <1>1 DEF NetInv, NetType, PauseInv, Pause
<1>3. FreshInv'
      BY <1>1 DEF NetInv, FreshInv
<1> QED BY <1>2, <1>3 DEF NetInv

LEMMA NetStepKeepsNet == ASSUME NetInv, NetCalls \/ NetUnrest PROVE NetInv'
BY EnterKeepsNet, ResumeKeepsNet, ReadAddressKeepsNet, QueryKeepsNet, DeliverKeepsNet,
   StatusCallsKeepsNet, ChangeKeepsNet, PauseKeepsNet DEF NetCalls, NetUnrest

LEMMA CollectedKeepsNet == ASSUME NetInv, NEW g \in Guards, Collected(g) PROVE NetInv'
<1>1. UNCHANGED <<world, failed, late, reader, address, status, passed, rows, slept>>
      BY DEF Collected, netGuards, netThreads
<1>2. NetType'
      BY <1>1 DEF NetInv, NetType, Collected
<1>3. PauseInv'
      BY <1>1 DEF NetInv, PauseInv, Collected, Holding
<1>4. FreshInv'
      BY <1>1 DEF NetInv, FreshInv, Collected
<1> QED BY <1>2, <1>3, <1>4 DEF NetInv

LEMMA NextNet == ASSUME NetInv, [Next]_vars PROVE NetInv'
<1>1. CASE UNCHANGED netVars
      BY <1>1 DEF netVars, netCallers, netGuards, netThreads, netHistory, NetInv, NetType, PauseInv, FreshInv
<1>2. CASE NetStep
      BY <1>2, NetStepKeepsNet DEF NetStep
<1>3. ASSUME NEW c \in Callers, Asks(c) \/ WorkerCancelled(c) PROVE NetInv'
      BY <1>3, AskKeepsNet, LeaveKeepsNet DEF Asks, WorkerCancelled
<1>4. ASSUME NEW g \in Guards, Collected(g) PROVE NetInv'
      BY <1>4, CollectedKeepsNet
<1>5. ASSUME NEW g \in Guards, Explain(g) \/ Worded(g) \/ TaskCancelled(g) \/ Forget(g) PROVE UNCHANGED netVars
      BY <1>5 DEF Explain, Worded, TaskCancelled, Forget
<1>6. ASSUME RuntimeStep \/ Shutdown \/ ScansEnded \/ TasksEnded \/ ReadsEnded \/ ServerStopped \/ ServerEnded
                \/ (\E c \in Clients : WakeUp(c))
      PROVE  UNCHANGED netVars
      BY <1>6 DEF RuntimeStep, WakeUp, Shutdown, ScansEnded, TasksEnded, ReadsEnded, ServerStopped, ServerEnded
<1> QED BY <1>1, <1>2, <1>3, <1>4, <1>5, <1>6 DEF Next, vars

-----------------------------------------------------------------------------
(* The servers *)

\* A caller moves, and nothing it holds does.
LEMMA ClientMoves ==
    ASSUME RuntimeInv, NEW c \in Clients,
           NEW w \in Inside \cup {"off", "lock", "sleep", "gone"}, To(c, w),
           client[c] \notin Starting, w \notin Starting,
           w \in Inside => \A d \in Clients : client[d] \in Inside => d = c,
           UNCHANGED <<server, process, launch, cut, unseen>>, outside' \in BOOLEAN
    PROVE  RuntimeInv'
<1>1. /\ client' \in [Clients -> Inside \cup {"off", "lock", "sleep", "gone"}]
      /\ client'[c] = w /\ \A d \in Clients \ {c} : client'[d] = client[d]
      BY DEF To, RuntimeInv, RuntimeType
<1> QED BY <1>1 DEF RuntimeInv, RuntimeType

LEMMA ReturnMoves ==
    ASSUME RuntimeInv, NEW c \in Clients, client[c] \in Inside \ Starting,
           Return(c) \/ Ready(c), UNCHANGED <<outside, server, process, launch, cut, unseen>>
    PROVE  RuntimeInv'
<1>1. PICK w \in {"sleep", "gone", "warm"} : To(c, w)
      BY DEF Return, Ready
<1>2. w \in Inside \cup {"off", "lock", "sleep", "gone"} /\ w \notin Starting
      BY DEF Inside, Starting
<1>3. \A d \in Clients : client[d] \in Inside => d = c
      BY DEF RuntimeInv
<1>4. outside' \in BOOLEAN
      BY DEF RuntimeInv, RuntimeType
<1> QED BY <1>1, <1>2, <1>3, <1>4, ClientMoves

LEMMA UnreachableKeepsRuntime ==
    ASSUME RuntimeInv, NEW c \in Clients, Unreachable(c), UNCHANGED unseen
    PROVE  RuntimeInv'
<1>1. /\ client[c] = "probe" /\ UNCHANGED <<outside, cut>> /\ launch[c] = 0
      /\ \A d \in Clients \ {c} : client[d] \notin Inside /\ launch[d] = 0
      BY DEF Unreachable, RuntimeInv, Inside, Starting
<1>2. /\ process' \in {0} \cup Servers /\ process' \in {0, process}
      /\ process' # process => server[process] \notin {"starting", "alive"}
      BY DEF Unreachable, RuntimeInv, RuntimeType
<1>3. ASSUME UNCHANGED <<server, launch>>, NEW w \in {"poll", "sleep", "gone"}, To(c, w)
      PROVE  RuntimeInv'
  <2>1. /\ client' \in [Clients -> Inside \cup {"off", "lock", "sleep", "gone"}]
        /\ client'[c] = w /\ \A d \in Clients \ {c} : client'[d] = client[d]
        BY <1>3 DEF To, RuntimeInv, RuntimeType, Inside
  <2>2. \A d \in Clients : launch'[d] = 0 /\ client'[d] \notin Starting
        BY <1>1, <1>3, <2>1 DEF Starting, Inside
  <2> QED BY <1>1, <1>2, <1>3, <2>1, <2>2 DEF RuntimeInv, RuntimeType
<1>4. ASSUME process' = 0, To(c, "launch"), NEW p \in Servers, server[p] = "none",
             server' = [server EXCEPT ![p] = "starting"], launch' = [launch EXCEPT ![c] = p]
      PROVE  RuntimeInv'
  <2>1. /\ client' \in [Clients -> Inside \cup {"off", "lock", "sleep", "gone"}]
        /\ client'[c] = "launch" /\ \A d \in Clients \ {c} : client'[d] = client[d]
        BY <1>4 DEF To, RuntimeInv, RuntimeType, Inside
  <2>2. /\ launch' \in [Clients -> {0} \cup Servers] /\ launch'[c] = p /\ p # 0
        /\ \A d \in Clients \ {c} : launch'[d] = 0
        BY <1>1, <1>4 DEF RuntimeInv, RuntimeType, Servers
  <2>3. server' \in [Servers -> {"none", "starting", "alive", "exited"}]
        BY <1>4 DEF RuntimeInv, RuntimeType
  <2>4. RuntimeType'
        BY <1>1, <1>2, <2>1, <2>2, <2>3 DEF RuntimeInv, RuntimeType
  <2>5. \A q \in Servers : server'[q] \in {"starting", "alive"} =>
            q = process' \/ q \in cut' \cup unseen' \/ \E d \in Clients : launch'[d] = q
        BY <1>1, <1>2, <1>4, <2>2 DEF RuntimeInv, RuntimeType
  <2> QED BY <1>1, <1>4, <2>1, <2>2, <2>4, <2>5 DEF RuntimeInv, Starting, Inside
<1> QED BY <1>3, <1>4 DEF Unreachable, Return

LEMMA LaunchedKeepsRuntime ==
    ASSUME RuntimeInv, NEW c \in Clients, Launched(c), UNCHANGED unseen
    PROVE  RuntimeInv'
<1>1. /\ client[c] \in Starting /\ launch[c] \in Servers /\ launch[c] # 0
      /\ process = 0 /\ server[launch[c]] # "starting" /\ UNCHANGED <<outside, server, cut>>
      /\ \A d \in Clients \ {c} : client[d] \notin Inside /\ launch[d] = 0
      BY DEF Launched, RuntimeInv, RuntimeType, Starting, Inside
<1>2. /\ process' \in {0} \cup Servers
      /\ process' # 0 => server[process'] = "alive"
      /\ server[launch[c]] = "alive" => process' = launch[c]
      BY <1>1 DEF Launched, Gone
<1>3. PICK w \in {"gone", "poll", "sleep"} : To(c, w)
      BY DEF Launched, Return
<1>4. /\ client' \in [Clients -> Inside \cup {"off", "lock", "sleep", "gone"}]
      /\ client'[c] = w /\ \A d \in Clients \ {c} : client'[d] = client[d]
      BY <1>3 DEF To, RuntimeInv, RuntimeType, Inside
<1>5. launch' \in [Clients -> {0} \cup Servers] /\ \A d \in Clients : launch'[d] = 0
      BY <1>1 DEF Launched, RuntimeInv, RuntimeType
<1>6. RuntimeType'
      BY <1>1, <1>2, <1>4, <1>5 DEF RuntimeInv, RuntimeType
<1>7. ASSUME NEW p \in Servers, server'[p] \in {"starting", "alive"}
      PROVE  p = process' \/ p \in cut' \cup unseen'
  <2>1. p # 0 /\ (p = process \/ p \in cut \cup unseen \/ \E d \in Clients : launch[d] = p)
        BY <1>1, <1>7 DEF RuntimeInv, Servers
  <2>2. p \in cut \cup unseen \/ p = launch[c]
        BY <1>1, <2>1
  <2> QED BY <1>1, <1>2, <1>7, <2>2
<1>8. \A d \in Clients : client'[d] \notin Starting
      BY <1>1, <1>4 DEF Starting, Inside
<1> QED BY <1>1, <1>2, <1>4, <1>5, <1>6, <1>7, <1>8 DEF RuntimeInv

\* A process changes that is not the one a launch has handed over.
LEMMA ServerMoves ==
    ASSUME RuntimeInv, NEW p \in Servers, NEW how \in {"alive", "exited"},
           server[p] \in {"starting", "alive"}, server' = [server EXCEPT ![p] = how],
           UNCHANGED <<outside, process, client, launch, cut, unseen>>
    PROVE  RuntimeInv'
<1>1. RuntimeType'
      BY DEF RuntimeInv, RuntimeType
<1> QED BY <1>1 DEF RuntimeInv, RuntimeType

LEMMA CancelKeepsRuntime ==
    ASSUME RuntimeInv, NEW c \in Clients, CancelClient(c), UNCHANGED unseen
    PROVE  RuntimeInv'
<1>0. client[c] \in Inside => \A d \in Clients : client[d] \in Inside => d = c
      BY DEF RuntimeInv
<1>1. CASE client[c] = "launch"
  <2>1. To(c, "rescue") /\ UNCHANGED <<outside, server, process, launch, cut>>
        BY <1>1 DEF CancelClient
  <2>2. /\ client' \in [Clients -> Inside \cup {"off", "lock", "sleep", "gone"}]
        /\ client'[c] = "rescue" /\ \A d \in Clients \ {c} : client'[d] = client[d]
        BY <2>1 DEF To, RuntimeInv, RuntimeType, Inside
  <2>3. \A d \in Clients : /\ client'[d] \in Inside <=> client[d] \in Inside
                           /\ client'[d] \in Starting <=> client[d] \in Starting
        BY <1>1, <2>2 DEF Inside, Starting
  <2> QED BY <2>1, <2>2, <2>3 DEF RuntimeInv, RuntimeType
<1>2. CASE client[c] = "rescue"
  <2>1. /\ To(c, "gone") /\ launch' = [launch EXCEPT ![c] = 0] /\ UNCHANGED <<outside, process>>
        /\ launch[c] \in Servers /\ process = 0
        /\ \/ /\ server[launch[c]] = "starting" /\ UNCHANGED cut
              /\ server' = [server EXCEPT ![launch[c]] = "exited"]
           \/ UNCHANGED server /\ cut' = cut \cup {launch[c]}
        BY <1>2 DEF CancelClient, RuntimeInv, RuntimeType, Starting
  <2>2. /\ client' \in [Clients -> Inside \cup {"off", "lock", "sleep", "gone"}]
        /\ client'[c] = "gone" /\ \A d \in Clients \ {c} : client'[d] = client[d]
        BY <2>1 DEF To, RuntimeInv, RuntimeType
  <2>3. /\ launch' \in [Clients -> {0} \cup Servers] /\ launch'[c] = 0
        /\ \A d \in Clients \ {c} : launch'[d] = launch[d]
        BY <2>1 DEF RuntimeInv, RuntimeType
  <2>4. RuntimeType'
        BY <2>1, <2>2, <2>3 DEF RuntimeInv, RuntimeType
  <2>5. \A p \in Servers : server'[p] \in {"starting", "alive"} =>
            p \in cut' \cup unseen' \/ \E d \in Clients : launch'[d] = p
    <3> SUFFICES ASSUME NEW p \in Servers, server'[p] \in {"starting", "alive"}
                 PROVE  p \in cut' \cup unseen' \/ \E d \in Clients : launch'[d] = p
        OBVIOUS
    <3>1. server[p] \in {"starting", "alive"} /\ (p = launch[c] => p \in cut')
          BY <2>1 DEF RuntimeInv, RuntimeType
    <3>2. p = process \/ p \in cut \cup unseen \/ \E d \in Clients : launch[d] = p
          BY <3>1 DEF RuntimeInv
    <3> QED BY <2>1, <2>3, <3>1, <3>2 DEF Servers
  <2> QED BY <2>1, <2>2, <2>3, <2>4, <2>5 DEF RuntimeInv, Starting, Inside
<1>3. CASE client[c] \notin Starting
  <2>1. To(c, "gone") /\ launch' = [launch EXCEPT ![c] = 0]
        /\ UNCHANGED <<outside, process, server, cut>>
        BY <1>3 DEF CancelClient, Starting
  <2>2. launch' = launch /\ outside' \in BOOLEAN
        BY <1>3, <2>1 DEF RuntimeInv, RuntimeType
  <2> QED BY <1>3, <2>1, <2>2, ClientMoves DEF Starting, Inside
<1> QED BY <1>1, <1>2, <1>3 DEF Starting

LEMMA OthersKeepRuntime == ASSUME RuntimeInv, RuntimeOthers, UNCHANGED unseen PROVE RuntimeInv'
<1>1. ASSUME NEW c \in Clients, TakeLock(c) PROVE RuntimeInv'
  <2>1. /\ client[c] = "lock" /\ To(c, "probe") /\ UNCHANGED <<outside, server, process, launch, cut>>
        /\ \A d \in Clients : client[d] \notin Inside
        BY <1>1 DEF TakeLock, Locked
  <2>2. outside' \in BOOLEAN
        BY <2>1 DEF RuntimeInv, RuntimeType
  <2> QED BY <2>1, <2>2, ClientMoves DEF Inside, Starting
<1>2. ASSUME NEW c \in Clients, ProbeAnswers(c) \/ Polled(c) PROVE RuntimeInv'
      BY <1>2, ReturnMoves DEF ProbeAnswers, Polled, Inside, Starting
<1>3. ASSUME NEW c \in Clients, Warmed(c) PROVE RuntimeInv'
  <2>1. client[c] = "warm" /\ To(c, "sleep") /\ UNCHANGED <<outside, server, process, launch, cut>>
        BY <1>3 DEF Warmed
  <2>2. outside' \in BOOLEAN
        BY <2>1 DEF RuntimeInv, RuntimeType
  <2> QED BY <2>1, <2>2, ClientMoves DEF Inside, Starting
<1>4. ASSUME NEW p \in Servers, LaunchEnds(p) \/ ServerExits(p) PROVE RuntimeInv'
      BY <1>4, ServerMoves DEF LaunchEnds, ServerExits
<1>5. CASE OutsideChanges
      BY <1>5 DEF OutsideChanges, RuntimeInv, RuntimeType
<1> QED BY <1>1, <1>2, <1>3, <1>4, <1>5, UnreachableKeepsRuntime, LaunchedKeepsRuntime
        DEF RuntimeOthers

\* A caller that asks no more is not woken by another.
LEMMA OthersKeepClients ==
    ASSUME RuntimeInv, RuntimeOthers
    PROVE  \A d \in Clients : client[d] \in {"off", "gone"} => client'[d] = client[d]
<1>1. \A c, d \in Clients : \A w :
         client[d] \in {"off", "gone"} /\ client[c] \notin {"off", "gone"} /\ To(c, w)
            => client'[d] = client[d]
      BY DEF To, RuntimeInv, RuntimeType
<1>2. ASSUME NEW c \in Clients,
             TakeLock(c) \/ Warmed(c) \/ ProbeAnswers(c) \/ Polled(c) \/ Unreachable(c) \/ Launched(c)
      PROVE  client[c] \notin {"off", "gone"} /\ \E w : To(c, w)
      BY <1>2 DEF TakeLock, Warmed, ProbeAnswers, Polled, Unreachable, Launched, Ready, Return
<1>3. ASSUME (\E p \in Servers : LaunchEnds(p) \/ ServerExits(p)) \/ OutsideChanges
      PROVE  client' = client
      BY <1>3 DEF LaunchEnds, ServerExits, OutsideChanges
<1> QED BY <1>1, <1>2, <1>3 DEF RuntimeOthers

LEMMA CancelKeepsClients ==
    ASSUME RuntimeInv, NEW c \in Clients, CancelClient(c)
    PROVE  process' = process /\ \A d \in Clients \ {c} : client'[d] = client[d]
BY DEF CancelClient, To, RuntimeInv, RuntimeType

LEMMA CancelTasksKeepsRuntime ==
    ASSUME RuntimeInv, CancelTasks, UNCHANGED unseen
    PROVE  RuntimeInv'
<1>1. CASE UNCHANGED runtimeVars
      BY <1>1 DEF runtimeVars, RuntimeInv, RuntimeType
<1>2. ASSUME NEW g \in Known, CancelClient(g) PROVE RuntimeInv'
      BY <1>2, CancelKeepsRuntime DEF Known, Wording, Clients
<1> QED BY <1>1, <1>2 DEF CancelTasks

LEMMA ServerStoppedKeepsRuntime ==
    ASSUME RuntimeInv, StageInv, UnseenInv, ServerStopped
    PROVE  RuntimeInv'
<1>1. /\ server' = [p \in Servers |-> IF p = process THEN "exited" ELSE server[p]]
      /\ UNCHANGED <<outside, process, client, launch, cut>> /\ unseen = {}
      BY DEF ServerStopped, UnseenInv
<1>2. RuntimeType' /\ (process # 0 => server'[process] = "exited")
      BY <1>1 DEF RuntimeInv, RuntimeType
<1>3. \A p \in Servers : server'[p] \in {"starting", "alive"} =>
          p \in cut \/ \E c \in Clients : launch[c] = p
      BY <1>1 DEF RuntimeInv
<1> QED BY <1>1, <1>2, <1>3 DEF RuntimeInv

LEMMA ServerEndedKeepsRuntime == ASSUME RuntimeInv, UnseenInv, ServerEnded PROVE RuntimeInv'
<1>1. process' = 0 /\ UNCHANGED <<outside, server, client, launch, cut, unseen>>
      BY DEF ServerEnded
<1>2. RuntimeType'
      BY <1>1 DEF RuntimeInv, RuntimeType
<1>3. \A p \in Servers : server'[p] \in {"starting", "alive"} => p \in cut' \cup unseen'
      BY <1>1 DEF ServerEnded, UnseenInv
<1> QED BY <1>1, <1>2, <1>3 DEF RuntimeInv

LEMMA NextRuntime == ASSUME RuntimeInv, StageInv, UnseenInv, [Next]_vars PROVE RuntimeInv'
<1>1. CASE UNCHANGED <<runtimeVars, unseen>>
      BY <1>1 DEF runtimeVars, RuntimeInv, RuntimeType
<1>2. CASE RuntimeStep
      BY <1>2, OthersKeepRuntime DEF RuntimeStep
<1>3. ASSUME NEW g \in Guards, Explain(g) PROVE RuntimeInv'
  <2>1. g \in Clients /\ client[g] \in {"off", "gone"} /\ UNCHANGED <<outside, server, process, launch, cut, unseen>>
        BY <1>3, JobsAssumption DEF Explain, Wording, Clients
  <2>2. PICK w \in {"lock", "gone"} : To(g, w)
        BY <1>3 DEF Explain
  <2>3. outside' \in BOOLEAN
        BY <2>1 DEF RuntimeInv, RuntimeType
  <2> QED BY <2>1, <2>2, <2>3, ClientMoves DEF Inside, Starting
<1>4. ASSUME NEW c \in Clients, WakeUp(c) PROVE RuntimeInv'
  <2>1. client[c] = "sleep" /\ To(c, "lock") /\ UNCHANGED <<outside, server, process, launch, cut, unseen>>
        BY <1>4 DEF WakeUp, Wake
  <2>2. outside' \in BOOLEAN
        BY <2>1 DEF RuntimeInv, RuntimeType
  <2> QED BY <2>1, <2>2, ClientMoves DEF Inside, Starting
<1>5. ASSUME NEW g \in Guards, TaskCancelled(g) PROVE RuntimeInv'
      BY <1>5, CancelKeepsRuntime DEF TaskCancelled, Wording, Clients
<1>6. CASE Shutdown \/ ScansEnded
      BY <1>6, CancelTasksKeepsRuntime DEF Shutdown, ScansEnded
<1>7. CASE ReadsEnded
      BY <1>1, <1>7, CancelKeepsRuntime DEF ReadsEnded, Clients
<1>8. CASE ServerStopped \/ ServerEnded
      BY <1>8, ServerStoppedKeepsRuntime, ServerEndedKeepsRuntime
<1>9. ASSUME NetStep \/ TasksEnded \/ (\E c \in Callers : Asks(c) \/ WorkerCancelled(c))
                \/ (\E g \in Guards : Collected(g) \/ Worded(g) \/ Forget(g))
      PROVE  UNCHANGED <<runtimeVars, unseen>>
      BY <1>9 DEF NetStep, TasksEnded, Asks, WorkerCancelled, Collected, Worded, Forget
<1> QED BY <1>1, <1>2, <1>3, <1>4, <1>5, <1>6, <1>7, <1>8, <1>9 DEF Next, vars

-----------------------------------------------------------------------------
(* The end of the app *)

Asking == {"lock", "read", "resume"}

\* A step of the guards and of the reader asks for nothing new.
LEMMA NetStepKeepsStage == ASSUME NetInv, StageInv, NetStep PROVE StageInv'
<1>1. UNCHANGED <<runtimeVars, setup, job, halt, stage, loose, unseen>> /\ (NetCalls \/ NetUnrest)
      BY DEF NetStep
<1>2. \A c \in Callers : asked'[c] \in Asking => asked[c] \in Asking
  <2>1. ASSUME NEW c \in Callers, Enter(c) \/ Resume(c)
        PROVE  asked[c] \in Asking /\ \A d \in Callers \ {c} : asked'[d] = asked[d]
        BY <2>1 DEF Enter, Resume, Refuse, Accept, Ends, JoinRead, Asking, NetInv, NetType
  <2>2. CASE Deliver
        BY <2>2 DEF Deliver, Asking
  <2>3. ASSUME ReadAddress \/ (\E t \in Threads : Acquire(t) \/ Busy(t) \/ Query(t)) \/ NetUnrest
        PROVE  asked' = asked
        BY <2>3 DEF ReadAddress, Acquire, Busy, Query, NetUnrest, StatusCalls, Change, Pause, netCallers
  <2> QED BY <1>1, <2>1, <2>2, <2>3 DEF NetCalls
<1>3. ASSUME \A c \in Callers : asked[c] \notin Asking, reader = "idle" PROVE reader' = "idle"
  <2>1. ASSUME NEW t \in Threads, Acquire(t) \/ Busy(t) \/ Query(t) PROVE reader' = reader
        BY <1>3, <2>1 DEF Acquire, Busy, Query, At, Step
  <2>2. ~\E c \in Callers : Enter(c) \/ Resume(c)
        BY <1>3 DEF Enter, Resume, Asking
  <2>3. ASSUME NetUnrest PROVE reader' = reader
        BY <2>3 DEF NetUnrest, StatusCalls, Change, Pause, netThreads
  <2> QED BY <1>1, <1>3, <2>1, <2>2, <2>3 DEF NetCalls, ReadAddress, Deliver
<1>4. stage \in Closing => \A c \in Callers : asked[c] \notin Asking
      BY CallersAssumption DEF StageInv, Asking
<1>5. \A c \in Callers : asked'[c] \in Asking => job'[Of[c]] = "collect"
      BY <1>1, <1>2 DEF StageInv, Asking
<1>6. stage' \in Closing => reader' = "idle"
      BY <1>1, <1>3, <1>4 DEF StageInv
<1> QED BY <1>1, <1>5, <1>6 DEF StageInv, Closing, EndType, runtimeVars, Asking

LEMMA CallerKeepsStage ==
    ASSUME NetInv, StageInv, NEW c \in Callers, Asks(c) \/ WorkerCancelled(c)
    PROVE  StageInv'
<1>1. UNCHANGED <<runtimeVars, setup, job, halt, stage, loose, unseen>> /\ UNCHANGED reader
      BY DEF Asks, WorkerCancelled, Ask, Leave, netThreads
<1>2. \A d \in Callers : asked'[d] \in Asking => job'[Of[d]] = "collect"
      BY <1>1 DEF Asks, WorkerCancelled, Ask, Leave, Ends, StageInv, Asking, NetInv, NetType
<1> QED BY <1>1, <1>2 DEF StageInv, Closing, EndType, runtimeVars, Asking

LEMMA JobKeepsStage ==
    ASSUME RuntimeInv, StageInv, NEW g \in Guards, Collected(g) \/ Explain(g) \/ Worded(g)
    PROVE  StageInv'
<1>1. UNCHANGED <<reader, process, setup, halt, stage, loose, unseen>> /\ job' \in [Guards -> {"collect", "decided", "wording", "gone"}]
      BY DEF Collected, Explain, Worded, netVars, netThreads, runtimeVars, StageInv, EndType
<1>2. /\ \A h \in Guards \ {g} : job'[h] = job[h]
      /\ job[g] \in {"wording", "gone"} => job'[g] \in {"wording", "gone"}
      BY DEF Collected, Explain, Worded, StageInv, EndType
<1>3. \A c \in Callers : asked'[c] \in Asking => asked[c] \in Asking /\ job'[Of[c]] = job[Of[c]]
  <2>1. CASE Collected(g)
        BY <1>2, <2>1, CallersAssumption DEF Collected, Asking
  <2>2. CASE Explain(g) \/ Worded(g)
    <3>1. asked' = asked /\ job[g] # "collect"
          BY <2>2 DEF Explain, Worded, netVars, netCallers
    <3> QED BY <1>2, <3>1, CallersAssumption DEF StageInv, Asking
  <2> QED BY <2>1, <2>2
<1>4. stage \in {"reads"} \cup Closing => client' = client
      BY DEF Collected, Explain, Worded, runtimeVars, StageInv, Closing
<1> QED BY <1>1, <1>2, <1>3, <1>4 DEF StageInv, Closing, EndType, Asking

\* A step of the runtime, or a cancelled caller, that leaves those who are done alone.
LEMMA ClientKeepsStage ==
    ASSUME StageInv, UNCHANGED <<netVars, setup, job, halt, stage, loose, unseen>>,
           \A d \in Clients : client[d] \in {"off", "gone"} => client'[d] \in {"off", "gone"}
    PROVE  StageInv'
<1>1. UNCHANGED <<asked, reader>>
      BY DEF netVars, netCallers, netThreads
<1> QED BY <1>1 DEF StageInv, Closing, EndType, Clients

LEMMA CancelIsKept ==
    ASSUME RuntimeInv, NEW c \in Clients, CancelClient(c), client[c] \notin {"off", "gone"}
    PROVE  \A d \in Clients : client[d] \in {"off", "gone"} => client'[d] \in {"off", "gone"}
BY CancelKeepsClients

LEMMA ForgetKeepsStage == ASSUME StageInv, NEW g \in Guards, Forget(g) PROVE StageInv'
BY DEF Forget, StageInv, Closing, EndType, netVars, netCallers, netThreads, runtimeVars

LEMMA EndKeepsStage ==
    ASSUME RuntimeInv, StageInv,
           Shutdown \/ ScansEnded \/ TasksEnded \/ ReadsEnded \/ ServerStopped \/ ServerEnded
    PROVE  StageInv'
<1>1. UNCHANGED <<netVars, setup, job, loose>> /\ UNCHANGED <<asked, reader>>
      BY DEF Shutdown, ScansEnded, TasksEnded, ReadsEnded, ServerStopped, ServerEnded,
             netVars, netCallers, netThreads
<1>2. EndType'
  <2>1. stage' \in {"up", "scans", "tasks", "reads", "server", "ending", "closed"} /\ halt' \in BOOLEAN
        BY DEF Shutdown, ScansEnded, TasksEnded, ReadsEnded, ServerStopped, ServerEnded, StageInv, EndType
  <2>2. unseen' \subseteq Servers
        BY DEF Shutdown, ScansEnded, TasksEnded, ReadsEnded, ServerStopped, ServerEnded, StageInv, EndType
  <2> QED BY <1>1, <2>1, <2>2 DEF StageInv, EndType
<1>3. CASE Shutdown
      BY <1>1, <1>2, <1>3 DEF Shutdown, StageInv, Closing
<1>4. CASE ScansEnded
  <2>1. \A g \in Guards : job[g] \in {"wording", "gone"}
        BY <1>4 DEF ScansEnded, StageInv
  <2> QED BY <1>1, <1>2, <1>4, <2>1 DEF ScansEnded, StageInv, Closing
<1>5. CASE TasksEnded
  <2>1. \A g \in Tasks \ loose : client'[g] \in {"off", "gone"}
        BY <1>5 DEF TasksEnded, Known, Wording, runtimeVars
  <2> QED BY <1>1, <1>2, <1>5, <2>1 DEF TasksEnded, StageInv, Closing
<1>6. CASE ReadsEnded
  <2>1. \A g \in Tasks : client'[g] = client[g]
        BY <1>6, CancelKeepsClients, ClientsAssumption DEF ReadsEnded, Clients, runtimeVars
  <2> QED BY <1>1, <1>2, <1>6, <2>1 DEF ReadsEnded, StageInv, Closing
<1>7. CASE ServerStopped \/ ServerEnded
  <2>1. stage \in Closing /\ stage' \in {"ending", "closed"} /\ client' = client
        /\ client[Maintain] \in {"off", "gone"}
        BY <1>7 DEF ServerStopped, ServerEnded, StageInv, Closing
  <2> QED BY <1>1, <1>2, <2>1 DEF StageInv, Closing
<1> QED BY <1>3, <1>4, <1>5, <1>6, <1>7

LEMMA NextStage == ASSUME NetInv, RuntimeInv, StageInv, [Next]_vars PROVE StageInv'
<1>1. CASE UNCHANGED vars
      BY <1>1 DEF vars, netVars, netCallers, netThreads, runtimeVars, StageInv, Closing, EndType
<1>2. CASE NetStep
      BY <1>2, NetStepKeepsStage
<1>3. CASE RuntimeStep
      BY <1>3, OthersKeepClients, ClientKeepsStage DEF RuntimeStep
<1>4. ASSUME NEW c \in Clients, WakeUp(c) PROVE StageInv'
  <2>1. /\ client[c] = "sleep" /\ UNCHANGED <<netVars, setup, job, halt, stage, loose, unseen>>
        /\ \A d \in Clients \ {c} : client'[d] = client[d]
        BY <1>4 DEF WakeUp, Wake, To, RuntimeInv, RuntimeType
  <2> QED BY <2>1, ClientKeepsStage
<1>5. ASSUME NEW g \in Guards, TaskCancelled(g) PROVE StageInv'
  <2>1. g \in Clients /\ client[g] \notin {"off", "gone"}
        BY <1>5 DEF TaskCancelled, Wording, Clients
  <2> QED BY <1>5, <2>1, CancelIsKept, ClientKeepsStage DEF TaskCancelled
<1> QED BY <1>1, <1>2, <1>3, <1>4, <1>5, CallerKeepsStage, JobKeepsStage, ForgetKeepsStage, EndKeepsStage
        DEF Next

-----------------------------------------------------------------------------
(* What OllamaRuntime.close came too early for *)

\* A step that leaves the stage alone: a server comes up only where there was none, and
\* only while somebody is at work, and nobody begins to work.
LEMMA UnseenIsKept ==
    ASSUME UnseenInv, UNCHANGED <<stage, unseen>>, cut \subseteq cut',
           \A p \in Servers : server'[p] \in {"starting", "alive"} =>
              \/ p \in cut' \/ server[p] \in {"starting", "alive"}
              \/ server[p] = "none" /\ \E d \in Clients : client[d] \notin {"off", "gone"},
           \A p \in Servers : server'[p] = "none" => server[p] = "none",
           \A d \in Clients : client[d] \in {"off", "gone"} => client'[d] \in {"off", "gone"}
    PROVE  UnseenInv'
BY DEF UnseenInv

LEMMA OthersStart ==
    ASSUME RuntimeInv, RuntimeOthers
    PROVE  /\ cut' = cut
           /\ \A p \in Servers : server'[p] \in {"starting", "alive"} =>
                 \/ server[p] \in {"starting", "alive"}
                 \/ server[p] = "none" /\ \E d \in Clients : client[d] \notin {"off", "gone"}
           /\ \A p \in Servers : server'[p] = "none" => server[p] = "none"
<1>1. ASSUME NEW c \in Clients, Unreachable(c)
      PROVE  /\ cut' = cut /\ client[c] \notin {"off", "gone"}
             /\ \/ UNCHANGED server
                \/ \E p \in Servers : server[p] = "none" /\ server' = [server EXCEPT ![p] = "starting"]
      BY <1>1 DEF Unreachable
<1>2. ASSUME NEW c \in Clients, TakeLock(c) \/ ProbeAnswers(c) \/ Launched(c) \/ Polled(c) \/ Warmed(c)
      PROVE  UNCHANGED <<server, cut>>
      BY <1>2 DEF TakeLock, ProbeAnswers, Launched, Polled, Warmed
<1>3. ASSUME NEW p \in Servers, LaunchEnds(p) \/ ServerExits(p)
      PROVE  /\ cut' = cut /\ server[p] \in {"starting", "alive"}
             /\ \E how \in {"alive", "exited"} : server' = [server EXCEPT ![p] = how]
      BY <1>3 DEF LaunchEnds, ServerExits
<1>4. CASE OutsideChanges
      BY <1>4 DEF OutsideChanges
<1> QED BY <1>1, <1>2, <1>3, <1>4 DEF RuntimeOthers, RuntimeInv, RuntimeType

LEMMA CancelStarts ==
    ASSUME RuntimeInv, NEW c \in Clients, CancelClient(c)
    PROVE  /\ cut \subseteq cut'
           /\ \A p \in Servers : server'[p] \in {"starting", "alive"} => server[p] \in {"starting", "alive"}
           /\ \A p \in Servers : server'[p] = "none" => server[p] = "none"
BY DEF CancelClient, RuntimeInv, RuntimeType

LEMMA ServerStoppedKeepsUnseen ==
    ASSUME RuntimeInv, StageInv, UnseenInv, ServerStopped
    PROVE  UnseenInv'
<1>1. /\ unseen = {} /\ stage = "server" /\ stage' \in {"ending", "closed"}
      /\ client[Maintain] \in {"off", "gone"} /\ UNCHANGED <<process, client, launch, cut>>
      /\ server' = [p \in Servers |-> IF p = process THEN "exited" ELSE server[p]]
      BY DEF ServerStopped, UnseenInv
<1>2. CASE Wording = {}
  <2>1. \A d \in Clients : client[d] \in {"off", "gone"}
        BY <1>1, <1>2 DEF Wording, Clients
  <2>2. \A d \in Clients : launch[d] = 0
        BY <2>1 DEF RuntimeInv, Starting
  <2>3. \A p \in Servers : server'[p] \in {"starting", "alive"} => p \in cut
        BY <1>1, <2>2 DEF RuntimeInv, Servers
  <2> QED BY <1>1, <2>1, <2>3 DEF UnseenInv
<1>3. CASE Wording # {}
  <2>1. unseen' = {p \in Servers : server[p] = "none" \/ \E c \in Clients : launch[c] = p}
        BY <1>3 DEF ServerStopped
  <2>2. \A p \in Servers : server'[p] \in {"starting", "alive"} => p \in cut' \cup unseen'
        BY <1>1, <2>1 DEF RuntimeInv
  <2>3. \A p \in Servers : server'[p] = "none" => p \in unseen'
        BY <1>1, <2>1
  <2> QED BY <1>1, <2>2, <2>3 DEF UnseenInv
<1> QED BY <1>2, <1>3

LEMMA NextUnseen == ASSUME RuntimeInv, StageInv, UnseenInv, [Next]_vars PROVE UnseenInv'
<1>1. CASE UNCHANGED <<runtimeVars, stage, unseen>>
      BY <1>1 DEF runtimeVars, UnseenInv
<1>2. CASE RuntimeStep
      BY <1>2, OthersStart, OthersKeepClients, UnseenIsKept DEF RuntimeStep
<1>3. ASSUME NEW g \in Guards, Explain(g) PROVE UnseenInv'
  <2>1. stage \notin {"ending", "closed"} /\ UNCHANGED <<stage, unseen>>
        BY <1>3 DEF Explain, StageInv, Closing
  <2> QED BY <2>1 DEF UnseenInv
<1>4. ASSUME NEW c \in Clients, WakeUp(c) PROVE UnseenInv'
  <2>1. /\ client[c] = "sleep" /\ UNCHANGED <<server, cut, stage, unseen>>
        /\ \A d \in Clients \ {c} : client'[d] = client[d]
        BY <1>4 DEF WakeUp, Wake, To, RuntimeInv, RuntimeType
  <2> QED BY <2>1, UnseenIsKept
<1>5. ASSUME NEW g \in Guards, TaskCancelled(g) PROVE UnseenInv'
  <2>1. g \in Clients /\ client[g] \notin {"off", "gone"}
        BY <1>5 DEF TaskCancelled, Wording, Clients
  <2> QED BY <1>5, <2>1, CancelIsKept, CancelStarts, UnseenIsKept DEF TaskCancelled
<1>6. CASE Shutdown \/ ScansEnded \/ TasksEnded \/ ReadsEnded
  <2>1. stage \notin {"ending", "closed"} /\ stage' \notin {"ending", "closed"} /\ UNCHANGED unseen
        BY <1>6 DEF Shutdown, ScansEnded, TasksEnded, ReadsEnded
  <2> QED BY <2>1 DEF UnseenInv
<1>7. CASE ServerEnded
      BY <1>7 DEF ServerEnded, UnseenInv
<1>8. ASSUME NetStep \/ (\E c \in Callers : Asks(c) \/ WorkerCancelled(c))
                \/ (\E g \in Guards : Collected(g) \/ Worded(g) \/ Forget(g))
      PROVE  UNCHANGED <<runtimeVars, stage, unseen>>
      BY <1>8 DEF NetStep, Asks, WorkerCancelled, Collected, Worded, Forget
<1> QED BY <1>1, <1>2, <1>3, <1>4, <1>5, <1>6, <1>7, <1>8, ServerStoppedKeepsUnseen DEF Next, vars

-----------------------------------------------------------------------------
(* The theorems *)

LEMMA InitInv == Init => Inv
<1> SUFFICES ASSUME Init PROVE Inv
    OBVIOUS
<1>1. NetInv
      BY NetInitInv DEF Init
<1>2. RuntimeInv
  <2>1. RuntimeType
        BY SetupsAssumption DEF Init, RuntimeType, Inside, Servers, Clients
  <2>2. \A c \in Clients : launch[c] = 0 /\ client[c] \in {"off", "lock"}
        BY DEF Init
  <2> QED BY <2>1, <2>2 DEF Init, RuntimeInv, Inside, Starting
<1>3. StageInv
  <2>1. EndType
        BY DEF Init, EndType
  <2> QED BY <2>1 DEF Init, NetInit, StageInv, Closing
<1>4. UnseenInv
      BY DEF Init, UnseenInv
<1> QED BY <1>1, <1>2, <1>3, <1>4 DEF Inv

LEMMA NextInv == Inv /\ [Next]_vars => Inv'
BY NextNet, NextRuntime, NextStage, NextUnseen DEF Inv

\* The inductive invariant holds.
THEOREM Invariance == Spec => []Inv
BY InitInv, NextInv, PTL DEF Spec

\* Callers, guards, threads, servers and the stage of the end keep their types.
THEOREM TypeCorrect == Spec => []ServicesTypeOK
<1>1. Inv => ServicesTypeOK
      BY DEF Inv, NetInv, NetType, RuntimeInv, RuntimeType, StageInv, EndType, ServicesTypeOK
<1> QED BY Invariance, <1>1, PTL

\* owned_lifespan leaves nothing behind: no read of the network goes on and no server
\* the app started is left, however many jobs, AI tasks and launches there were when the
\* end began, but for one whose starter was cancelled twice and for those that an AI
\* task in no registry was still starting, or started, after OllamaRuntime.close looked.
THEOREM NothingIsLeftRunning == Spec => []StoppedMeansQuiet
<1>1. Inv => StoppedMeansQuiet
  <2> SUFFICES ASSUME Inv, stage = "closed"
               PROVE  /\ reader = "idle" /\ \A c \in Callers : asked[c] \notin {"lock", "read", "resume"}
                      /\ \A p \in Servers : server[p] \in {"starting", "alive"} => p \in cut \cup unseen
      BY DEF StoppedMeansQuiet
  <2>1. reader = "idle" /\ \A c \in Callers : asked[c] \notin {"lock", "read", "resume"}
        BY CallersAssumption DEF Inv, StageInv, Closing
  <2> QED BY <2>1 DEF Inv, UnseenInv
<1> QED BY Invariance, <1>1, PTL

\* Which callers a step accepts: one whose guard has moved on, or one that has read "home".
LEMMA AcceptedBy ==
    ASSUME Inv, Next, NEW c \in Callers, Accepts(c)
    PROVE  /\ ~failed[Of[c]] /\ ~late[Of[c]]
           /\ moved[c] \/ (asked[c] = "resume" /\ got[c] = "home")
<1>1. ASSUME NEW d \in Callers, Enter(d)
      PROVE  /\ ~failed[Of[c]] /\ ~late[Of[c]]
             /\ moved[c] \/ (asked[c] = "resume" /\ got[c] = "home")
      BY <1>1 DEF Enter, Accept, Refuse, Ends, JoinRead, Accepts, Inv, NetInv, NetType
<1>2. ASSUME NEW d \in Callers, Resume(d)
      PROVE  /\ ~failed[Of[c]] /\ ~late[Of[c]]
             /\ moved[c] \/ (asked[c] = "resume" /\ got[c] = "home")
  <2>1. c = d /\ asked[c] = "resume" /\ got[c] = "home" /\ ~late[Of[c]]
        BY <1>2 DEF Resume, Refuse, Ends, Accepts, Inv, NetInv, NetType
  <2>2. ~failed[Of[c]]
        BY <2>1 DEF Inv, NetInv, PauseInv, Holding
  <2> QED BY <2>1, <2>2
<1>3. ASSUME asked' = asked PROVE FALSE
      BY <1>3 DEF Accepts
<1>4. ASSUME NEW d \in Callers, Asks(d) \/ WorkerCancelled(d) PROVE FALSE
      BY <1>4 DEF Asks, Ask, WorkerCancelled, Leave, Ends, Accepts, Inv, NetInv, NetType
<1>5. ASSUME NEW g \in Guards, Collected(g) PROVE FALSE
      BY <1>5 DEF Collected, Accepts
<1>6. ASSUME Deliver PROVE FALSE
      BY <1>6 DEF Deliver, Accepts
<1>7. ASSUME ReadAddress \/ (\E t \in Threads : Acquire(t) \/ Busy(t) \/ Query(t)) \/ NetUnrest
      PROVE  asked' = asked
      BY <1>7 DEF ReadAddress, Acquire, Busy, Query, NetUnrest, StatusCalls, Change, Pause, netCallers
<1>8. ASSUME NetStep
      PROVE  /\ ~failed[Of[c]] /\ ~late[Of[c]]
             /\ moved[c] \/ (asked[c] = "resume" /\ got[c] = "home")
      BY <1>1, <1>2, <1>3, <1>6, <1>7, <1>8 DEF NetStep, NetCalls
<1>9. ASSUME \/ RuntimeStep \/ Shutdown \/ ScansEnded \/ TasksEnded \/ ReadsEnded \/ ServerStopped \/ ServerEnded
             \/ \E d \in Clients : WakeUp(d)
             \/ \E g \in Guards : Explain(g) \/ Worded(g) \/ TaskCancelled(g) \/ Forget(g)
      PROVE  UNCHANGED netVars
      BY <1>9 DEF RuntimeStep, Shutdown, ScansEnded, TasksEnded, ReadsEnded, ServerStopped, ServerEnded, WakeUp,
                  Explain, Worded, TaskCancelled, Forget
<1>10. ASSUME UNCHANGED netVars PROVE asked' = asked
      BY <1>10 DEF netVars, netCallers
<1> QED BY <1>3, <1>4, <1>5, <1>8, <1>9, <1>10 DEF Next

\* NetworkGuard.check accepts no answer from before it was asked: a caller who asks when
\* the network has gone and nothing is under way is not told that it is there while it is
\* gone, however many callers, guards and threads share their reads.
THEOREM AnswersAreFresh == Spec => AcceptedIsFresh
<1>1. Inv /\ [Next]_vars => [\A c \in Callers : Accepts(c) => ~lost[c]]_vars
  <2> SUFFICES ASSUME Inv, Next, NEW c \in Callers, Accepts(c) PROVE ~lost[c]
      OBVIOUS
  <2> QED BY AcceptedBy DEF Inv, NetInv, FreshInv
<1> QED BY Invariance, <1>1, PTL DEF Spec, AcceptedIsFresh

\* last_tick: a guard that slept for more than 45 seconds accepts nothing any more,
\* wherever its callers were when it slept.
THEOREM PausesAreNoticed == Spec => NothingAcceptedAfterPause
<1>1. Inv /\ [Next]_vars => [\A c \in Callers : Accepts(c) => ~slept[Of[c]]]_vars
  <2> SUFFICES ASSUME Inv, Next, NEW c \in Callers, Accepts(c) PROVE ~slept[Of[c]]
      OBVIOUS
  <2> QED BY AcceptedBy, CallersAssumption DEF Inv, NetInv, PauseInv
<1> QED BY Invariance, <1>1, PTL DEF Spec, NothingAcceptedAfterPause

=============================================================================
