------------------------- MODULE StartRequestsProofs -------------------------
(***************************************************************************)
(* Proofs about StartRequests, for any number of operations, clients,       *)
(* settings, restarts, failing writes and losses of the journal.            *)
(*                                                                          *)
(* The argument: an operation without a receipt in a readable journal is    *)
(* untouched (UnrecordedIsFresh), and stays so for a handler between its    *)
(* look at the journal and its task (NewIsUnrecorded, LaunchedIsFresh),     *)
(* since the admission lock keeps the other handlers out and no other       *)
(* transaction makes a receipt.  A journal that was lost is never readable  *)
(* again, so nothing turns a recorded operation into an unrecorded one.     *)
(*                                                                          *)
(* On it rests a second invariant, Answering: what each operation can leave *)
(* behind at each stage of its only task (Lives), and what a handler can    *)
(* know of an operation between its reads and its reply (Recovery).  A step *)
(* that the handlers do not take is shown to keep Lives and whatever they   *)
(* may know (LifeKept); a step of one handler to leave the others' view as  *)
(* it was (Alone).  From the two follow what a rejection, an interruption   *)
(* and the answer "accepted" mean.                                          *)
(***************************************************************************)
EXTENDS StartRequests, TLAPS

\* The stages of a task from which supervisor.start is still to come.
Early == {"check", "save", "start"}

Fresh(o) == started[o] = 0 /\ run[o] \notin Early

HandlersInv ==
    \A c \in Clients :
        /\ pc[c] # "idle" => request[c] \in Request
        /\ pc[c] \in {"look", "judge", "reserve", "launch", "await"}
             => request[c].kind = "submit"
        /\ pc[c] \in {"load", "decide"} => receipt[c] # Nothing

StartedOnce ==
    \A o \in Operations : started[o] \in {0, 1} /\ (run[o] \in Early => started[o] = 0)

UnrecordedIsFresh ==
    Readable => \A o \in Operations :
                    Load[o] = Nothing =>
                        Fresh(o) /\ \A c \in Clients : pc[c] = "launch" => Op(c) # o

LaunchedIsFresh == \A c \in Clients : pc[c] = "launch" => Fresh(Op(c))

Pending(c) == pc[c] = "reserve" \/ (pc[c] = "judge" /\ receipt[c] = Nothing)

NewIsUnrecorded ==
    \A c \in Clients : Pending(c) /\ Readable => Load[Op(c)] = Nothing

Types == TypeOK /\ HandlersInv

Once == StartedOnce /\ UnrecordedIsFresh /\ LaunchedIsFresh /\ NewIsUnrecorded

Inv == Types /\ Once

-----------------------------------------------------------------------------
(* The journal *)

FilesType == journal \in Journal \cup {Absent, Damaged} /\ backup \in Journal \cup {Absent, Damaged}

CountsType ==
    requests \in 0 .. MaxRequests /\ troubles \in 0 .. MaxTroubles /\ stops \in 0 .. MaxStops

\* What every step but the creation of a receipt does to the journal.
Keeps ==
    Readable' => Readable /\ \A o \in Operations : Load'[o] = Nothing <=> Load[o] = Nothing

LEMMA LoadType ==
    ASSUME FilesType
    PROVE  Readable <=> Load \in Journal
<1>1. Empty \in Journal
  BY DEF Empty, Journal
<1>2. Damaged \notin Journal
  BY AbsentAssumption
<1>3. QED  BY <1>1, <1>2 DEF FilesType, Load, Readable

LEMMA SameFilesKeep ==
    ASSUME FilesType, UNCHANGED files
    PROVE  FilesType' /\ Keeps
  BY DEF files, FilesType, Keeps, Readable, Load

LEMMA WriteLoads ==
    ASSUME FilesType, NEW j \in Journal, Write(j)
    PROVE  FilesType' /\ Readable' /\ Load' = j
<1>1. j # Absent /\ j # Damaged
  BY AbsentAssumption
<1>2. QED  BY <1>1 DEF FilesType, Write, Readable, Load

LEMMA RaisingWriteKeeps ==
    ASSUME FilesType, Readable, WriteRaises
    PROVE  FilesType' /\ Keeps
<1>1. journal \in Journal \/ (journal = Absent /\ backup = Absent)
  BY DEF FilesType, Readable, Load
<1>2. journal' = journal /\ backup' \in {backup, journal}
  BY DEF WriteRaises
<1>3. Load' = Load /\ Readable'
  BY <1>1, <1>2, AbsentAssumption DEF Load, Readable
<1>4. QED  BY <1>2, <1>3 DEF FilesType, Keeps, Readable

LEMMA TroubleType ==
    ASSUME CountsType, Trouble \/ Untroubled \/ Stop
    PROVE  CountsType'
  BY StartBoundsAssumption DEF CountsType, Trouble, Stop, Untroubled, counts

LEMMA SetStateKeeps ==
    ASSUME FilesType, CountsType, NEW o \in Operations,
           NEW st \in {"preparing", "accepted", "rejected", "interrupted"},
           SetState(o, st) \/ SetStateRaises(o)
    PROVE  FilesType' /\ CountsType' /\ Keeps
<1>1. CASE SetState(o, st)
  <2>1. Readable /\ Load \in Journal /\ Load[o] # Nothing
    BY <1>1, LoadType DEF SetState, Has
  <2>2. Load[o] \in Receipt
    BY <2>1 DEF Journal
  <2>3. [Load[o] EXCEPT !.state = st] \in Receipt
    BY <2>2 DEF Receipt
  <2>4. /\ Recorded(o, st) = [Load EXCEPT ![o] = [Load[o] EXCEPT !.state = st]]
        /\ Recorded(o, st) \in Journal
    BY <2>1, <2>3 DEF Recorded, Journal
  <2>5. \A p \in Operations : Recorded(o, st)[p] = Nothing <=> Load[p] = Nothing
    BY <2>1, <2>3, <2>4, AbsentAssumption DEF Journal
  <2>6. FilesType' /\ Readable' /\ Load' = Recorded(o, st)
    BY <1>1, <2>4, WriteLoads DEF SetState
  <2>7. QED  BY <1>1, <2>1, <2>5, <2>6, TroubleType DEF SetState, Keeps
<1>2. CASE SetStateRaises(o)
  <2>1. CASE Has(o) /\ WriteRaises /\ Trouble
    BY <2>1, RaisingWriteKeeps, TroubleType DEF Has
  <2>2. CASE UNCHANGED files /\ Untroubled
    BY <2>2, SameFilesKeep, TroubleType
  <2>3. QED  BY <1>2, <2>1, <2>2 DEF SetStateRaises
<1>3. QED  BY <1>1, <1>2

-----------------------------------------------------------------------------
(* Once is kept by what does not start a scan *)

\* A step of a handler that creates no receipt and no task.
LEMMA HandlerKeepsOnce ==
    ASSUME Once, Keeps, UNCHANGED <<run, started, request>>,
           \A c \in Clients : pc'[c] = "launch" => pc[c] = "launch",
           \A c \in Clients :
               Pending(c)' => Pending(c) \/ (Readable' => Load'[Op(c)] = Nothing),
           \A c \in Clients : pc'[c] # "idle" => Op(c) \in Operations
    PROVE  Once'
<1>1. \A c \in Clients : Op(c)' = Op(c)
  BY DEF Op
<1>2. \A o \in Operations : Fresh(o)' <=> Fresh(o)
  BY DEF Fresh
<1>3. StartedOnce'
  BY DEF Once, StartedOnce
<1>4. UnrecordedIsFresh'
  BY <1>1, <1>2 DEF Once, UnrecordedIsFresh, Keeps
<1>5. LaunchedIsFresh'
  BY <1>1 DEF Once, LaunchedIsFresh, Fresh
<1>6. NewIsUnrecorded'
  BY <1>1 DEF Once, NewIsUnrecorded, Keeps, Pending
<1>7. QED  BY <1>3, <1>4, <1>5, <1>6 DEF Once

\* A step of a task that does not start its scan, or of what surrounds it.
LEMMA TaskKeepsOnce ==
    ASSUME Once, Keeps, UNCHANGED <<started, pc, request, receipt>>,
           \A o \in Operations : run'[o] \in Early => run[o] \in Early,
           \A c \in Clients : pc[c] # "idle" => Op(c) \in Operations
    PROVE  Once'
<1>1. \A c \in Clients : Op(c)' = Op(c) /\ (Pending(c)' <=> Pending(c))
  BY DEF Op, Pending
<1>2. \A o \in Operations : Fresh(o) => Fresh(o)'
  BY DEF Fresh
<1>3. StartedOnce'
  BY DEF Once, StartedOnce
<1>4. UnrecordedIsFresh'
  BY <1>1, <1>2 DEF Once, UnrecordedIsFresh, Keeps
<1>5. LaunchedIsFresh'
  BY <1>1, <1>2 DEF Once, LaunchedIsFresh
<1>6. NewIsUnrecorded'
  BY <1>1 DEF Once, NewIsUnrecorded, Keeps, Pending
<1>7. QED  BY <1>3, <1>4, <1>5, <1>6 DEF Once

-----------------------------------------------------------------------------
(* Types, in the parts a step leaves alone together *)

Section == {"judge", "reserve", "launch"}

Submitting == {"look", "await"} \cup Section

JobsType ==
    /\ report \in [Operations -> Reports]
    /\ scanned \in [Operations -> Settings \cup {Nothing}]
    /\ active \in [Operations -> BOOLEAN]
    /\ started \in [Operations -> Nat]
    /\ removed \subseteq Operations
    /\ run \in [Operations -> Stages]
    /\ late \in [Operations -> {"none", "save", "drop", "accept", "reject", "finished"}]
    /\ mode \in {"up", "stopping", "down"}

HandlersType ==
    /\ pc \in [Clients -> Places]
    /\ request \in [Clients -> Request \cup {Nothing}]
    /\ receipt \in [Clients -> Receipt \cup {Nothing}]
    /\ seen \in [Clients -> Reports]
    /\ answer \in [Clients -> Answers]
    /\ admission \in Clients \cup {Nobody}
    /\ \A c \in Clients : admission = c <=> pc[c] \in Section
    /\ HandlersInv

LEMMA TypeParts == Types <=> FilesType /\ CountsType /\ JobsType /\ HandlersType
  BY DEF Types, TypeOK, FilesType, CountsType, JobsType, HandlersType, Section

LEMMA TypePartsNext == Types' <=> FilesType' /\ CountsType' /\ JobsType' /\ HandlersType'
  BY DEF Types, TypeOK, FilesType, CountsType, JobsType, HandlersType, Section

LEMMA RequestFields ==
    ASSUME HandlersType, NEW c \in Clients, pc[c] # "idle"
    PROVE  /\ Op(c) \in Operations
           /\ pc[c] \in Submitting => request[c].settings \in Settings
  BY DEF HandlersType, HandlersInv, Request, Op, Submitting, Section

LEMMA SameJobs ==
    ASSUME JobsType, UNCHANGED <<scans, tasks, mode>>
    PROVE  JobsType' /\ UNCHANGED <<run, started>>
  BY DEF JobsType, scans, tasks

LEMMA SameHandlers ==
    ASSUME HandlersType, UNCHANGED handlers
    PROVE  HandlersType' /\ UNCHANGED <<pc, request, receipt>>
  BY DEF HandlersType, HandlersInv, handlers

\* What HandlerKeepsOnce asks of the handlers.
HandlersKeep ==
    /\ HandlersType'
    /\ request' = request
    /\ \A c \in Clients : pc'[c] = "launch" => pc[c] = "launch"
    /\ \A c \in Clients : Pending(c)' => Pending(c) \/ (Readable' => Load'[Op(c)] = Nothing)

LEMMA ReplyKeeps ==
    ASSUME HandlersType, NEW c \in Clients, NEW told \in Answers, Reply(c, told),
           request' = request,
           admission' = IF admission = c THEN Nobody ELSE admission
    PROVE  HandlersKeep
<1>1. /\ pc' = [pc EXCEPT ![c] = "idle"]
      /\ answer' = [answer EXCEPT ![c] = told]
      /\ receipt' = [receipt EXCEPT ![c] = Nothing]
      /\ seen' = [seen EXCEPT ![c] = "none"]
  BY DEF Reply, Goto
<1>2. /\ pc' \in [Clients -> Places] /\ answer' \in [Clients -> Answers]
      /\ receipt' \in [Clients -> Receipt \cup {Nothing}] /\ seen' \in [Clients -> Reports]
  BY <1>1 DEF HandlersType, Places, Reports
<1>3. \A d \in Clients : pc'[d] # "idle" => d # c /\ pc'[d] = pc[d] /\ receipt'[d] = receipt[d]
  BY <1>1 DEF HandlersType
<1>4. \A d \in Clients : admission' = d <=> pc'[d] \in Section
  <2>1. pc'[c] = "idle"
    BY <1>1 DEF HandlersType
  <2>2. \A d \in Clients : d # c => pc'[d] = pc[d]
    BY <1>1 DEF HandlersType
  <2>3. QED  BY <2>1, <2>2, NobodyAssumption DEF HandlersType, Section
<1>5. HandlersInv'
  BY <1>3 DEF HandlersType, HandlersInv
<1>6. HandlersType'
  BY <1>2, <1>4, <1>5 DEF HandlersType
<1>7. QED  BY <1>3, <1>6 DEF HandlersKeep, Pending

LEMMA GoOnKeeps ==
    ASSUME HandlersType, NEW c \in Clients, NEW where \in Places \ {"idle", "load", "decide"},
           pc[c] # "idle", GoOn(c, where), request' = request,
           where \in Submitting => pc[c] \in Submitting,
           where \in Section => admission \in {c, Nobody},
           admission' = IF where \in Section THEN c
                        ELSE IF admission = c THEN Nobody ELSE admission
    PROVE  /\ HandlersType'
           /\ \A d \in Clients : d # c => pc'[d] = pc[d] /\ (Pending(d)' <=> Pending(d))
           /\ pc'[c] = where
<1>1. /\ pc' = [pc EXCEPT ![c] = where]
      /\ answer' = answer /\ receipt' = receipt /\ seen' = seen
  BY DEF GoOn, Goto
<1>2. pc'[c] = where /\ \A d \in Clients : d # c => pc'[d] = pc[d]
  BY <1>1 DEF HandlersType
<1>3. pc' \in [Clients -> Places]
  BY <1>1 DEF HandlersType
<1>4. \A d \in Clients : admission' = d <=> pc'[d] \in Section
  BY <1>2, NobodyAssumption DEF HandlersType
<1>5. HandlersInv'
  BY <1>1, <1>2 DEF HandlersType, HandlersInv, Submitting, Section
<1>6. QED  BY <1>1, <1>2, <1>3, <1>4, <1>5 DEF HandlersType, Pending

-----------------------------------------------------------------------------
(* Steps of a handler *)

LEMMA HandlerStep ==
    ASSUME Inv, HandlersKeep, FilesType', CountsType', Keeps, UNCHANGED <<scans, tasks, mode>>
    PROVE  Inv'
<1>1. Types'
  BY TypeParts, TypePartsNext, SameJobs DEF Inv, HandlersKeep
<1>2. \A c \in Clients : pc'[c] # "idle" => Op(c) \in Operations
  BY <1>1 DEF Types, HandlersInv, Request, Op, HandlersKeep
<1>3. UNCHANGED <<run, started, request>>
  BY DEF scans, tasks, HandlersKeep
<1>4. Once'
  BY <1>2, <1>3, HandlerKeepsOnce DEF Inv, HandlersKeep
<1>5. QED  BY <1>1, <1>4 DEF Inv

LEMMA SameCountsType ==
    ASSUME CountsType, UNCHANGED counts
    PROVE  CountsType'
  BY DEF CountsType, counts

LEMMA ReceiveStep ==
    ASSUME Inv, NEW c \in Clients, NEW kind \in {"submit", "status"}, NEW o \in Operations,
           NEW s \in Settings \cup {Nothing}, kind = "submit" => s \in Settings,
           kind = "status" => s = Nothing,
           Receive(c, kind, o, s)
    PROVE  Inv'
<1>1. FilesType /\ CountsType /\ JobsType /\ HandlersType
  BY TypeParts DEF Inv
<1>2. /\ pc[c] = "idle"
      /\ request' = [request EXCEPT ![c] = [kind |-> kind, op |-> o, settings |-> s]]
      /\ pc' = [pc EXCEPT ![c] = IF kind = "submit" THEN "look" ELSE "read"]
      /\ answer' = [answer EXCEPT ![c] = "none"]
      /\ requests < MaxRequests /\ requests' = requests + 1
      /\ UNCHANGED <<files, scans, tasks, receipt, seen, admission, mode, troubles, stops>>
  BY DEF Receive, Goto
<1>3. [kind |-> kind, op |-> o, settings |-> s] \in Request
  BY DEF Request
<1>4. \A d \in Clients : d # c => pc'[d] = pc[d] /\ request'[d] = request[d]
  BY <1>1, <1>2 DEF HandlersType
<1>5. /\ pc'[c] \in {"look", "read"} /\ (pc'[c] = "look" => kind = "submit")
      /\ request'[c] = [kind |-> kind, op |-> o, settings |-> s]
  BY <1>1, <1>2 DEF HandlersType
<1>6. CountsType'
  BY <1>1, <1>2, StartBoundsAssumption DEF CountsType
<1>7. HandlersInv'
  BY <1>1, <1>2, <1>3, <1>4, <1>5 DEF HandlersType, HandlersInv
<1>8. HandlersType'
  <2>1. /\ pc' \in [Clients -> Places] /\ request' \in [Clients -> Request \cup {Nothing}]
        /\ answer' \in [Clients -> Answers]
    BY <1>1, <1>2, <1>3 DEF HandlersType, Places, Answers
  <2>2. \A d \in Clients : admission' = d <=> pc'[d] \in Section
    BY <1>1, <1>2, <1>4, <1>5 DEF HandlersType, Section
  <2>3. QED  BY <1>1, <1>2, <1>7, <2>1, <2>2 DEF HandlersType
<1>9. FilesType' /\ Keeps /\ JobsType' /\ UNCHANGED <<run, started>>
  BY <1>1, <1>2, SameFilesKeep, SameJobs
<1>10. \A d \in Clients :
          (Pending(d)' \/ pc'[d] = "launch") =>
              /\ d # c /\ Op(d)' = Op(d) /\ (Pending(d)' <=> Pending(d)) /\ pc'[d] = pc[d]
              /\ Op(d) \in Operations
  <2>1. receipt' = receipt
    BY <1>2
  <2>2. \A d \in Clients : (Pending(d)' \/ pc'[d] = "launch") => d # c
    BY <1>5 DEF Pending
  <2>3. QED  BY <1>1, <1>4, <2>1, <2>2, RequestFields DEF Pending, Op
<1>11. Once'
  <2>1. StartedOnce' /\ \A p \in Operations : Fresh(p)' <=> Fresh(p)
    BY <1>9 DEF Inv, Once, StartedOnce, Fresh
  <2>2. UnrecordedIsFresh'
    BY <1>9, <1>10, <2>1 DEF Inv, Once, UnrecordedIsFresh, Keeps
  <2>3. LaunchedIsFresh'
    BY <1>9, <1>10, <2>1 DEF Inv, Once, LaunchedIsFresh
  <2>4. NewIsUnrecorded'
    BY <1>9, <1>10 DEF Inv, Once, NewIsUnrecorded, Keeps
  <2>5. QED  BY <2>1, <2>2, <2>3, <2>4 DEF Once
<1>12. QED  BY <1>6, <1>8, <1>9, <1>11, TypePartsNext DEF Inv

\* The end of a handler that leaves the journal as it is.
LEMMA ReplyStep ==
    ASSUME Inv, NEW c \in Clients, NEW told \in Answers, Reply(c, told), request' = request,
           admission' = IF admission = c THEN Nobody ELSE admission,
           UNCHANGED files, Trouble \/ Untroubled, UNCHANGED <<scans, tasks, mode>>
    PROVE  Inv'
<1>1. FilesType /\ CountsType /\ HandlersType
  BY TypeParts DEF Inv
<1>2. QED  BY <1>1, ReplyKeeps, SameFilesKeep, TroubleType, HandlerStep

LEMMA UnavailableStep ==
    ASSUME Inv, NEW c \in Clients, pc[c] \notin Section, Unavailable(c),
           UNCHANGED <<files, scans, tasks, request, mode>>
    PROVE  Inv'
<1>1. "error" \in Answers /\ admission # c
  BY TypeParts DEF Inv, HandlersType, Answers
<1>2. QED  BY <1>1, ReplyStep DEF Unavailable

LEMMA ReadReceiptType ==
    ASSUME Inv, NEW c \in Clients, pc[c] # "idle", NEW next \in Places, ReadReceipt(c, next)
    PROVE  /\ Load[Op(c)] \in Receipt \cup {Nothing}
           /\ pc' = [pc EXCEPT ![c] = next] /\ pc'[c] = next
           /\ receipt' = [receipt EXCEPT ![c] = Load[Op(c)]] /\ receipt'[c] = Load[Op(c)]
           /\ \A d \in Clients : d # c => pc'[d] = pc[d] /\ receipt'[d] = receipt[d]
           /\ UNCHANGED <<seen, answer>> /\ Untroubled
           /\ pc' \in [Clients -> Places] /\ receipt' \in [Clients -> Receipt \cup {Nothing}]
<1>1. FilesType /\ HandlersType
  BY TypeParts DEF Inv
<1>2. Load[Op(c)] \in Receipt \cup {Nothing}
  BY <1>1, LoadType, RequestFields DEF ReadReceipt, Journal
<1>3. QED  BY <1>1, <1>2 DEF ReadReceipt, Goto, HandlersType

LEMMA LookStep == ASSUME Inv, NEW c \in Clients, Look(c) PROVE Inv'
<1>1. FilesType /\ CountsType /\ HandlersType /\ pc[c] = "look" /\ admission = Nobody
  BY TypeParts DEF Inv, Look
<1>2. UNCHANGED <<files, scans, tasks, request, mode>>
  BY DEF Look
<1>3. CASE ReadReceipt(c, "judge") /\ admission' = c
  <2>1. "judge" \in Places
    BY DEF Places
  <2>2. /\ pc'[c] = "judge" /\ receipt'[c] = Load[Op(c)]
        /\ \A d \in Clients : d # c => pc'[d] = pc[d] /\ receipt'[d] = receipt[d]
        /\ UNCHANGED <<seen, answer>> /\ Untroubled
        /\ pc' \in [Clients -> Places] /\ receipt' \in [Clients -> Receipt \cup {Nothing}]
    BY <1>1, <1>3, <2>1, ReadReceiptType
  <2>3. HandlersType'
    <3>1. \A d \in Clients : admission' = d <=> pc'[d] \in Section
      BY <1>1, <1>3, <2>2, NobodyAssumption DEF HandlersType, Section
    <3>2. HandlersInv'
      BY <1>1, <1>2, <2>2 DEF HandlersType, HandlersInv
    <3>3. QED  BY <1>1, <1>2, <1>3, <2>2, <3>1, <3>2 DEF HandlersType
  <2>4. Load' = Load
    BY <1>2 DEF files, Load
  <2>5. HandlersKeep
    BY <1>2, <2>2, <2>3, <2>4 DEF HandlersKeep, Pending
  <2>6. QED  BY <1>1, <1>2, <2>2, <2>5, SameFilesKeep, TroubleType, HandlerStep
<1>4. CASE Unavailable(c)
  BY <1>1, <1>2, <1>4, UnavailableStep DEF Section
<1>5. QED  BY <1>3, <1>4 DEF Look

\* A handler that goes on outside the admission section.
LEMMA GoOnStep ==
    ASSUME Inv, NEW c \in Clients, NEW where \in {"await", "read", "validate"},
           pc[c] # "idle", GoOn(c, where), request' = request,
           where = "await" => pc[c] \in Submitting,
           admission' = IF admission = c THEN Nobody ELSE admission,
           UNCHANGED <<files, scans, tasks, mode, counts>>
    PROVE  Inv'
<1>1. FilesType /\ CountsType /\ HandlersType
  BY TypeParts DEF Inv
<1>2. /\ where \in Places \ {"idle", "load", "decide"} /\ where \notin Section
      /\ (where \in Submitting => pc[c] \in Submitting)
  BY DEF Places, Section, Submitting
<1>3. /\ HandlersType' /\ pc'[c] = where
      /\ \A d \in Clients : d # c => pc'[d] = pc[d] /\ (Pending(d)' <=> Pending(d))
  BY <1>1, <1>2, GoOnKeeps
<1>4. HandlersKeep
  BY <1>3 DEF HandlersKeep, Pending
<1>5. QED  BY <1>1, <1>4, SameFilesKeep, SameCountsType, HandlerStep

LEMMA RefuseStep == ASSUME Inv, NEW c \in Clients, Refuse(c) PROVE Inv'
<1>1. pc[c] = "judge" /\ HandlersType
  BY TypeParts DEF Inv, Refuse
<1>2. admission = c
  BY <1>1 DEF HandlersType, Section
<1>3. "error" \in Answers
  BY DEF Answers
<1>4. /\ Reply(c, "error") /\ admission' = Nobody /\ Untroubled
      /\ request' = request /\ UNCHANGED files /\ UNCHANGED <<scans, tasks, mode>>
  BY DEF Refuse, Untroubled
<1>5. QED  BY <1>2, <1>3, <1>4, ReplyStep

LEMMA AccedeStep == ASSUME Inv, NEW c \in Clients, Accede(c) PROVE Inv'
<1>1. FilesType /\ CountsType /\ HandlersType /\ pc[c] = "judge"
  BY TypeParts DEF Inv, Accede
<1>2. admission = c /\ pc[c] \in Submitting
  BY <1>1 DEF HandlersType, Section, Submitting
<1>3. UNCHANGED <<files, scans, tasks, request, mode, counts>>
  BY DEF Accede
<1>4. CASE receipt[c] = Nothing /\ GoOn(c, "reserve") /\ UNCHANGED admission
  <2>1. "reserve" \in Places \ {"idle", "load", "decide"} /\ "reserve" \in Section
    BY DEF Places, Section
  <2>2. /\ HandlersType' /\ pc'[c] = "reserve"
        /\ \A d \in Clients : d # c => pc'[d] = pc[d] /\ (Pending(d)' <=> Pending(d))
    BY <1>1, <1>2, <1>3, <1>4, <2>1, GoOnKeeps
  <2>3. Pending(c)
    BY <1>1, <1>4 DEF Pending
  <2>4. \A d \in Clients : Pending(d)' => Pending(d)
    BY <2>2, <2>3
  <2>5. HandlersKeep
    BY <1>3, <2>2, <2>4 DEF HandlersKeep
  <2>6. QED  BY <1>1, <1>3, <2>5, SameFilesKeep, SameCountsType, HandlerStep
<1>5. CASE GoOn(c, IF Op(c) \in Preparing THEN "await" ELSE "read") /\ admission' = Nobody
  <2>1. PICK where \in {"await", "read", "validate"} : GoOn(c, where)
    BY <1>5
  <2>2. QED  BY <1>1, <1>2, <1>3, <1>5, <2>1, GoOnStep
<1>6. QED  BY <1>4, <1>5 DEF Accede

\* The one step that makes a receipt.
LEMMA ReserveStep == ASSUME Inv, NEW c \in Clients, Reserve(c) PROVE Inv'
<1>1. FilesType /\ CountsType /\ JobsType /\ HandlersType /\ pc[c] = "reserve"
  BY TypeParts DEF Inv, Reserve
<1>2. admission = c /\ Op(c) \in Operations /\ request[c].settings \in Settings
  BY <1>1, RequestFields DEF HandlersType, Section, Submitting
<1>3. UNCHANGED <<scans, tasks, request, mode>>
  BY DEF Reserve
<1>4. Readable => ~Has(Op(c))
  BY <1>1 DEF Inv, Once, NewIsUnrecorded, Pending, Has
<1>5. CASE /\ Readable /\ GoOn(c, "launch") /\ Untroubled /\ UNCHANGED admission
           /\ Write([Load EXCEPT ![Op(c)] =
                        [settings |-> request[c].settings, state |-> "preparing"]])
  <2> DEFINE new == [settings |-> request[c].settings, state |-> "preparing"]
             J == [Load EXCEPT ![Op(c)] = new]
  <2>1. Load \in Journal /\ Load[Op(c)] = Nothing
    BY <1>1, <1>4, <1>5, LoadType DEF Has
  <2>2. new \in Receipt /\ new # Nothing
    BY <1>2, AbsentAssumption DEF Receipt
  <2>3. J \in Journal /\ \A o \in Operations : J[o] = IF o = Op(c) THEN new ELSE Load[o]
    BY <1>2, <2>1, <2>2 DEF Journal
  <2>4. FilesType' /\ Readable' /\ Load' = J
    BY <1>1, <1>5, <2>3, WriteLoads
  <2>5. "launch" \in Places \ {"idle", "load", "decide"} /\ "launch" \in Section /\ pc[c] \in Submitting
    BY <1>1 DEF Places, Section, Submitting
  <2>6. /\ HandlersType' /\ pc'[c] = "launch"
        /\ \A d \in Clients : d # c => pc'[d] = pc[d] /\ (Pending(d)' <=> Pending(d))
    BY <1>1, <1>2, <1>3, <1>5, <2>5, GoOnKeeps
  <2>7. JobsType' /\ run' = run /\ started' = started /\ CountsType'
    BY <1>1, <1>3, <1>5, SameJobs, TroubleType
  <2>8. \A d \in Clients : Op(d)' = Op(d) /\ (pc[d] \in Section => d = c)
    BY <1>1, <1>2, <1>3 DEF Op, HandlersType
  <2>9. \A o \in Operations : Fresh(o)' <=> Fresh(o)
    BY <2>7 DEF Fresh
  <2>10. Fresh(Op(c))
    BY <1>2, <1>5, <2>1 DEF Inv, Once, UnrecordedIsFresh
  <2>11. StartedOnce'
    BY <2>7 DEF Inv, Once, StartedOnce
  <2>12. \A d \in Clients : pc'[d] \in Section => d = c
    BY <2>6, <2>8
  <2>13. UnrecordedIsFresh'
    <3>1. SUFFICES ASSUME NEW o \in Operations, Load'[o] = Nothing
                   PROVE  Fresh(o)' /\ \A d \in Clients : pc'[d] = "launch" => Op(d)' # o
      BY DEF UnrecordedIsFresh
    <3>2. o # Op(c) /\ Load[o] = Nothing
      BY <2>2, <2>3, <2>4, <3>1
    <3>3. Fresh(o)
      BY <1>5, <3>2 DEF Inv, Once, UnrecordedIsFresh
    <3>4. QED  BY <2>8, <2>9, <2>12, <3>2, <3>3 DEF Section
  <2>14. LaunchedIsFresh'
    BY <1>2, <2>8, <2>9, <2>10, <2>12 DEF LaunchedIsFresh, Section
  <2>15. NewIsUnrecorded'
    <3>1. \A d \in Clients : ~Pending(d)'
      BY <2>6, <2>12 DEF Pending, Section
    <3>2. QED  BY <3>1 DEF NewIsUnrecorded
  <2>16. QED
    BY <2>4, <2>6, <2>7, <2>11, <2>13, <2>14, <2>15, TypePartsNext DEF Inv, Once
<1>6. CASE Reply(c, "error") /\ admission' = Nobody /\ Readable /\ WriteRaises /\ Trouble
  <2>1. "error" \in Answers
    BY DEF Answers
  <2>2. HandlersKeep
    BY <1>1, <1>2, <1>3, <1>6, <2>1, ReplyKeeps
  <2>3. QED  BY <1>1, <1>3, <1>6, <2>2, RaisingWriteKeeps, TroubleType, HandlerStep
<1>7. CASE Reply(c, "error") /\ admission' = Nobody /\ UNCHANGED files /\ Untroubled
  <2>1. "error" \in Answers
    BY DEF Answers
  <2>2. QED  BY <1>2, <1>3, <1>7, <2>1, ReplyStep
<1>8. QED  BY <1>4, <1>5, <1>6, <1>7 DEF Reserve

LEMMA LaunchStep == ASSUME Inv, NEW c \in Clients, Launch(c) PROVE Inv'
<1>1. FilesType /\ CountsType /\ JobsType /\ HandlersType /\ pc[c] = "launch"
  BY TypeParts DEF Inv, Launch
<1>2. admission = c /\ Op(c) \in Operations /\ request[c].settings \in Settings
  BY <1>1, RequestFields DEF HandlersType, Section, Submitting
<1>3. /\ run' = [run EXCEPT ![Op(c)] = "check"]
      /\ scanned' = [scanned EXCEPT ![Op(c)] = request[c].settings]
      /\ GoOn(c, "await") /\ admission' = Nobody
      /\ UNCHANGED <<files, scans, late, request, mode, counts>>
  BY DEF Launch
<1>4. "await" \in Places \ {"idle", "load", "decide"} /\ "await" \notin Section /\ pc[c] \in Submitting
  BY <1>1 DEF Places, Section, Submitting
<1>5. /\ HandlersType' /\ pc'[c] = "await"
      /\ \A d \in Clients : d # c => pc'[d] = pc[d] /\ (Pending(d)' <=> Pending(d))
  BY <1>1, <1>2, <1>3, <1>4, GoOnKeeps
<1>6. JobsType' /\ CountsType' /\ FilesType' /\ Load' = Load /\ Readable' = Readable
  <2>1. JobsType'
    BY <1>1, <1>2, <1>3 DEF JobsType, scans, Stages
  <2>2. Load' = Load /\ Readable' = Readable
    BY <1>3 DEF files, Load, Readable
  <2>3. QED  BY <1>1, <1>3, <2>1, <2>2, SameFilesKeep, SameCountsType
<1>7. Fresh(Op(c))
  BY <1>1 DEF Inv, Once, LaunchedIsFresh
<1>8. /\ started' = started /\ run'[Op(c)] = "check"
      /\ \A o \in Operations : o # Op(c) => run'[o] = run[o]
  BY <1>1, <1>2, <1>3 DEF JobsType, scans
<1>9. StartedOnce'
  BY <1>7, <1>8 DEF Inv, Once, StartedOnce, Fresh
<1>10. \A d \in Clients : Op(d)' = Op(d) /\ pc'[d] \notin Section
  BY <1>1, <1>2, <1>3, <1>4, <1>5 DEF Op, HandlersType
<1>11. UnrecordedIsFresh'
  <2>1. SUFFICES ASSUME NEW o \in Operations, Readable, Load[o] = Nothing
                 PROVE  Fresh(o)'
    BY <1>6, <1>10 DEF UnrecordedIsFresh, Section
  <2>2. Fresh(o) /\ Op(c) # o
    BY <1>1, <2>1 DEF Inv, Once, UnrecordedIsFresh
  <2>3. QED  BY <1>8, <2>2 DEF Fresh
<1>12. LaunchedIsFresh' /\ NewIsUnrecorded'
  BY <1>10 DEF LaunchedIsFresh, NewIsUnrecorded, Pending, Section
<1>13. QED  BY <1>5, <1>6, <1>9, <1>11, <1>12, TypePartsNext DEF Inv, Once

LEMMA AwaitStep == ASSUME Inv, NEW c \in Clients, Await(c) PROVE Inv'
<1>1. pc[c] = "await" /\ HandlersType
  BY TypeParts DEF Inv, Await
<1>2. admission # c
  BY <1>1 DEF HandlersType, Section
<1>3. PICK told \in Answers : Reply(c, told)
  BY DEF Await, Answers
<1>4. QED  BY <1>2, <1>3, ReplyStep DEF Await, Untroubled

LEMMA OutsideStep ==
    ASSUME Inv, NEW c \in Clients, pc[c] \in {"read", "load", "decide", "validate"},
           NEW told \in Answers, Reply(c, told), Trouble \/ Untroubled,
           UNCHANGED <<files, scans, tasks, request, admission, mode>>
    PROVE  Inv'
<1>1. admission # c
  BY TypeParts DEF Inv, HandlersType, Section
<1>2. QED  BY <1>1, ReplyStep

LEMMA ReadStep == ASSUME Inv, NEW c \in Clients, Read(c) PROVE Inv'
<1>1. FilesType /\ CountsType /\ HandlersType /\ pc[c] = "read"
  BY TypeParts DEF Inv, Read
<1>2. UNCHANGED <<files, scans, tasks, request, mode>>
  BY DEF Read
<1>3. CASE Has(Op(c)) /\ ReadReceipt(c, "load") /\ UNCHANGED admission
  <2>1. "load" \in Places /\ Load[Op(c)] # Nothing
    BY <1>3 DEF Places, Has
  <2>2. /\ pc'[c] = "load" /\ receipt'[c] = Load[Op(c)]
        /\ \A d \in Clients : d # c => pc'[d] = pc[d] /\ receipt'[d] = receipt[d]
        /\ UNCHANGED <<seen, answer>> /\ Untroubled
        /\ pc' \in [Clients -> Places] /\ receipt' \in [Clients -> Receipt \cup {Nothing}]
    BY <1>1, <1>3, <2>1, ReadReceiptType
  <2>3. HandlersType'
    <3>1. \A d \in Clients : admission' = d <=> pc'[d] \in Section
      BY <1>1, <1>3, <2>2 DEF HandlersType, Section
    <3>2. HandlersInv'
      BY <1>1, <1>2, <2>1, <2>2 DEF HandlersType, HandlersInv
    <3>3. QED  BY <1>1, <1>2, <1>3, <2>2, <3>1, <3>2 DEF HandlersType
  <2>4. HandlersKeep
    BY <1>2, <2>2, <2>3 DEF HandlersKeep, Pending
  <2>5. QED  BY <1>1, <1>2, <2>2, <2>4, SameFilesKeep, TroubleType, HandlerStep
<1>4. CASE Reply(c, "unknown") /\ Untroubled /\ UNCHANGED admission
  <2>1. "unknown" \in Answers
    BY DEF Answers
  <2>2. QED  BY <1>1, <1>2, <1>4, <2>1, OutsideStep
<1>5. CASE Unavailable(c)
  BY <1>1, <1>2, <1>5, UnavailableStep DEF Section
<1>6. QED  BY <1>3, <1>4, <1>5 DEF Read

LEMMA LoadReportStep == ASSUME Inv, NEW c \in Clients, LoadReport(c) PROVE Inv'
<1>1. /\ FilesType /\ CountsType /\ JobsType /\ HandlersType
      /\ pc[c] = "load" /\ receipt[c] # Nothing
  BY TypeParts DEF Inv, LoadReport, HandlersType, HandlersInv
<1>2. UNCHANGED <<files, scans, tasks, request, admission, mode>>
  BY DEF LoadReport
<1>3. CASE /\ seen' = [seen EXCEPT ![c] = report[Op(c)]]
           /\ Goto(c, "decide") /\ Untroubled /\ UNCHANGED <<answer, receipt>>
  <2>1. report[Op(c)] \in Reports
    BY <1>1, RequestFields DEF JobsType
  <2>2. /\ pc' = [pc EXCEPT ![c] = "decide"] /\ pc'[c] = "decide"
        /\ \A d \in Clients : d # c => pc'[d] = pc[d]
    BY <1>1, <1>3 DEF HandlersType, Goto
  <2>3. HandlersType'
    <3>1. pc' \in [Clients -> Places] /\ seen' \in [Clients -> Reports]
      BY <1>1, <1>3, <2>1, <2>2 DEF HandlersType, Places
    <3>2. \A d \in Clients : admission' = d <=> pc'[d] \in Section
      BY <1>1, <1>2, <2>2 DEF HandlersType, Section
    <3>3. HandlersInv'
      BY <1>1, <1>2, <1>3, <2>2 DEF HandlersType, HandlersInv
    <3>4. QED  BY <1>1, <1>2, <1>3, <3>1, <3>2, <3>3 DEF HandlersType
  <2>4. HandlersKeep
    BY <1>2, <1>3, <2>2, <2>3 DEF HandlersKeep, Pending
  <2>5. QED  BY <1>1, <1>2, <1>3, <2>4, SameFilesKeep, TroubleType, HandlerStep
<1>4. CASE Trouble /\ Reply(c, "error")
  <2>1. "error" \in Answers
    BY DEF Answers
  <2>2. QED  BY <1>1, <1>2, <1>4, <2>1, OutsideStep
<1>5. QED  BY <1>3, <1>4 DEF LoadReport

LEMMA AnswerStep == ASSUME Inv, NEW c \in Clients, Answer(c) PROVE Inv'
<1>1. HandlersType /\ pc[c] = "decide" /\ receipt[c] \in Receipt
  BY TypeParts DEF Inv, Answer, HandlersType, HandlersInv
<1>2. UNCHANGED <<files, scans, tasks, request, admission, mode, counts>> /\ Untroubled
  BY DEF Answer, Untroubled
<1>3. Status(c) \in Answers /\ "error" \in Answers
  BY <1>1 DEF Status, Receipt, Answers
<1>4. CASE \E told \in Answers : Reply(c, told)
  BY <1>1, <1>2, <1>4, OutsideStep
<1>5. CASE GoOn(c, "validate")
  <2>1. admission # c
    BY <1>1 DEF HandlersType, Section
  <2>2. QED  BY <1>1, <1>2, <1>5, <2>1, GoOnStep
<1>6. QED  BY <1>3, <1>4, <1>5 DEF Answer

LEMMA ValidateStep == ASSUME Inv, NEW c \in Clients, Validate(c) PROVE Inv'
<1>1. PICK told \in Answers : Reply(c, told)
  BY DEF Validate, Answers
<1>2. Trouble \/ Untroubled
  BY DEF Validate
<1>3. pc[c] = "validate" /\ UNCHANGED <<files, scans, tasks, request, admission, mode>>
  BY DEF Validate
<1>4. QED  BY <1>1, <1>2, <1>3, OutsideStep

LEMMA HandleStep == ASSUME Inv, NEW c \in Clients, Handle(c) PROVE Inv'
  BY LookStep, RefuseStep, AccedeStep, ReserveStep, LaunchStep, AwaitStep,
     ReadStep, LoadReportStep, AnswerStep, ValidateStep DEF Handle

-----------------------------------------------------------------------------
(* Steps of a task, of the supervisor and of the process *)

\* A step that starts no scan and that no handler takes.
LEMMA TaskStep ==
    ASSUME Inv, FilesType', CountsType', JobsType', Keeps, UNCHANGED <<started, handlers>>,
           \A o \in Operations : run'[o] \in Early => run[o] \in Early
    PROVE  Inv'
<1>1. HandlersType' /\ UNCHANGED <<pc, request, receipt>>
  BY TypeParts, SameHandlers DEF Inv
<1>2. Types'
  BY <1>1, TypePartsNext
<1>3. \A c \in Clients : pc[c] # "idle" => Op(c) \in Operations
  BY TypeParts, RequestFields DEF Inv
<1>4. Once'
  BY <1>1, <1>3, TaskKeepsOnce DEF Inv
<1>5. QED  BY <1>2, <1>4 DEF Inv

LEMMA AdvanceKeeps ==
    ASSUME JobsType, NEW o \in Operations, NEW stage \in Stages, Advance(o, stage),
           stage \in Early => run[o] \in Early
    PROVE  /\ run' \in [Operations -> Stages]
           /\ \A p \in Operations : run'[p] \in Early => run[p] \in Early
<1>1. run' = [run EXCEPT ![o] = stage]
  BY DEF Advance
<1>2. QED  BY <1>1 DEF JobsType

\* A step of one task that leaves the journal alone.
LEMMA QuietStep ==
    ASSUME Inv, NEW o \in Operations, NEW stage \in Stages, Advance(o, stage),
           stage \in Early => run[o] \in Early,
           UNCHANGED <<files, active, started, removed, late, scanned, handlers, mode>>,
           Trouble \/ Untroubled,
           UNCHANGED report \/ \E r \in Reports : ReportIs(o, r)
    PROVE  Inv'
<1>1. FilesType /\ CountsType /\ JobsType
  BY TypeParts DEF Inv
<1>2. /\ run' \in [Operations -> Stages]
      /\ \A p \in Operations : run'[p] \in Early => run[p] \in Early
  BY <1>1, AdvanceKeeps
<1>3. report' \in [Operations -> Reports]
  BY <1>1 DEF JobsType, ReportIs
<1>4. JobsType'
  BY <1>1, <1>2, <1>3 DEF JobsType
<1>5. QED  BY <1>1, <1>2, <1>4, SameFilesKeep, TroubleType, TaskStep

\* A step of one task that writes a receipt's state.
LEMMA MarkStep ==
    ASSUME Inv, NEW o \in Operations, NEW stage \in Stages \ Early, Advance(o, stage),
           NEW st \in {"accepted", "rejected", "interrupted"},
           SetState(o, st) \/ SetStateRaises(o),
           UNCHANGED <<scans, late, scanned, handlers, mode>>
    PROVE  Inv'
<1>1. FilesType /\ CountsType /\ JobsType
  BY TypeParts DEF Inv
<1>2. /\ run' \in [Operations -> Stages]
      /\ \A p \in Operations : run'[p] \in Early => run[p] \in Early
  BY <1>1, AdvanceKeeps
<1>3. JobsType' /\ started' = started
  BY <1>1, <1>2 DEF JobsType, scans
<1>4. FilesType' /\ CountsType' /\ Keeps
  BY <1>1, SetStateKeeps
<1>5. QED  BY <1>2, <1>3, <1>4, TaskStep

LEMMA StartStep == ASSUME Inv, NEW o \in Operations, Start(o) PROVE Inv'
<1>1. FilesType /\ CountsType /\ JobsType /\ HandlersType /\ run[o] = "start"
  BY TypeParts DEF Inv, Start
<1>2. UNCHANGED <<files, report, removed, late, scanned, handlers, mode, counts>>
  BY DEF Start
<1>3. CASE /\ active' = [active EXCEPT ![o] = TRUE]
           /\ started' = [started EXCEPT ![o] = @ + 1]
           /\ Advance(o, "accept")
  <2>1. /\ run' = [run EXCEPT ![o] = "accept"] /\ run'[o] = "accept"
        /\ \A p \in Operations : p # o => run'[p] = run[p]
    BY <1>1, <1>3 DEF JobsType, Advance
  <2>2. started[o] = 0
    BY <1>1 DEF Inv, Once, StartedOnce, Early
  <2>3. started'[o] = 1 /\ \A p \in Operations : p # o => started'[p] = started[p]
    BY <1>1, <1>3, <2>2 DEF JobsType
  <2>4. JobsType'
    BY <1>1, <1>2, <1>3, <2>1, <2>2 DEF JobsType, Stages
  <2>5. /\ FilesType' /\ Load' = Load /\ Readable' = Readable /\ CountsType' /\ HandlersType'
        /\ UNCHANGED <<pc, request, receipt>>
    BY <1>1, <1>2, SameFilesKeep, SameCountsType, SameHandlers DEF files, Load, Readable
  <2>6. ~Fresh(o) /\ \A p \in Operations : p # o => (Fresh(p)' <=> Fresh(p))
    BY <1>1, <2>1, <2>3 DEF Fresh, Early
  <2>7. StartedOnce'
    BY <2>1, <2>3 DEF Inv, Once, StartedOnce, Early
  <2>8. UnrecordedIsFresh'
    BY <2>5, <2>6 DEF Inv, Once, UnrecordedIsFresh, Op
  <2>9. LaunchedIsFresh'
    <3>1. \A c \in Clients : pc[c] = "launch" => Op(c) \in Operations /\ Op(c) # o
      BY <1>1, <2>6, RequestFields DEF Inv, Once, LaunchedIsFresh
    <3>2. QED  BY <2>5, <2>6, <3>1 DEF Inv, Once, LaunchedIsFresh, Op
  <2>10. NewIsUnrecorded'
    BY <2>5 DEF Inv, Once, NewIsUnrecorded, Pending, Op
  <2>11. QED
    BY <2>4, <2>5, <2>7, <2>8, <2>9, <2>10, TypePartsNext DEF Inv, Once
<1>4. CASE Advance(o, "drop") /\ UNCHANGED <<active, started>>
  <2>1. "drop" \in Stages /\ "drop" \notin Early /\ Untroubled
    BY <1>2 DEF Stages, Early, Untroubled
  <2>2. QED  BY <1>2, <1>4, <2>1, QuietStep
<1>5. QED  BY <1>3, <1>4 DEF Start

LEMMA PrepareStep == ASSUME Inv, NEW o \in Operations, Prepare(o) PROVE Inv'
<1>1. CASE Check(o)
  <2>1. PICK stage \in {"save", "find", "failed"} : Advance(o, stage)
    BY <1>1 DEF Check
  <2>2. stage \in Stages /\ (Trouble \/ Untroubled)
    BY <1>1 DEF Check, Stages
  <2>3. run[o] \in Early /\ UNCHANGED <<files, scans, late, scanned, handlers, mode>>
    BY <1>1 DEF Check, Early
  <2>4. QED  BY <2>1, <2>2, <2>3, QuietStep DEF scans
<1>2. CASE Save(o)
  <2>1. PICK stage \in {"start", "failed"} : Advance(o, stage)
    BY <1>2 DEF Save
  <2>2. stage \in Stages /\ (Trouble \/ Untroubled) /\ run[o] \in Early
    BY <1>2 DEF Save, Stages, Early
  <2>3. UNCHANGED report \/ \E r \in Reports : ReportIs(o, r)
    BY <1>2 DEF Save, Reports
  <2>4. QED  BY <1>2, <2>1, <2>2, <2>3, QuietStep DEF Save
<1>3. CASE Start(o)
  BY <1>3, StartStep
<1>4. CASE Drop(o)
  <2>1. PICK stage \in {"find", "failed"} : Advance(o, stage)
    BY <1>4 DEF Drop
  <2>2. stage \in Stages /\ stage \notin Early /\ (Trouble \/ Untroubled)
    BY <1>4 DEF Drop, Stages, Early
  <2>3. UNCHANGED report \/ \E r \in Reports : ReportIs(o, r)
    BY <1>4 DEF Drop, Reports
  <2>4. QED  BY <1>4, <2>1, <2>2, <2>3, QuietStep DEF Drop
<1>5. CASE Accept(o)
  <2>1. PICK stage \in {"ok", "find"} : Advance(o, stage)
    BY <1>5 DEF Accept
  <2>2. stage \in Stages \ Early
    BY DEF Stages, Early
  <2>3. SetState(o, "accepted") \/ SetStateRaises(o)
    BY <1>5 DEF Accept
  <2>4. QED  BY <1>5, <2>1, <2>2, <2>3, MarkStep DEF Accept
<1>6. CASE Find(o)
  <2>1. PICK stage \in {"reject", "failed"} : Advance(o, stage)
    BY <1>6 DEF Find
  <2>2. stage \in Stages /\ stage \notin Early /\ (Trouble \/ Untroubled)
    BY <1>6 DEF Find, Stages, Early
  <2>3. UNCHANGED <<files, scans, late, scanned, handlers, mode>>
    BY <1>6 DEF Find
  <2>4. QED  BY <2>1, <2>2, <2>3, QuietStep DEF scans
<1>7. CASE Reject(o)
  <2>1. "failed" \in Stages \ Early
    BY DEF Stages, Early
  <2>2. QED  BY <1>7, <2>1, MarkStep DEF Reject
<1>8. CASE Inspect(o)
  <2>1. PICK stage \in {"consider", "interrupt", "failed"} : Advance(o, stage)
    BY <1>8 DEF Inspect
  <2>2. stage \in Stages /\ stage \notin Early /\ (Trouble \/ Untroubled)
    BY <1>8 DEF Inspect, Stages, Early
  <2>3. UNCHANGED <<files, scans, late, scanned, handlers, mode>>
    BY <1>8 DEF Inspect
  <2>4. QED  BY <2>1, <2>2, <2>3, QuietStep DEF scans
<1>9. CASE Consider(o)
  <2>1. PICK stage \in {"interrupt", "close"} : Advance(o, stage)
    BY <1>9 DEF Consider
  <2>2. stage \in Stages /\ stage \notin Early
    BY DEF Stages, Early
  <2>3. UNCHANGED <<files, scans, late, scanned, handlers, mode>> /\ Untroubled
    BY <1>9 DEF Consider, Untroubled
  <2>4. QED  BY <2>1, <2>2, <2>3, QuietStep DEF scans
<1>10. CASE Close(o)
  <2>1. PICK stage \in {"interrupt", "failed"} : Advance(o, stage)
    BY <1>10 DEF Close
  <2>2. stage \in Stages /\ stage \notin Early /\ (Trouble \/ Untroubled)
    BY <1>10 DEF Close, Stages, Early
  <2>3. UNCHANGED report \/ \E r \in Reports : ReportIs(o, r)
    BY <1>10 DEF Close, Reports
  <2>4. QED  BY <1>10, <2>1, <2>2, <2>3, QuietStep DEF Close
<1>11. CASE Interrupt(o)
  <2>1. "failed" \in Stages \ Early
    BY DEF Stages, Early
  <2>2. QED  BY <1>11, <2>1, MarkStep DEF Interrupt
<1>12. QED
  BY <1>1, <1>2, <1>3, <1>4, <1>5, <1>6, <1>7, <1>8, <1>9, <1>10, <1>11 DEF Prepare

LEMMA LateThreadStep == ASSUME Inv, NEW o \in Operations, LateThread(o) PROVE Inv'
<1>1. FilesType /\ CountsType /\ JobsType
  BY TypeParts DEF Inv
<1>2. /\ late' = [late EXCEPT ![o] = "finished"]
      /\ UNCHANGED <<active, started, removed, run, scanned, handlers, mode>>
  BY DEF LateThread
<1>3. report' \in [Operations -> Reports]
  BY <1>1 DEF LateThread, JobsType, ReportIs, Reports
<1>4. JobsType'
  BY <1>1, <1>2, <1>3 DEF JobsType
<1>5. FilesType' /\ CountsType' /\ Keeps
  <2>1. CASE UNCHANGED files /\ (Trouble \/ Untroubled)
    BY <1>1, <2>1, SameFilesKeep, TroubleType
  <2>2. CASE \E st \in {"accepted", "rejected"} : SetState(o, st) \/ SetStateRaises(o)
    BY <1>1, <2>2, SetStateKeeps
  <2>3. QED  BY <2>1, <2>2 DEF LateThread, files
<1>6. QED  BY <1>2, <1>4, <1>5, TaskStep

\* A step that moves no task and leaves the journal and the handlers alone.
LEMMA SurroundingStep ==
    ASSUME Inv, JobsType', Trouble \/ Untroubled, UNCHANGED <<files, started, run, handlers>>
    PROVE  Inv'
<1>1. FilesType /\ CountsType
  BY TypeParts DEF Inv
<1>2. QED  BY <1>1, SameFilesKeep, TroubleType, TaskStep

LEMMA FinishStep == ASSUME Inv, NEW o \in Operations, Finish(o) PROVE Inv'
<1>1. JobsType'
  BY TypeParts DEF Inv, JobsType, Finish, ReportIs, Reports, tasks
<1>2. QED  BY <1>1, SurroundingStep DEF Finish, tasks

LEMMA ExplainStep == ASSUME Inv, NEW o \in Operations, Explain(o) PROVE Inv'
<1>1. JobsType'
  BY TypeParts DEF Inv, JobsType, Explain, ReportIs, Reports, tasks
<1>2. QED  BY <1>1, SurroundingStep DEF Explain, tasks, Untroubled

LEMMA RemoveStep == ASSUME Inv, NEW o \in Operations, Remove(o) PROVE Inv'
<1>1. JobsType'
  BY TypeParts DEF Inv, JobsType, Remove, ReportIs, Reports, tasks
<1>2. QED  BY <1>1, SurroundingStep DEF Remove, tasks, Untroubled

LEMMA RestoreStep == ASSUME Inv, NEW o \in Operations, Restore(o) PROVE Inv'
<1>1. JobsType'
  BY TypeParts DEF Inv, JobsType, Restore, ReportIs, Reports, tasks
<1>2. QED  BY <1>1, SurroundingStep DEF Restore, tasks, Untroubled

\* Where the receipts went nothing is read again, so nothing is taken for new.
LEMMA LoseJournalStep == ASSUME Inv, LoseJournal PROVE Inv'
<1>1. FilesType /\ CountsType /\ JobsType
  BY TypeParts DEF Inv
<1>2. /\ journal' = Damaged \/ (backup # Absent /\ journal' = Absent)
      /\ backup' = backup /\ UNCHANGED <<scans, tasks, handlers, mode>> /\ Trouble
  BY DEF LoseJournal
<1>3. ~Readable' /\ FilesType'
  BY <1>1, <1>2, AbsentAssumption DEF Readable, Load, FilesType
<1>4. JobsType' /\ UNCHANGED <<run, started>>
  BY <1>1, <1>2, SameJobs
<1>5. CountsType'
  BY <1>1, <1>2, TroubleType
<1>6. QED  BY <1>2, <1>3, <1>4, <1>5, TaskStep DEF Keeps

LEMMA CancelKeeps ==
    ASSUME JobsType, NEW ops \in SUBSET Operations, Cancel(ops),
           UNCHANGED <<scans, scanned>>, mode' \in {"up", "stopping", "down"}
    PROVE  /\ JobsType' /\ started' = started
           /\ \A o \in Operations : run'[o] \in Early => run[o] \in Early
<1>1. run' = [o \in Operations |-> IF o \in ops THEN AfterCancel(run[o]) ELSE run[o]]
  BY DEF Cancel
<1>2. \A stage \in Stages :
          AfterCancel(stage) \in Stages /\ (AfterCancel(stage) \in Early => stage \in Early)
  BY DEF AfterCancel, Stages, Early
<1>3. /\ run' \in [Operations -> Stages]
      /\ \A o \in Operations : run'[o] \in Early => run[o] \in Early
  BY <1>1, <1>2 DEF JobsType
<1>4. late' \in [Operations -> {"none", "save", "drop", "accept", "reject", "finished"}]
  <2>1. PICK begun \in SUBSET (Threaded \cap ops) :
            late' = [o \in Operations |-> IF o \in begun THEN run[o] ELSE late[o]]
    BY DEF Cancel
  <2>2. \A o \in begun : run[o] \in {"save", "drop", "accept", "reject"}
    BY <2>1 DEF Threaded
  <2>3. QED  BY <2>1, <2>2 DEF JobsType
<1>5. QED  BY <1>3, <1>4 DEF JobsType, scans

LEMMA ShutdownStep == ASSUME Inv, Shutdown PROVE Inv'
<1>1. FilesType /\ CountsType /\ JobsType
  BY TypeParts DEF Inv
<1>2. /\ Cancel(Operations) /\ mode' = "stopping" /\ Stop
      /\ UNCHANGED <<files, scans, scanned, handlers>>
  BY DEF Shutdown
<1>3. /\ JobsType' /\ started' = started
      /\ \A o \in Operations : run'[o] \in Early => run[o] \in Early
  BY <1>1, <1>2, CancelKeeps
<1>4. QED  BY <1>1, <1>2, <1>3, SameFilesKeep, TroubleType, TaskStep

LEMMA CancelRestStep == ASSUME Inv, CancelRest PROVE Inv'
<1>1. FilesType /\ CountsType /\ JobsType
  BY TypeParts DEF Inv
<1>2. PICK o \in Operations : Cancel({o})
  BY DEF CancelRest
<1>3. UNCHANGED <<files, scans, scanned, handlers, mode, counts>>
  BY DEF CancelRest
<1>4. {o} \in SUBSET Operations /\ mode' \in {"up", "stopping", "down"}
  BY <1>1, <1>3 DEF JobsType
<1>5. /\ JobsType' /\ started' = started
      /\ \A p \in Operations : run'[p] \in Early => run[p] \in Early
  BY <1>1, <1>2, <1>3, <1>4, CancelKeeps
<1>6. QED  BY <1>1, <1>3, <1>5, SameFilesKeep, SameCountsType, TaskStep

LEMMA HaltStep == ASSUME Inv, Halt PROVE Inv'
<1>1. FilesType /\ CountsType /\ JobsType /\ HandlersType
  BY TypeParts DEF Inv
<1>2. /\ mode' = "down" /\ active' = [o \in Operations |-> FALSE]
      /\ run' = [o \in Operations |-> "none"]
      /\ late' = [o \in Operations |-> IF late[o] = "finished" THEN "finished" ELSE "none"]
      /\ pc' = [c \in Clients |-> "idle"] /\ receipt' = [c \in Clients |-> Nothing]
      /\ seen' = [c \in Clients |-> "none"] /\ admission' = Nobody
      /\ UNCHANGED <<files, report, started, removed, scanned, request, answer>>
  BY DEF Halt
<1>3. Stop \/ Untroubled
  BY DEF Halt
<1>4. JobsType' /\ \A o \in Operations : run'[o] \notin Early
  BY <1>1, <1>2 DEF JobsType, Stages, Early
<1>5. HandlersType'
  BY <1>1, <1>2, NobodyAssumption DEF HandlersType, HandlersInv, Places, Reports, Section
<1>6. FilesType' /\ Keeps /\ CountsType'
  BY <1>1, <1>2, <1>3, SameFilesKeep, TroubleType
<1>7. Once'
  <2>1. \A c \in Clients : pc'[c] = "idle"
    BY <1>2
  <2>2. StartedOnce' /\ \A o \in Operations : Fresh(o) => Fresh(o)'
    BY <1>2, <1>4 DEF Inv, Once, StartedOnce, Fresh
  <2>3. UnrecordedIsFresh'
    BY <1>6, <2>1, <2>2 DEF Inv, Once, UnrecordedIsFresh, Keeps
  <2>4. LaunchedIsFresh' /\ NewIsUnrecorded'
    BY <2>1 DEF LaunchedIsFresh, NewIsUnrecorded, Pending
  <2>5. QED  BY <2>2, <2>3, <2>4 DEF Once
<1>8. QED  BY <1>4, <1>5, <1>6, <1>7, TypePartsNext DEF Inv

LEMMA RestartStep == ASSUME Inv, Restart PROVE Inv'
<1>1. /\ report' \in [Operations -> Reports] /\ mode' = "up" /\ (Trouble \/ Untroubled)
      /\ UNCHANGED <<files, active, started, removed, tasks, handlers>>
  BY TypeParts DEF Inv, JobsType, Restart, Reports
<1>2. JobsType'
  BY <1>1, TypeParts DEF Inv, JobsType, tasks
<1>3. QED  BY <1>1, <1>2, SurroundingStep DEF tasks

-----------------------------------------------------------------------------
(* The theorems *)

LEMMA InvInit == Init => Inv
<1> SUFFICES ASSUME Init PROVE Inv
  OBVIOUS
<1>1. FilesType /\ CountsType /\ JobsType
  BY StartBoundsAssumption DEF Init, FilesType, CountsType, JobsType, Reports, Stages
<1>2. HandlersType
  BY NobodyAssumption DEF Init, HandlersType, HandlersInv, Places, Reports, Answers, Section
<1>3. Once
  BY DEF Init, Once, StartedOnce, UnrecordedIsFresh, LaunchedIsFresh, NewIsUnrecorded,
         Pending, Fresh, Early
<1>4. QED  BY <1>1, <1>2, <1>3, TypeParts DEF Inv

LEMMA InvNext == Inv /\ [Next]_vars => Inv'
<1> SUFFICES ASSUME Inv, [Next]_vars PROVE Inv'
  OBVIOUS
<1>1. ASSUME NEW c \in Clients, NEW o \in Operations, Receive(c, "status", o, Nothing)
      PROVE  Inv'
  BY <1>1, ReceiveStep
<1>2. ASSUME NEW c \in Clients, NEW o \in Operations, NEW s \in Settings,
             Receive(c, "submit", o, s)
      PROVE  Inv'
  BY <1>2, ReceiveStep
<1>3. ASSUME NEW c \in Clients, Handle(c) PROVE Inv'
  BY <1>3, HandleStep
<1>4. ASSUME NEW o \in Operations,
             \/ Prepare(o) \/ LateThread(o)
             \/ Finish(o) \/ Explain(o) \/ Remove(o) \/ Restore(o)
      PROVE  Inv'
  BY <1>4, PrepareStep, LateThreadStep, FinishStep, ExplainStep, RemoveStep, RestoreStep
<1>5. CASE LoseJournal \/ Shutdown \/ CancelRest \/ Halt \/ Restart
  BY <1>5, LoseJournalStep, ShutdownStep, CancelRestStep, HaltStep, RestartStep
<1>6. CASE UNCHANGED vars
  <2>1. JobsType'
    BY <1>6, TypeParts, SameJobs DEF Inv, vars
  <2>2. QED  BY <1>6, <2>1, SurroundingStep DEF vars, scans, tasks, Untroubled
<1>7. QED  BY <1>1, <1>2, <1>3, <1>4, <1>5, <1>6 DEF Next

\* The inductive invariant: the types, and the four facts about operations that are not
\* yet, or only just, recorded in the journal.
THEOREM Invariance == Spec => []Inv
  BY InvInit, InvNext, PTL DEF Spec

\* Every variable of a start keeps its type, and the admission lock is held by the
\* handler that is inside the section between its look at the journal and its task.
THEOREM TypeCorrect == Spec => []TypeOK
<1>1. Inv => TypeOK
  BY DEF Inv, Types
<1>2. QED  BY <1>1, Invariance, PTL

\* An operation registers at most one job, however often it is submitted and whatever
\* file operations fail, for any number of operations, clients and restarts.
THEOREM OneIntentionOneJob == Spec => []AtMostOneJob
<1>1. Inv => AtMostOneJob
  BY DEF Inv, Once, StartedOnce, AtMostOneJob
<1>2. QED  BY <1>1, Invariance, PTL

-----------------------------------------------------------------------------
(* What a start leaves behind.  Each operation goes once through its stages, *)
(* from Launch (which its settings in `scanned` remember) to a late thread   *)
(* of a cancelled task; Life says of an operation what its report, its job,  *)
(* its receipt and such a thread can be at each stage.                       *)

Preparation == {"check", "save", "start", "drop"}

Afterwards == {"none", "inspect", "consider", "close", "interrupt", "failed"}

\* No job, and no report but one of a scan that ran, removed by the user.
Gone(o) == ~active[o] /\ (report[o] = "none" \/ (started[o] = 1 /\ o \in removed))

Removals(o) == report[o] = "removed" => o \in removed

ClosedOrRun(o) == report[o] = "queued" => started[o] = 1 \/ late[o] = "finished"

Unlaunched(o) ==
    scanned[o] = Nothing =>
        /\ run[o] = "none" /\ report[o] = "none" /\ late[o] = "none"
        /\ started[o] = 0 /\ ~active[o]

Runs(o) == active[o] => started[o] = 1 /\ report[o] \in {"queued", "finished"}

Prepares(o) ==
    /\ run[o] \in Preparation => started[o] = 0 /\ report[o] \in {"none", "queued"}
    /\ run[o] \in {"check", "save"} => report[o] = "none"
    /\ run[o] = "start" => report[o] = "queued"
    /\ run[o] \in {"accept", "ok"} => started[o] = 1
    /\ run[o] = "find" => report[o] = "none" \/ started[o] = 1
    /\ run[o] = "reject" => Gone(o)
    /\ run[o] = "interrupt" => ClosedOrRun(o)

Leaves(o) ==
    /\ late[o] # "none" => run[o] \in Afterwards
    /\ late[o] \in {"save", "drop"} => started[o] = 0
    /\ late[o] = "accept" => started[o] = 1
    /\ late[o] = "reject" => Gone(o) /\ run[o] = "failed"

Records(o) ==
    /\ ReceiptSays(o, "accepted") => started[o] = 1
    /\ ReceiptSays(o, "rejected") => Gone(o) /\ run[o] \in {"none", "failed"} /\ late[o] # "save"
    /\ ReceiptSays(o, "interrupted") => ClosedOrRun(o) /\ run[o] \in {"none", "failed"}
    /\ \A st \in {"accepted", "rejected", "interrupted"} :
          ReceiptSays(o, st) => scanned[o] # Nothing

Life(o) == Unlaunched(o) /\ Runs(o) /\ Prepares(o) /\ Leaves(o) /\ Records(o) /\ Removals(o)

Lives == \A o \in Operations : Life(o)

\* What a step does to receipts that are there: a state of o, out of S, is new.
Marks(o, S) ==
    \A p \in Operations, st \in {"preparing", "accepted", "rejected", "interrupted"} :
        ReceiptSays(p, st)' => ReceiptSays(p, st) \/ (p = o /\ st \in S)

\* The receipts there are keep their settings.
KeepsSettings ==
    Readable' => \A o \in Operations :
                    Load[o] # Nothing => Load'[o].settings = Load[o].settings

LEMMA SameFilesMark ==
    ASSUME UNCHANGED files, NEW o, NEW S
    PROVE  Marks(o, S) /\ KeepsSettings
  BY DEF files, Marks, ReceiptSays, KeepsSettings, Readable, Load

LEMMA RaisingWriteMarks ==
    ASSUME FilesType, Readable, WriteRaises, NEW o, NEW S
    PROVE  Marks(o, S) /\ KeepsSettings
<1>1. journal \in Journal \/ (journal = Absent /\ backup = Absent)
  BY DEF FilesType, Readable, Load
<1>2. journal' = journal /\ Load' = Load
  BY <1>1, AbsentAssumption DEF WriteRaises, Load
<1>3. QED  BY <1>2 DEF Marks, ReceiptSays, KeepsSettings

LEMMA SetStateMarks ==
    ASSUME FilesType, NEW o \in Operations, NEW S,
           NEW st \in {"preparing", "accepted", "rejected", "interrupted"}, st \in S,
           SetState(o, st) \/ SetStateRaises(o)
    PROVE  Marks(o, S) /\ KeepsSettings
<1>1. CASE SetState(o, st)
  <2>1. Readable /\ Load \in Journal /\ Load[o] # Nothing
    BY <1>1, LoadType DEF SetState, Has
  <2>2. Load[o] \in Receipt /\ journal = Load
    BY <2>1, AbsentAssumption DEF Journal, Load, Empty
  <2>3. /\ [Load[o] EXCEPT !.state = st] \in Receipt
        /\ [Load[o] EXCEPT !.state = st].state = st
        /\ [Load[o] EXCEPT !.state = st].settings = Load[o].settings
    BY <2>2 DEF Receipt
  <2>4. /\ Recorded(o, st) = [Load EXCEPT ![o] = [Load[o] EXCEPT !.state = st]]
        /\ Recorded(o, st) \in Journal
    BY <2>1, <2>3 DEF Recorded, Journal
  <2>5. /\ Recorded(o, st)[o].state = st /\ Recorded(o, st)[o].settings = Load[o].settings
        /\ \A p \in Operations : p # o => Recorded(o, st)[p] = Load[p]
    BY <2>1, <2>3, <2>4 DEF Journal
  <2>6. FilesType' /\ Readable' /\ Load' = Recorded(o, st) /\ journal' = Recorded(o, st)
    BY <1>1, <2>4, WriteLoads DEF SetState, Write
  <2>7. Marks(o, S)
    BY <2>1, <2>2, <2>4, <2>5, <2>6 DEF Marks, ReceiptSays
  <2>8. KeepsSettings
    BY <2>5, <2>6 DEF KeepsSettings
  <2>9. QED  BY <2>7, <2>8
<1>2. CASE SetStateRaises(o)
  BY <1>2, RaisingWriteMarks, SameFilesMark DEF SetStateRaises, Has
<1>3. QED  BY <1>1, <1>2

\* An operation nobody touches, but for the loss of its receipt.
LEMMA LifeElsewhere ==
    ASSUME NEW p \in Operations, Life(p), NEW o, NEW S, Marks(o, S), p # o \/ S = {},
           run'[p] = run[p], report'[p] = report[p], late'[p] = late[p],
           started'[p] = started[p], active'[p] = active[p], scanned'[p] = scanned[p],
           p \in removed' <=> p \in removed
    PROVE  Life(p)'
<1>1. \A st \in {"accepted", "rejected", "interrupted"} :
          ReceiptSays(p, st)' => ReceiptSays(p, st)
  BY DEF Marks
<1>2. Records(p)'
  BY <1>1 DEF Life, Records, Gone, ClosedOrRun, Loadable
<1>3. Unlaunched(p)' /\ Runs(p)' /\ Prepares(p)' /\ Leaves(p)' /\ Removals(p)'
  BY DEF Life, Unlaunched, Runs, Prepares, Leaves, Removals, Gone, ClosedOrRun, Loadable
<1>4. QED  BY <1>2, <1>3 DEF Life

\* A scan that was admitted, or whose report a stop has closed.
Settled(o) == started[o] = 1 \/ report[o] \notin {"none", "queued"} \/ late[o] = "finished"

\* What a step leaves to the handlers: which scans are admitted, and which settings each has.
KeepsJobs ==
    /\ scanned' = scanned
    /\ \A o \in Operations : /\ Settled(o) => Settled(o)'
                             /\ started[o] = 1 => started'[o] = 1

LEMMA PrepareFrame ==
    ASSUME JobsType, NEW o \in Operations, Prepare(o)
    PROVE  /\ run' = [run EXCEPT ![o] = run'[o]] /\ run[o] # "none" /\ run'[o] \in Stages
           /\ report' = [report EXCEPT ![o] = report'[o]]
           /\ active' = [active EXCEPT ![o] = active'[o]]
           /\ started' = [started EXCEPT ![o] = started'[o]]
           /\ UNCHANGED <<late, removed, scanned, handlers, mode>>
<1>0. /\ run \in [Operations -> Stages] /\ report \in [Operations -> Reports]
      /\ active \in [Operations -> BOOLEAN] /\ started \in [Operations -> Nat]
  BY DEF JobsType
<1>1. /\ run' = [run EXCEPT ![o] = run'[o]] /\ run[o] # "none" /\ run'[o] \in Stages
  BY <1>0 DEF Prepare, Check, Save, Start, Drop, Accept, Find, Reject, Inspect, Consider, Close,
              Interrupt, Advance, Stages
<1>2. /\ report' = [report EXCEPT ![o] = report'[o]]
      /\ active' = [active EXCEPT ![o] = active'[o]]
      /\ started' = [started EXCEPT ![o] = started'[o]]
  BY <1>0 DEF Prepare, Check, Save, Start, Drop, Accept, Find, Reject, Inspect, Consider, Close,
              Interrupt, ReportIs, scans
<1>3. UNCHANGED <<late, removed, scanned, handlers, mode>>
  BY DEF Prepare, Check, Save, Start, Drop, Accept, Find, Reject, Inspect, Consider, Close,
         Interrupt, scans
<1>4. QED  BY <1>1, <1>2, <1>3

LEMMA MarkEffect ==
    ASSUME FilesType, CountsType, NEW o \in Operations,
           NEW st \in {"accepted", "rejected", "interrupted"}, SetState(o, st) \/ SetStateRaises(o)
    PROVE  Keeps /\ KeepsSettings /\ Marks(o, {st})
<1>1. Keeps
  BY SetStateKeeps
<1>2. st \in {"preparing", "accepted", "rejected", "interrupted"} /\ st \in {st}
  OBVIOUS
<1>3. QED  BY <1>1, <1>2, SetStateMarks

LEMMA PrepareFiles ==
    ASSUME FilesType, CountsType, NEW o \in Operations, Prepare(o)
    PROVE  /\ Keeps /\ KeepsSettings
           /\ Accept(o) => Marks(o, {"accepted"})
           /\ Reject(o) => Marks(o, {"rejected"})
           /\ Interrupt(o) => Marks(o, {"interrupted"})
           /\ ~(Accept(o) \/ Reject(o) \/ Interrupt(o)) => Marks(o, {})
<1>1. CASE Accept(o)
  <2>1. run[o] = "accept" /\ (SetState(o, "accepted") \/ SetStateRaises(o))
    BY <1>1 DEF Accept
  <2>2. Keeps /\ KeepsSettings /\ Marks(o, {"accepted"})
    BY <2>1, MarkEffect
  <2>3. ~Reject(o) /\ ~Interrupt(o)
    BY <2>1 DEF Reject, Interrupt
  <2>4. QED  BY <1>1, <2>2, <2>3
<1>2. CASE Reject(o)
  <2>1. run[o] = "reject" /\ (SetState(o, "rejected") \/ SetStateRaises(o))
    BY <1>2 DEF Reject
  <2>2. Keeps /\ KeepsSettings /\ Marks(o, {"rejected"})
    BY <2>1, MarkEffect
  <2>3. ~Accept(o) /\ ~Interrupt(o)
    BY <2>1 DEF Accept, Interrupt
  <2>4. QED  BY <1>2, <2>2, <2>3
<1>3. CASE Interrupt(o)
  <2>1. run[o] = "interrupt" /\ (SetState(o, "interrupted") \/ SetStateRaises(o))
    BY <1>3 DEF Interrupt
  <2>2. Keeps /\ KeepsSettings /\ Marks(o, {"interrupted"})
    BY <2>1, MarkEffect
  <2>3. ~Accept(o) /\ ~Reject(o)
    BY <2>1 DEF Accept, Reject
  <2>4. QED  BY <1>3, <2>2, <2>3
<1>4. CASE ~(Accept(o) \/ Reject(o) \/ Interrupt(o))
  <2>1. UNCHANGED files
    BY <1>4 DEF Prepare, Check, Save, Start, Drop, Find, Inspect, Consider, Close
  <2>2. QED  BY <1>4, <2>1, SameFilesKeep, SameFilesMark
<1>5. QED  BY <1>1, <1>2, <1>3, <1>4

\* The steps of a task keep its operation's life.
LEMMA PrepareLife ==
    ASSUME Types, StartedOnce, Lives, NEW o \in Operations, Prepare(o)
    PROVE  /\ Life(o)'
           /\ Settled(o) => Settled(o)'
           /\ started[o] = 1 => started'[o] = 1
<1>0. FilesType /\ CountsType /\ JobsType
  BY TypeParts
<1>1. /\ Unlaunched(o) /\ Runs(o) /\ Prepares(o) /\ Leaves(o) /\ Records(o) /\ Removals(o)
      /\ started[o] \in {0, 1} /\ (run[o] \in Early => started[o] = 0)
  BY DEF Lives, Life, StartedOnce
<1>2. /\ run' = [run EXCEPT ![o] = run'[o]] /\ run[o] # "none"
      /\ late'[o] = late[o] /\ scanned'[o] = scanned[o] /\ scanned[o] # Nothing
      /\ removed' = removed
      /\ active[o] \in BOOLEAN /\ report[o] \in Reports
      /\ run \in [Operations -> Stages] /\ report \in [Operations -> Reports]
      /\ active \in [Operations -> BOOLEAN] /\ started \in [Operations -> Nat]
  BY <1>0, <1>1, PrepareFrame DEF JobsType, Unlaunched
<1>3. Unlaunched(o)' /\ Removals(o)'
  <2>1. report'[o] \in {report[o], "none", "queued", "finished"}
    BY <1>0 DEF JobsType, Prepare, Check, Save, Start, Drop, Accept, Find, Reject, Inspect,
                Consider, Close, Interrupt, ReportIs, scans
  <2>2. QED  BY <1>1, <1>2, <2>1 DEF Unlaunched, Removals
<1>4. ASSUME Marks(o, {}) PROVE
          \A st \in {"accepted", "rejected", "interrupted"} : ReceiptSays(o, st)' => ReceiptSays(o, st)
  BY <1>4 DEF Marks
<1> USE DEF Loadable, Gone, ClosedOrRun, Settled
<1>5. CASE Check(o)
  <2>1. /\ run[o] = "check" /\ run'[o] \in {"save", "find", "failed"}
        /\ report'[o] = report[o] /\ active'[o] = active[o] /\ started'[o] = started[o]
    BY <1>2, <1>5 DEF Check, Advance, scans
  <2>2. Marks(o, {})
    BY <1>0, <1>5, PrepareFiles DEF Prepare, Check, Accept, Reject, Interrupt
  <2>3. Runs(o)' /\ Prepares(o)' /\ Leaves(o)'
    BY <1>1, <1>2, <2>1 DEF Runs, Prepares, Leaves, Preparation, Afterwards
  <2>4. Records(o)'
    BY <1>1, <1>2, <1>4, <2>1, <2>2 DEF Records
  <2>5. QED  BY <1>2, <1>3, <2>1, <2>3, <2>4 DEF Life
<1>6. CASE Save(o)
  <2>1. /\ run[o] = "save" /\ active'[o] = active[o] /\ started'[o] = started[o]
        /\ \/ run'[o] = "start" /\ report'[o] = "queued"
           \/ run'[o] = "failed" /\ report'[o] = report[o]
    BY <1>2, <1>6 DEF Save, Advance, ReportIs
  <2>2. Marks(o, {})
    BY <1>0, <1>6, PrepareFiles DEF Prepare, Save, Accept, Reject, Interrupt
  <2>3. Runs(o)' /\ Prepares(o)' /\ Leaves(o)'
    BY <1>1, <1>2, <2>1 DEF Runs, Prepares, Leaves, Preparation, Afterwards, Early
  <2>4. Records(o)'
    BY <1>1, <1>2, <1>4, <2>1, <2>2 DEF Records
  <2>5. Settled(o) => Settled(o)'
    BY <1>1, <1>2, <2>1 DEF Prepares, Leaves, Preparation, Afterwards
  <2>6. QED  BY <1>2, <1>3, <2>1, <2>3, <2>4, <2>5 DEF Life
<1>7. CASE Start(o)
  <2>1. /\ run[o] = "start" /\ report'[o] = report[o]
        /\ \/ run'[o] = "accept" /\ active'[o] = TRUE /\ started'[o] = started[o] + 1
           \/ run'[o] = "drop" /\ active'[o] = active[o] /\ started'[o] = started[o]
    BY <1>2, <1>7 DEF Start, Advance
  <2>2. Marks(o, {})
    BY <1>0, <1>7, PrepareFiles DEF Prepare, Start, Accept, Reject, Interrupt
  <2>3. Runs(o)' /\ Prepares(o)' /\ Leaves(o)'
    BY <1>1, <1>2, <2>1 DEF Runs, Prepares, Leaves, Preparation, Afterwards
  <2>4. started[o] = 0
    BY <1>1, <2>1 DEF Early
  <2>5. Records(o)'
    BY <1>1, <1>2, <1>4, <2>1, <2>2, <2>4 DEF Records
  <2>6. QED  BY <1>2, <1>3, <2>1, <2>3, <2>4, <2>5 DEF Life
<1>8. CASE Drop(o)
  <2>1. /\ run[o] = "drop" /\ active'[o] = active[o] /\ started'[o] = started[o]
        /\ \/ run'[o] = "find" /\ report'[o] = "none"
           \/ run'[o] = "failed" /\ report'[o] = report[o]
    BY <1>2, <1>8 DEF Drop, Advance, ReportIs
  <2>2. Marks(o, {})
    BY <1>0, <1>8, PrepareFiles DEF Prepare, Drop, Accept, Reject, Interrupt
  <2>3. Runs(o)' /\ Prepares(o)' /\ Leaves(o)'
    BY <1>1, <1>2, <2>1 DEF Runs, Prepares, Leaves, Preparation, Afterwards
  <2>4. Records(o)'
    BY <1>1, <1>2, <1>4, <2>1, <2>2 DEF Records
  <2>5. Settled(o) => Settled(o)'
    BY <1>1, <1>2, <2>1 DEF Prepares, Leaves, Preparation, Afterwards
  <2>6. QED  BY <1>2, <1>3, <2>1, <2>3, <2>4, <2>5 DEF Life
<1>9. CASE Accept(o)
  <2>1. /\ run[o] = "accept" /\ run'[o] \in {"ok", "find"}
        /\ report'[o] = report[o] /\ active'[o] = active[o] /\ started'[o] = started[o]
    BY <1>2, <1>9 DEF Accept, Advance, scans
  <2>2. \A st \in {"rejected", "interrupted"} : ReceiptSays(o, st)' => ReceiptSays(o, st)
    BY <1>0, <1>9, PrepareFiles DEF Prepare, Marks
  <2>3. Runs(o)' /\ Prepares(o)' /\ Leaves(o)'
    BY <1>1, <1>2, <2>1 DEF Runs, Prepares, Leaves, Preparation, Afterwards
  <2>4. Records(o)'
    BY <1>1, <1>2, <2>1, <2>2 DEF Records, Prepares
  <2>5. QED  BY <1>2, <1>3, <2>1, <2>3, <2>4 DEF Life
<1>10. CASE Find(o)
  <2>1. /\ run[o] = "find" /\ (run'[o] = "failed" \/ (run'[o] = "reject" /\ ~Loadable(o)))
        /\ report'[o] = report[o] /\ active'[o] = active[o] /\ started'[o] = started[o]
    BY <1>2, <1>10 DEF Find, Advance, scans
  <2>2. Marks(o, {})
    BY <1>0, <1>10, PrepareFiles DEF Prepare, Find, Accept, Reject, Interrupt
  <2>3. Runs(o)' /\ Prepares(o)' /\ Leaves(o)'
    BY <1>1, <1>2, <2>1 DEF Runs, Prepares, Leaves, Removals, Preparation, Afterwards
  <2>4. Records(o)'
    BY <1>1, <1>2, <1>4, <2>1, <2>2 DEF Records
  <2>5. QED  BY <1>2, <1>3, <2>1, <2>3, <2>4 DEF Life
<1>11. CASE Reject(o)
  <2>1. /\ run[o] = "reject" /\ run'[o] = "failed"
        /\ report'[o] = report[o] /\ active'[o] = active[o] /\ started'[o] = started[o]
    BY <1>2, <1>11 DEF Reject, Advance, scans
  <2>2. \A st \in {"accepted", "interrupted"} : ReceiptSays(o, st)' => ReceiptSays(o, st)
    BY <1>0, <1>11, PrepareFiles DEF Prepare, Marks
  <2>3. Runs(o)' /\ Prepares(o)' /\ Leaves(o)'
    BY <1>1, <1>2, <2>1 DEF Runs, Prepares, Leaves, Preparation, Afterwards
  <2>4. Gone(o) /\ late[o] = "none"
    BY <1>1, <2>1 DEF Prepares, Leaves, Afterwards
  <2>5. Records(o)'
    BY <1>1, <1>2, <2>1, <2>2, <2>4 DEF Records
  <2>6. QED  BY <1>2, <1>3, <2>1, <2>3, <2>5 DEF Life
<1>12. CASE Inspect(o)
  <2>1. /\ run[o] = "inspect" /\ run'[o] \in {"consider", "interrupt", "failed"}
        /\ run'[o] = "interrupt" => ~Unfinished(report[o])
        /\ report'[o] = report[o] /\ active'[o] = active[o] /\ started'[o] = started[o]
    BY <1>2, <1>12 DEF Inspect, Advance, scans
  <2>2. Marks(o, {})
    BY <1>0, <1>12, PrepareFiles DEF Prepare, Inspect, Accept, Reject, Interrupt
  <2>3. Runs(o)' /\ Prepares(o)' /\ Leaves(o)'
    BY <1>1, <1>2, <2>1 DEF Runs, Prepares, Leaves, Preparation, Afterwards, Unfinished
  <2>4. Records(o)'
    BY <1>1, <1>2, <1>4, <2>1, <2>2 DEF Records
  <2>5. QED  BY <1>2, <1>3, <2>1, <2>3, <2>4 DEF Life
<1>13. CASE Consider(o)
  <2>1. /\ run[o] = "consider" /\ run'[o] \in {"interrupt", "close"}
        /\ run'[o] = "interrupt" => active[o]
        /\ report'[o] = report[o] /\ active'[o] = active[o] /\ started'[o] = started[o]
    BY <1>2, <1>13 DEF Consider, Advance, scans
  <2>2. Marks(o, {})
    BY <1>0, <1>13, PrepareFiles DEF Prepare, Consider, Accept, Reject, Interrupt
  <2>3. Runs(o)' /\ Prepares(o)' /\ Leaves(o)'
    BY <1>1, <1>2, <2>1 DEF Runs, Prepares, Leaves, Preparation, Afterwards
  <2>4. Records(o)'
    BY <1>1, <1>2, <1>4, <2>1, <2>2 DEF Records
  <2>5. QED  BY <1>2, <1>3, <2>1, <2>3, <2>4 DEF Life
<1>14. CASE Close(o)
  <2>1. /\ run[o] = "close" /\ active'[o] = active[o] /\ started'[o] = started[o]
        /\ \/ Loadable(o) /\ run'[o] = "interrupt" /\ report'[o] = "finished"
           \/ run'[o] = "failed" /\ report'[o] = report[o]
    BY <1>2, <1>14 DEF Close, Advance, ReportIs
  <2>2. Marks(o, {})
    BY <1>0, <1>14, PrepareFiles DEF Prepare, Close, Accept, Reject, Interrupt
  <2>3. Runs(o)' /\ Prepares(o)' /\ Leaves(o)'
    BY <1>1, <1>2, <2>1 DEF Runs, Prepares, Leaves, Preparation, Afterwards
  <2>4. Records(o)'
    BY <1>1, <1>2, <1>4, <2>1, <2>2 DEF Records
  <2>5. QED  BY <1>2, <1>3, <2>1, <2>3, <2>4 DEF Life
<1>15. CASE Interrupt(o)
  <2>1. /\ run[o] = "interrupt" /\ run'[o] = "failed"
        /\ report'[o] = report[o] /\ active'[o] = active[o] /\ started'[o] = started[o]
    BY <1>2, <1>15 DEF Interrupt, Advance, scans
  <2>2. \A st \in {"accepted", "rejected"} : ReceiptSays(o, st)' => ReceiptSays(o, st)
    BY <1>0, <1>15, PrepareFiles DEF Prepare, Marks
  <2>3. Runs(o)' /\ Prepares(o)' /\ Leaves(o)'
    BY <1>1, <1>2, <2>1 DEF Runs, Prepares, Leaves, Preparation, Afterwards
  <2>4. ClosedOrRun(o)
    BY <1>1, <2>1 DEF Prepares
  <2>5. Records(o)'
    BY <1>1, <1>2, <2>1, <2>2, <2>4 DEF Records
  <2>6. QED  BY <1>2, <1>3, <2>1, <2>3, <2>5 DEF Life
<1>16. QED
  BY <1>5, <1>6, <1>7, <1>8, <1>9, <1>10, <1>11, <1>12, <1>13, <1>14, <1>15 DEF Prepare

\* What the steps that leave the handlers alone do to every operation.
LifeKept == Lives' /\ KeepsJobs /\ Keeps /\ KeepsSettings

\* A step of one task, or of what surrounds it.
LEMMA OneLife ==
    ASSUME Lives, NEW o \in Operations, Life(o)', NEW S, Marks(o, S), Keeps, KeepsSettings,
           Settled(o) => Settled(o)', started[o] = 1 => started'[o] = 1, scanned' = scanned,
           \A p \in Operations : p # o =>
               /\ run'[p] = run[p] /\ report'[p] = report[p] /\ late'[p] = late[p]
               /\ started'[p] = started[p] /\ active'[p] = active[p]
               /\ p \in removed' <=> p \in removed
    PROVE  LifeKept
<1>1. ASSUME NEW p \in Operations, p # o PROVE Life(p)'
  BY <1>1, LifeElsewhere DEF Lives
<1>2. KeepsJobs
  BY DEF KeepsJobs, Settled
<1>3. QED  BY <1>1, <1>2 DEF LifeKept, Lives

LEMMA PrepareKept ==
    ASSUME Types, StartedOnce, Lives, NEW o \in Operations, Prepare(o)
    PROVE  LifeKept
<1>1. FilesType /\ CountsType /\ JobsType
  BY TypeParts
<1>2. PICK S \in SUBSET {"accepted", "rejected", "interrupted"} : Marks(o, S)
  BY <1>1, PrepareFiles
<1>3. \A p \in Operations : p # o =>
          /\ run'[p] = run[p] /\ report'[p] = report[p] /\ late'[p] = late[p]
          /\ started'[p] = started[p] /\ active'[p] = active[p]
          /\ p \in removed' <=> p \in removed
  BY <1>1, PrepareFrame DEF JobsType
<1>4. Keeps /\ KeepsSettings /\ scanned' = scanned
  BY <1>1, PrepareFiles, PrepareFrame
<1>5. QED  BY <1>2, <1>3, <1>4, PrepareLife, OneLife

LEMMA LateThreadKept ==
    ASSUME Types, StartedOnce, Lives, NEW o \in Operations, LateThread(o)
    PROVE  LifeKept
<1>0. FilesType /\ CountsType /\ JobsType
  BY TypeParts
<1>1. /\ Unlaunched(o) /\ Runs(o) /\ Prepares(o) /\ Leaves(o) /\ Records(o) /\ Removals(o)
      /\ started[o] \in {0, 1}
  BY DEF Lives, Life, StartedOnce
<1>2. /\ late' = [late EXCEPT ![o] = "finished"] /\ late[o] \notin {"none", "finished"}
      /\ UNCHANGED <<active, started, removed, run, scanned, handlers, mode>>
      /\ report' = [report EXCEPT ![o] = report'[o]] /\ late'[o] = "finished"
      /\ late[o] \in {"save", "drop", "accept", "reject"}
  BY <1>0 DEF LateThread, ReportIs, JobsType
<1>3. scanned[o] # Nothing /\ run[o] \in Afterwards
  BY <1>1, <1>2 DEF Unlaunched, Leaves
<1> USE DEF Loadable, Gone, ClosedOrRun
<1>4. CASE late[o] \in {"save", "drop"}
  <2>1. UNCHANGED files /\ report'[o] \in {"none", "queued", report[o]}
    BY <1>0, <1>4 DEF LateThread, ReportIs, JobsType
  <2>2. Marks(o, {}) /\ Keeps /\ KeepsSettings
    BY <1>0, <2>1, SameFilesKeep, SameFilesMark
  <2>3. started[o] = 0 /\ ~active[o]
    BY <1>1, <1>4 DEF Leaves, Runs
  <2>4. \A st \in {"accepted", "rejected", "interrupted"} : ReceiptSays(o, st)' => ReceiptSays(o, st)
    BY <2>2 DEF Marks
  <2>5. ReceiptSays(o, "rejected") => report'[o] = "none"
    <3>1. ReceiptSays(o, "rejected") => late[o] = "drop" /\ report[o] = "none"
      BY <1>1, <1>4, <2>3 DEF Records
    <3>2. late[o] = "drop" => report'[o] \in {"none", report[o]}
      BY <1>0 DEF LateThread, ReportIs, JobsType
    <3>3. QED  BY <3>1, <3>2
  <2>6. Records(o)'
    BY <1>1, <1>2, <2>1, <2>3, <2>4, <2>5 DEF Records
  <2>7. Unlaunched(o)' /\ Runs(o)' /\ Leaves(o)' /\ Removals(o)'
    BY <1>1, <1>2, <1>3, <2>1, <2>3 DEF Unlaunched, Runs, Leaves, Removals
  <2>8. Prepares(o)'
    BY <1>2, <1>3 DEF Prepares, Preparation, Afterwards
  <2>9. Life(o)'
    BY <2>6, <2>7, <2>8 DEF Life
  <2>10. Settled(o)'
    BY <1>2 DEF Settled
  <2>11. QED  BY <1>0, <1>2, <2>2, <2>9, <2>10, OneLife DEF JobsType
<1>5. CASE late[o] \in {"accept", "reject"}
  <2>1. PICK st \in {"accepted", "rejected"} :
            /\ SetState(o, st) \/ SetStateRaises(o)
            /\ st = "accepted" => late[o] = "accept"
            /\ st = "rejected" => late[o] = "reject"
    BY <1>5 DEF LateThread
  <2>2. Marks(o, {st}) /\ Keeps /\ KeepsSettings
    BY <1>0, <2>1, MarkEffect
  <2>3. report' = report
    BY <1>5 DEF LateThread
  <2>4. st = "accepted" => started[o] = 1
    BY <1>1, <2>1 DEF Leaves
  <2>5. st = "rejected" => Gone(o) /\ run[o] = "failed"
    BY <1>1, <2>1 DEF Leaves
  <2>6. \A t \in {"accepted", "rejected", "interrupted"} :
            ReceiptSays(o, t)' => ReceiptSays(o, t) \/ t = st
    BY <2>2 DEF Marks
  <2>7. Records(o)'
    BY <1>1, <1>2, <1>3, <2>3, <2>4, <2>5, <2>6 DEF Records
  <2>8. Unlaunched(o)' /\ Runs(o)' /\ Leaves(o)' /\ Removals(o)'
    BY <1>1, <1>2, <1>3, <2>3 DEF Unlaunched, Runs, Leaves, Removals
  <2>9. Prepares(o)'
    BY <1>2, <1>3 DEF Prepares, Preparation, Afterwards
  <2>10. Life(o)'
    BY <2>7, <2>8, <2>9 DEF Life
  <2>11. Settled(o)'
    BY <1>2 DEF Settled
  <2>12. QED  BY <1>0, <1>2, <2>2, <2>3, <2>10, <2>11, OneLife DEF JobsType
<1>6. QED  BY <1>2, <1>4, <1>5

\* The ends of scans, AI retries, removals and restores.
LEMMA SurroundingKept ==
    ASSUME Types, StartedOnce, Lives, NEW o \in Operations, Finish(o) \/ Explain(o) \/ Remove(o) \/ Restore(o)
    PROVE  LifeKept
<1>0. FilesType /\ JobsType
  BY TypeParts
<1>1. /\ Unlaunched(o) /\ Runs(o) /\ Prepares(o) /\ Leaves(o) /\ Records(o) /\ Removals(o)
      /\ started[o] \in {0, 1}
  BY DEF Lives, Life, StartedOnce
<1>2. /\ UNCHANGED <<files, started, run, late, scanned>>
      /\ report' = [report EXCEPT ![o] = report'[o]]
      /\ active' = [active EXCEPT ![o] = active'[o]]
      /\ \/ /\ active[o] /\ report[o] = "queued" /\ report'[o] = "finished" /\ active'[o]
         \/ /\ active[o] /\ ~active'[o] /\ report'[o] = report[o]
         \/ /\ ~active[o] /\ ~active'[o]
            /\ report[o] \in {"finished", "explaining", "removed"}
            /\ report'[o] \in {"finished", "explaining", "removed"}
      /\ removed \subseteq removed' /\ removed' \subseteq removed \cup {o}
      /\ report'[o] = "removed" => report[o] = "removed" \/ o \in removed'
  <2>1. CASE Finish(o)
    BY <1>0, <2>1 DEF Finish, ReportIs, tasks, JobsType
  <2>2. CASE Explain(o)
    BY <1>0, <2>2 DEF Explain, ReportIs, tasks, JobsType
  <2>3. CASE Remove(o)
    BY <1>0, <2>3 DEF Remove, ReportIs, tasks, JobsType
  <2>4. CASE Restore(o)
    BY <1>0, <1>1, <2>4 DEF Runs, Restore, ReportIs, tasks, JobsType
  <2>5. QED  BY <2>1, <2>2, <2>3, <2>4
<1>3. Marks(o, {}) /\ Keeps /\ KeepsSettings
  BY <1>0, <1>2, SameFilesKeep, SameFilesMark
<1>4. \A st \in {"accepted", "rejected", "interrupted"} : ReceiptSays(o, st)' => ReceiptSays(o, st)
  BY <1>3 DEF Marks
<1> USE DEF Loadable, Gone, ClosedOrRun
<1>5. Unlaunched(o)' /\ Runs(o)' /\ Leaves(o)' /\ Removals(o)'
  BY <1>1, <1>2 DEF Unlaunched, Runs, Leaves, Removals
<1>6. Prepares(o)'
  BY <1>1, <1>2 DEF Prepares, Runs, Preparation
<1>7. Records(o)'
  BY <1>1, <1>2, <1>4 DEF Records
<1>8. Life(o)' /\ (Settled(o) => Settled(o)')
  BY <1>2, <1>5, <1>6, <1>7 DEF Life, Settled
<1>9. QED  BY <1>0, <1>2, <1>3, <1>8, OneLife DEF JobsType

\* A step in which every operation goes on by itself.
LEMMA ManyLives ==
    ASSUME Lives, Keeps, KeepsSettings, scanned' = scanned,
           \A o \in Operations : Life(o)' /\ (Settled(o) => Settled(o)') /\ started'[o] = started[o]
    PROVE  LifeKept
  BY DEF LifeKept, Lives, KeepsJobs

LEMMA LoseJournalKept ==
    ASSUME Types, Lives, LoseJournal
    PROVE  LifeKept
<1>1. /\ FilesType /\ journal' \notin Journal /\ ~Readable'
      /\ UNCHANGED <<run, late, report, active, started, removed, scanned>>
  BY TypeParts, AbsentAssumption DEF LoseJournal, Readable, Load, scans, tasks, FilesType
<1>2. Keeps /\ KeepsSettings /\ Marks(Nothing, {})
  BY <1>1 DEF Keeps, KeepsSettings, Marks, ReceiptSays
<1>3. ASSUME NEW o \in Operations PROVE Life(o)' /\ (Settled(o) => Settled(o)')
  BY <1>1, <1>2, LifeElsewhere DEF Lives, Settled
<1>4. QED  BY <1>1, <1>2, <1>3, ManyLives

\* A cancelled task goes to the clause for cancellation, and its thread goes on.
LEMMA CancelKept ==
    ASSUME Types, Lives, NEW ops \in SUBSET Operations, Cancel(ops), UNCHANGED <<files, scans, scanned>>
    PROVE  LifeKept
<1>0. FilesType /\ JobsType
  BY TypeParts
<1>1. PICK begun \in SUBSET (Threaded \cap ops) :
          late' = [o \in Operations |-> IF o \in begun THEN run[o] ELSE late[o]]
  BY DEF Cancel
<1>2. run' = [o \in Operations |-> IF o \in ops THEN AfterCancel(run[o]) ELSE run[o]]
  BY DEF Cancel
<1>3. UNCHANGED <<report, active, started, removed, scanned>>
  BY DEF scans
<1>4. Keeps /\ KeepsSettings /\ Marks(Nothing, {})
  BY <1>0, SameFilesKeep, SameFilesMark
<1>5. ASSUME NEW o \in Operations PROVE Life(o)' /\ (Settled(o) => Settled(o)')
  <2>1. Unlaunched(o) /\ Runs(o) /\ Prepares(o) /\ Leaves(o) /\ Records(o) /\ Removals(o) /\ run[o] \in Stages
    BY <1>0 DEF Lives, Life, JobsType
  <2>2. run'[o] = run[o] \/ run'[o] = AfterCancel(run[o])
    BY <1>2
  <2>3. /\ run[o] \in Preparation \cup {"accept"} => run'[o] \in {run[o], "inspect"}
        /\ run[o] \in {"find", "reject"} => run'[o] \in {run[o], "failed"}
        /\ run[o] \notin Preparation \cup {"accept", "find", "reject"} => run'[o] = run[o]
    BY <2>1, <2>2 DEF AfterCancel, Preparation, Stages
  <2>4. \/ late'[o] = late[o]
        \/ /\ run[o] \in {"save", "drop", "accept", "reject"} /\ late'[o] = run[o]
           /\ run'[o] = AfterCancel(run[o])
    BY <1>1, <1>2 DEF Threaded
  <2>5. /\ run[o] = "reject" /\ late'[o] # late[o] => run'[o] = "failed"
        /\ run[o] \in {"save", "drop", "accept"} /\ late'[o] # late[o] => run'[o] = "inspect"
    BY <2>4 DEF AfterCancel
  <2> USE DEF Loadable, Gone, ClosedOrRun
  <2>6. late[o] # "none" => late'[o] = late[o]
    BY <2>1, <2>4 DEF Leaves, Afterwards
  <2>7. Unlaunched(o)' /\ Runs(o)' /\ Removals(o)'
    BY <1>3, <2>1, <2>3, <2>4 DEF Unlaunched, Runs, Removals, Preparation
  <2>8. Prepares(o)'
    BY <1>3, <2>1, <2>3, <2>6 DEF Prepares, Preparation
  <2>9. Leaves(o)'
    <3>1. CASE late'[o] = late[o]
      BY <1>3, <2>1, <2>3, <3>1 DEF Leaves, Afterwards, Preparation
    <3>2. CASE late'[o] # late[o]
      BY <1>3, <2>1, <2>4, <2>5, <3>2 DEF Leaves, Prepares, Afterwards, Preparation
    <3>3. QED  BY <3>1, <3>2
  <2>10. Records(o)'
    <3>1. \A st \in {"accepted", "rejected", "interrupted"} :
              ReceiptSays(o, st)' => ReceiptSays(o, st)
      BY <1>4 DEF Marks
    <3>2. run[o] \in {"none", "failed"} => run'[o] = run[o] /\ late'[o] = late[o]
      BY <2>3, <2>4 DEF Preparation
    <3>3. QED  BY <1>3, <2>1, <3>1, <3>2 DEF Records
  <2>11. Settled(o) => Settled(o)'
    BY <1>3, <2>6 DEF Settled
  <2>12. QED  BY <2>7, <2>8, <2>9, <2>10, <2>11 DEF Life
<1>6. QED  BY <1>3, <1>4, <1>5, ManyLives

LEMMA HaltKept ==
    ASSUME Types, Lives, Halt
    PROVE  LifeKept
<1>0. FilesType /\ JobsType
  BY TypeParts
<1>1. /\ \A o \in Operations : /\ run'[o] = "none" /\ active'[o] = FALSE
                               /\ late'[o] = IF late[o] = "finished" THEN "finished" ELSE "none"
      /\ UNCHANGED <<files, report, started, removed, scanned>>
  BY DEF Halt
<1>2. Keeps /\ KeepsSettings /\ Marks(Nothing, {})
  BY <1>0, <1>1, SameFilesKeep, SameFilesMark
<1>3. ASSUME NEW o \in Operations PROVE Life(o)' /\ (Settled(o) => Settled(o)')
  <2>1. Unlaunched(o) /\ Runs(o) /\ Prepares(o) /\ Leaves(o) /\ Records(o) /\ Removals(o)
    BY DEF Lives, Life
  <2>2. \A st \in {"accepted", "rejected", "interrupted"} : ReceiptSays(o, st)' => ReceiptSays(o, st)
    BY <1>2 DEF Marks
  <2> USE DEF Loadable, Gone, ClosedOrRun
  <2>3. Unlaunched(o)' /\ Runs(o)' /\ Prepares(o)' /\ Leaves(o)' /\ Removals(o)'
    BY <1>1, <2>1 DEF Unlaunched, Runs, Prepares, Leaves, Removals, Preparation, Afterwards
  <2>4. Records(o)'
    BY <1>1, <2>1, <2>2 DEF Records
  <2>5. QED  BY <1>1, <2>3, <2>4 DEF Life, Settled
<1>4. QED  BY <1>1, <1>2, <1>3, ManyLives

\* No task is at work when the reports a crash left open are closed.
LEMMA RestartKept ==
    ASSUME Types, Lives, Restart, \A o \in Operations : mode = "down" => run[o] = "none" /\ ~active[o]
    PROVE  LifeKept
<1>0. FilesType /\ JobsType
  BY TypeParts
<1>1. /\ UNCHANGED <<files, run, late, active, started, removed, scanned>> /\ mode = "down"
      /\ \A o \in Operations : \/ report'[o] = report[o]
                               \/ report[o] \in {"queued", "explaining"} /\ report'[o] = "finished"
  BY DEF Restart, Unfinished, tasks
<1>2. Keeps /\ KeepsSettings /\ Marks(Nothing, {})
  BY <1>0, <1>1, SameFilesKeep, SameFilesMark
<1>3. ASSUME NEW o \in Operations PROVE Life(o)' /\ (Settled(o) => Settled(o)')
  <2>1. Unlaunched(o) /\ Runs(o) /\ Prepares(o) /\ Leaves(o) /\ Records(o) /\ Removals(o) /\ run[o] = "none" /\ ~active[o]
    BY <1>1 DEF Lives, Life
  <2>2. \A st \in {"accepted", "rejected", "interrupted"} : ReceiptSays(o, st)' => ReceiptSays(o, st)
    BY <1>2 DEF Marks
  <2>2a. \/ report'[o] = report[o]
         \/ report[o] \in {"queued", "explaining"} /\ report'[o] = "finished"
    BY <1>1
  <2> USE DEF Loadable, Gone, ClosedOrRun
  <2>3. Unlaunched(o)' /\ Runs(o)' /\ Prepares(o)' /\ Leaves(o)' /\ Removals(o)'
    BY <1>1, <2>1, <2>2a DEF Unlaunched, Runs, Prepares, Leaves, Removals, Preparation, Afterwards
  <2>4. Records(o)'
    BY <1>1, <2>1, <2>2, <2>2a DEF Records
  <2>5. QED  BY <1>1, <2>2a, <2>3, <2>4 DEF Life, Settled
<1>4. QED  BY <1>1, <1>2, <1>3, ManyLives

-----------------------------------------------------------------------------
(* What the handlers know.  A client that was told "accepted", or may still *)
(* be, asks of a scan whose settings are its own and that is settled.       *)

Down ==
    mode = "down" =>
        /\ \A o \in Operations : run[o] = "none" /\ ~active[o]
        /\ \A c \in Clients : pc[c] = "idle"

\* An operation without a receipt was not launched; nor is the one about to be.
UnrecordedIsNew ==
    /\ \A o \in Operations :
          Readable /\ Load[o] = Nothing =>
              scanned[o] = Nothing /\ \A c \in Clients : pc[c] = "launch" => Op(c) # o
    /\ \A c \in Clients : pc[c] = "launch" => scanned[Op(c)] = Nothing

\* The settings of an operation's scan are s, or will be.
Agrees(o, s) ==
    /\ scanned[o] # Nothing => s = scanned[o]
    /\ \A d \in Clients : pc[d] = "launch" /\ Op(d) = o => request[d].settings = s

Known(o) == Readable => Load[o] # Nothing

ReceiptsAgree == \A o \in Operations : Readable /\ Load[o] # Nothing => Agrees(o, Load[o].settings)

Recovering(c) ==
    /\ request[c] # Nothing /\ request[c].kind = "submit"
    /\ pc[c] \in {"await", "read", "load", "decide", "validate"} \/ answer[c] = "accepted"

Tells(c) ==
    /\ pc[c] \in {"idle", "look"} => receipt[c] = Nothing
    /\ receipt[c] # Nothing =>
          /\ pc[c] # "idle"
          /\ receipt[c].state = "accepted" => started[Op(c)] = 1
    /\ pc[c] = "decide" /\ seen[c] \notin {"none", "queued"} => Settled(Op(c))
    /\ pc[c] = "validate" => Settled(Op(c))
    /\ answer[c] = "accepted" =>
          pc[c] = "idle" /\ request[c] \in Request /\ Op(c) \in Operations /\ Settled(Op(c))

Matches(c) ==
    /\ receipt[c] # Nothing => Agrees(Op(c), receipt[c].settings) /\ Known(Op(c))
    /\ Recovering(c) =>
          /\ Agrees(Op(c), request[c].settings) /\ Known(Op(c))
          /\ answer[c] = "accepted" => scanned[Op(c)] # Nothing

Recovery ==
    /\ Down /\ UnrecordedIsNew /\ ReceiptsAgree
    /\ \A c \in Clients : Tells(c) /\ Matches(c)

\* The whole of it.
Answering == Inv /\ Lives /\ Recovery

\* A step that leaves the handlers alone.
LEMMA HandlersUnaware ==
    ASSUME Types, Recovery, LifeKept, Down', UNCHANGED handlers
    PROVE  Recovery'
<1>0. /\ UNCHANGED <<pc, request, receipt, seen, answer, scanned>>
      /\ \A c \in Clients : Op(c)' = Op(c)
      /\ \A o \in Operations : /\ Settled(o) => Settled(o)'
                               /\ started[o] = 1 => started'[o] = 1
      /\ Keeps /\ KeepsSettings
  BY DEF handlers, LifeKept, KeepsJobs, Op
<1>1. \A c \in Clients : (receipt[c] # Nothing \/ pc[c] # "idle" \/ answer[c] = "accepted")
                            => Op(c) \in Operations
  BY TypeParts, RequestFields DEF Recovery, Tells
<1>2. \A o \in Operations : \A x : Agrees(o, x)' <=> Agrees(o, x)
  BY <1>0 DEF Agrees
<1>3. \A o \in Operations : Known(o) => Known(o)'
  BY <1>0 DEF Known, Keeps
<1>4. UnrecordedIsNew'
  BY <1>0 DEF Recovery, UnrecordedIsNew, Keeps
<1>5. ReceiptsAgree'
  <2>1. ASSUME NEW o \in Operations, Readable', Load'[o] # Nothing PROVE Agrees(o, Load[o].settings)'
    <3>1. Readable /\ Load[o] # Nothing
      BY <1>0, <2>1 DEF Keeps
    <3>2. Agrees(o, Load[o].settings) /\ Load'[o].settings = Load[o].settings
      BY <1>0, <2>1, <3>1 DEF Recovery, ReceiptsAgree, KeepsSettings
    <3>3. QED  BY <1>0, <3>2 DEF Agrees
  <2>2. QED  BY <2>1 DEF ReceiptsAgree
<1>6. ASSUME NEW c \in Clients PROVE Tells(c)' /\ Matches(c)'
  <2>1. Tells(c) /\ Matches(c)
    BY DEF Recovery
  <2>2. Tells(c)'
    BY <1>0, <1>1, <2>1 DEF Tells
  <2>3. Recovering(c)' <=> Recovering(c)
    BY <1>0 DEF Recovering
  <2>4. Recovering(c) => Op(c) \in Operations
    BY <1>1 DEF Recovering
  <2>5. receipt[c] # Nothing => Agrees(Op(c), receipt[c].settings)' /\ Known(Op(c))'
    BY <1>0, <1>1, <1>3, <2>1 DEF Matches, Agrees
  <2>6. Recovering(c) => Agrees(Op(c), request[c].settings)' /\ Known(Op(c))'
    BY <1>0, <1>3, <2>1, <2>4 DEF Matches, Agrees
  <2>7. QED  BY <1>0, <2>1, <2>2, <2>3, <2>5, <2>6 DEF Matches
<1>7. QED  BY <1>4, <1>5, <1>6 DEF Recovery

LEMMA AnsweringPrepare ==
    ASSUME Answering, NEW o \in Operations,
           \/ Prepare(o) \/ LateThread(o)
           \/ Finish(o) \/ Explain(o) \/ Remove(o) \/ Restore(o)
    PROVE  Lives' /\ Recovery'
<1>1. Types /\ StartedOnce /\ Lives /\ Recovery /\ JobsType
  BY TypeParts DEF Answering, Inv, Once
<1>2. LifeKept
  BY <1>1, PrepareKept, LateThreadKept, SurroundingKept
<1>3. UNCHANGED <<handlers, mode>>
  BY <1>1, PrepareFrame DEF LateThread, Finish, Explain, Remove, Restore
<1>4. Down'
  <2>1. CASE Prepare(o)
    <3>1. run[o] # "none"
      BY <1>1, <2>1, PrepareFrame
    <3>2. QED  BY <1>1, <1>3, <3>1 DEF Recovery, Down
  <2>2. CASE LateThread(o)
    <3>1. UNCHANGED <<run, active>>
      BY <2>2 DEF LateThread
    <3>2. QED  BY <1>1, <1>3, <3>1 DEF Recovery, Down, handlers
  <2>3. CASE Finish(o)
    BY <1>1, <1>3, <2>3 DEF Finish, Recovery, Down
  <2>4. CASE Explain(o) \/ Remove(o) \/ Restore(o)
    <3>1. UNCHANGED <<run, active>>
      BY <2>4 DEF Explain, Remove, Restore, tasks
    <3>2. QED  BY <1>1, <1>3, <3>1 DEF Recovery, Down, handlers
  <2>5. QED  BY <2>1, <2>2, <2>3, <2>4
<1>5. QED  BY <1>1, <1>2, <1>3, <1>4, HandlersUnaware DEF LifeKept

LEMMA AnsweringProcess ==
    ASSUME Answering, LoseJournal \/ Shutdown \/ CancelRest \/ Halt \/ Restart
    PROVE  Lives' /\ Recovery'
<1>1. Types /\ Lives /\ Recovery
  BY DEF Answering, Inv
<1>2. CASE LoseJournal
  <2>1. UNCHANGED <<run, active, mode, handlers>>
    BY <1>2 DEF LoseJournal, tasks, scans
  <2>2. Down'
    BY <1>1, <2>1 DEF Recovery, Down, handlers
  <2>3. QED  BY <1>1, <1>2, <2>1, <2>2, LoseJournalKept, HandlersUnaware DEF LifeKept
<1>3. CASE Shutdown
  <2>1. /\ Cancel(Operations) /\ mode' = "stopping"
        /\ UNCHANGED <<files, scans, scanned, handlers>>
    BY <1>3 DEF Shutdown
  <2>2. LifeKept /\ Down'
    BY <1>1, <2>1, CancelKept DEF Down
  <2>3. QED  BY <1>1, <2>1, <2>2, HandlersUnaware DEF LifeKept
<1>4. CASE CancelRest
  <2>1. PICK o \in Operations : Cancel({o})
    BY <1>4 DEF CancelRest
  <2>2. mode' = "stopping" /\ UNCHANGED <<files, scans, scanned, handlers>>
    BY <1>4 DEF CancelRest
  <2>3. {o} \in SUBSET Operations
    OBVIOUS
  <2>4. LifeKept /\ Down'
    BY <1>1, <2>1, <2>2, <2>3, CancelKept DEF Down
  <2>5. QED  BY <1>1, <2>2, <2>4, HandlersUnaware DEF LifeKept
<1>5. CASE Halt
  <2>1. LifeKept
    BY <1>1, <1>5, HaltKept
  <2>2. /\ \A o \in Operations : run'[o] = "none" /\ active'[o] = FALSE
        /\ \A c \in Clients : pc'[c] = "idle" /\ receipt'[c] = Nothing
        /\ UNCHANGED <<request, answer, scanned>>
        /\ \A c \in Clients : Op(c)' = Op(c)
    BY <1>5 DEF Halt, Op
  <2>3. /\ \A o \in Operations : Settled(o) => Settled(o)'
        /\ Keeps /\ KeepsSettings
    BY <2>1 DEF LifeKept, KeepsJobs
  <2>4. Down' /\ UnrecordedIsNew'
    BY <1>1, <2>2, <2>3 DEF Down, Recovery, UnrecordedIsNew, Keeps
  <2>5. \A o \in Operations : \A x : Agrees(o, x) => Agrees(o, x)'
    BY <2>2 DEF Agrees
  <2>6. ReceiptsAgree'
    <3>1. ASSUME NEW o \in Operations, Readable', Load'[o] # Nothing
          PROVE  Agrees(o, Load[o].settings)'
      <4>1. Readable /\ Load[o] # Nothing
        BY <2>3, <3>1 DEF Keeps
      <4>2. Agrees(o, Load[o].settings) /\ Load'[o].settings = Load[o].settings
        BY <1>1, <2>3, <3>1, <4>1 DEF Recovery, ReceiptsAgree, KeepsSettings
      <4>3. QED  BY <2>2, <4>2 DEF Agrees
    <3>2. QED  BY <3>1 DEF ReceiptsAgree
  <2>7. ASSUME NEW c \in Clients PROVE Tells(c)' /\ Matches(c)'
    <3>1. Tells(c) /\ Matches(c)
      BY <1>1 DEF Recovery
    <3>2. Tells(c)'
      BY <2>2, <2>3, <3>1 DEF Tells
    <3>3. Recovering(c)' => Recovering(c) /\ answer[c] = "accepted" /\ Op(c) \in Operations
      BY <2>2, <3>1 DEF Recovering, Tells
    <3>4. Recovering(c)' => Agrees(Op(c), request[c].settings)' /\ Known(Op(c))'
      BY <2>2, <2>3, <3>1, <3>3 DEF Matches, Agrees, Known, Keeps
    <3>5. QED  BY <2>2, <3>1, <3>2, <3>3, <3>4 DEF Matches
  <2>8. QED  BY <2>1, <2>4, <2>6, <2>7 DEF LifeKept, Recovery
<1>6. CASE Restart
  <2>1. \A o \in Operations : mode = "down" => run[o] = "none" /\ ~active[o]
    BY <1>1 DEF Recovery, Down
  <2>2. mode' = "up" /\ UNCHANGED handlers
    BY <1>6 DEF Restart
  <2>3. LifeKept /\ Down'
    BY <1>1, <1>6, <2>1, <2>2, RestartKept DEF Down
  <2>4. QED  BY <1>1, <2>2, <2>3, HandlersUnaware DEF LifeKept
<1>7. QED  BY <1>2, <1>3, <1>4, <1>5, <1>6

-----------------------------------------------------------------------------
(* Steps of a handler *)

\* A step of c's handler that neither makes a receipt nor starts a task.
Alone(c) ==
    /\ UNCHANGED <<scans, tasks, mode>> /\ mode # "down"
    /\ Keeps /\ KeepsSettings /\ Marks(Nothing, {})
    /\ pc'[c] # "launch"
    /\ \A d \in Clients : d # c =>
          /\ pc'[d] = pc[d] /\ request'[d] = request[d] /\ receipt'[d] = receipt[d]
          /\ seen'[d] = seen[d] /\ answer'[d] = answer[d]

LEMMA AsksOfOperation ==
    ASSUME Answering, NEW c \in Clients,
           pc[c] # "idle" \/ receipt[c] # Nothing \/ answer[c] = "accepted" \/ Recovering(c)
    PROVE  Op(c) \in Operations
<1>1. HandlersType /\ Tells(c)
  BY TypeParts DEF Answering, Inv, Recovery
<1>2. pc[c] # "idle" \/ answer[c] = "accepted"
  BY <1>1 DEF Tells, Recovering
<1>3. QED  BY <1>1, <1>2, RequestFields DEF Tells

LEMMA AloneAnswers ==
    ASSUME Answering, NEW c \in Clients, Alone(c), Tells(c)', Matches(c)'
    PROVE  Lives' /\ Recovery'
<1>1. /\ UNCHANGED <<run, report, late, active, started, removed, scanned, mode>>
      /\ Keeps /\ KeepsSettings /\ Marks(Nothing, {})
  BY DEF Alone, scans, tasks
<1>2. Lives'
  BY <1>1, LifeElsewhere DEF Answering, Lives
<1>3. \A d \in Clients : pc'[d] = "launch" => d # c /\ pc[d] = "launch" /\ Op(d)' = Op(d)
  BY DEF Alone, Op
<1>4. Down'
  BY <1>1 DEF Down, Alone
<1>5. UnrecordedIsNew'
  BY <1>1, <1>3 DEF Answering, Recovery, UnrecordedIsNew, Keeps
<1>6. \A o, x : Agrees(o, x) => Agrees(o, x)'
  BY <1>1, <1>3 DEF Agrees, Alone
<1>7. ReceiptsAgree'
  <2>1. ASSUME NEW o \in Operations, Readable', Load'[o] # Nothing PROVE Agrees(o, Load[o].settings)'
    <3>1. Readable /\ Load[o] # Nothing
      BY <1>1, <2>1 DEF Keeps
    <3>2. Agrees(o, Load[o].settings) /\ Load'[o].settings = Load[o].settings
      BY <1>1, <2>1, <3>1 DEF Answering, Recovery, ReceiptsAgree, KeepsSettings
    <3>3. Agrees(o, Load[o].settings) => \A x : x = Load[o].settings => Agrees(o, x)'
      BY <1>6
    <3>4. QED  BY <3>2, <3>3 DEF Agrees
  <2>2. QED  BY <2>1 DEF ReceiptsAgree
<1>8. ASSUME NEW d \in Clients, d # c PROVE Tells(d)' /\ Matches(d)'
  <2>1. /\ pc'[d] = pc[d] /\ request'[d] = request[d] /\ receipt'[d] = receipt[d]
        /\ seen'[d] = seen[d] /\ answer'[d] = answer[d] /\ Op(d)' = Op(d)
    BY <1>8 DEF Alone, Op
  <2>2. Tells(d) /\ Matches(d)
    BY DEF Answering, Recovery
  <2>3. Tells(d)'
    BY <1>1, <2>1, <2>2 DEF Tells, Settled
  <2>4. Recovering(d)' <=> Recovering(d)
    BY <2>1 DEF Recovering
  <2>5. receipt[d] # Nothing \/ Recovering(d) => (Known(Op(d)) => Known(Op(d))')
    BY <1>1, <2>1, AsksOfOperation DEF Known, Keeps
  <2>6. Matches(d)'
    BY <1>1, <1>3, <2>1, <2>2, <2>4, <2>5 DEF Matches, Agrees, Alone
  <2>7. QED  BY <2>3, <2>6
<1>9. QED  BY <1>2, <1>4, <1>5, <1>7, <1>8 DEF Recovery

\* The same, for a handler that has its request, in terms of what it knew before.
LEMMA HandlerAnswers ==
    ASSUME Answering, NEW c \in Clients, Alone(c), pc[c] # "idle", request' = request, Tells(c)',
           receipt'[c] # Nothing => Agrees(Op(c), receipt'[c].settings) /\ Known(Op(c)),
           Recovering(c)' =>
               /\ Agrees(Op(c), request[c].settings) /\ Known(Op(c))
               /\ answer'[c] = "accepted" => scanned[Op(c)] # Nothing
    PROVE  Lives' /\ Recovery'
<1>1. Op(c) \in Operations /\ Op(c)' = Op(c) /\ UNCHANGED <<scanned, request>> /\ Keeps
  BY AsksOfOperation DEF Op, Alone, tasks
<1>2. \A d \in Clients : pc'[d] = "launch" => d # c /\ pc[d] = "launch" /\ Op(d)' = Op(d)
  BY DEF Alone, Op
<1>3. Known(Op(c)) => Known(Op(c))'
  BY <1>1 DEF Known, Keeps
<1>4. Matches(c)'
  BY <1>1, <1>2, <1>3 DEF Matches, Agrees
<1>5. QED  BY <1>4, AloneAnswers

LEMMA Awake ==
    ASSUME Answering, NEW c \in Clients, pc[c] # "idle"
    PROVE  /\ mode # "down" /\ answer[c] # "accepted" /\ Op(c) \in Operations
           /\ request[c] \in Request /\ request[c] # Nothing
           /\ HandlersType /\ FilesType /\ Life(Op(c)) /\ Tells(c) /\ Matches(c)
<1>1. HandlersType /\ FilesType /\ Tells(c) /\ Matches(c) /\ Down /\ Lives
  BY TypeParts DEF Answering, Inv, Recovery
<1>2. Op(c) \in Operations
  BY AsksOfOperation
<1>3. QED  BY <1>1, <1>2, AbsentAssumption DEF HandlersType, HandlersInv, Down, Tells, Lives

\* The end of a handler: "accepted" is said of a settled scan only, and of the scan asked for.
LEMMA ReplyAnswers ==
    ASSUME Answering, NEW c \in Clients, pc[c] # "idle", NEW told \in Answers, Reply(c, told),
           UNCHANGED <<scans, tasks, request, mode>>,
           Keeps, KeepsSettings, Marks(Nothing, {}),
           told = "accepted" =>
               /\ Settled(Op(c))
               /\ request[c].kind = "submit" => scanned[Op(c)] # Nothing /\ Recovering(c)
    PROVE  Lives' /\ Recovery'
<1>1. HandlersType /\ mode # "down" /\ Matches(c) /\ Op(c) \in Operations /\ request[c] \in Request
  BY Awake
<1>2. /\ pc'[c] = "idle" /\ answer'[c] = told /\ receipt'[c] = Nothing
      /\ \A d \in Clients : d # c =>
            /\ pc'[d] = pc[d] /\ receipt'[d] = receipt[d]
            /\ seen'[d] = seen[d] /\ answer'[d] = answer[d]
  BY <1>1 DEF Reply, Goto, HandlersType
<1>3. Alone(c)
  BY <1>1, <1>2 DEF Alone
<1>4. Op(c)' = Op(c) /\ UNCHANGED <<report, late, started>>
  BY DEF Op, scans, tasks
<1>5. Tells(c)'
  BY <1>1, <1>2, <1>4 DEF Tells, Settled
<1>6. Recovering(c)' => told = "accepted" /\ request[c].kind = "submit"
  BY <1>2 DEF Recovering
<1>7. QED  BY <1>1, <1>2, <1>3, <1>5, <1>6, HandlerAnswers DEF Matches

LEMMA QuietReplyAnswers ==
    ASSUME Answering, NEW c \in Clients, pc[c] # "idle",
           NEW told \in Answers \ {"accepted"}, Reply(c, told),
           UNCHANGED <<files, scans, tasks, request, mode>>
    PROVE  Lives' /\ Recovery'
<1>1. Keeps /\ KeepsSettings /\ Marks(Nothing, {})
  BY Awake, SameFilesKeep, SameFilesMark
<1>2. QED  BY <1>1, ReplyAnswers

LEMMA ReceiveAnswers ==
    ASSUME Answering, NEW c \in Clients, NEW kind \in {"submit", "status"}, NEW o \in Operations,
           NEW s \in Settings \cup {Nothing}, Receive(c, kind, o, s)
    PROVE  Lives' /\ Recovery'
<1>1. FilesType /\ HandlersType /\ Tells(c)
  BY TypeParts DEF Answering, Inv, Recovery
<1>2. /\ pc[c] = "idle" /\ mode = "up" /\ receipt' = receipt /\ seen' = seen
      /\ UNCHANGED <<files, scans, tasks, mode>>
      /\ pc'[c] = IF kind = "submit" THEN "look" ELSE "read"
      /\ request'[c] = [kind |-> kind, op |-> o, settings |-> s] /\ answer'[c] = "none"
      /\ \A d \in Clients : d # c =>
            pc'[d] = pc[d] /\ request'[d] = request[d] /\ answer'[d] = answer[d]
  BY <1>1 DEF Receive, Goto, HandlersType
<1>3. Keeps /\ KeepsSettings /\ Marks(Nothing, {})
  BY <1>1, <1>2, SameFilesKeep, SameFilesMark
<1>4. Alone(c)
  BY <1>2, <1>3 DEF Alone
<1>5. receipt'[c] = Nothing
  BY <1>1, <1>2 DEF Tells
<1>6. Tells(c)' /\ Matches(c)'
  BY <1>2, <1>5 DEF Tells, Matches, Recovering
<1>7. QED  BY <1>4, <1>6, AloneAnswers

\* A receipt that is read is the one on file, and it says of its scan what is so.
LEMMA ReadReceiptAnswers ==
    ASSUME Answering, NEW c \in Clients, NEW next \in {"judge", "load"}, ReadReceipt(c, next),
           pc[c] \in {"look", "read"}, next = "load" => pc[c] = "read",
           UNCHANGED <<files, scans, tasks, request, mode>>
    PROVE  Lives' /\ Recovery'
<1>1. /\ mode # "down" /\ answer[c] # "accepted" /\ Op(c) \in Operations /\ request[c] # Nothing
      /\ HandlersType /\ FilesType /\ Life(Op(c)) /\ Tells(c) /\ Matches(c)
  BY Awake
<1>2. Keeps /\ KeepsSettings /\ Marks(Nothing, {})
  BY <1>1, SameFilesKeep, SameFilesMark
<1>3. /\ Readable /\ receipt'[c] = Load[Op(c)] /\ pc'[c] = next /\ UNCHANGED <<seen, answer>>
      /\ \A d \in Clients : d # c => pc'[d] = pc[d] /\ receipt'[d] = receipt[d]
  BY <1>1 DEF ReadReceipt, Goto, HandlersType
<1>4. Alone(c)
  BY <1>1, <1>2, <1>3 DEF Alone
<1>5. Load[Op(c)] # Nothing => journal \in Journal /\ Load = journal
  BY <1>1, <1>3 DEF Load, Readable, Empty, FilesType
<1>6. Load[Op(c)] # Nothing /\ Load[Op(c)].state = "accepted" => started[Op(c)] = 1
  BY <1>1, <1>5 DEF Life, Records, ReceiptSays
<1>7. Op(c)' = Op(c) /\ started' = started
  BY DEF Op, scans
<1>8. Tells(c)'
  BY <1>1, <1>3, <1>6, <1>7 DEF Tells
<1>9. Load[Op(c)] # Nothing => Agrees(Op(c), Load[Op(c)].settings) /\ Known(Op(c))
  BY <1>1, <1>3 DEF Answering, Recovery, ReceiptsAgree, Known
<1>10. Recovering(c)' => Recovering(c) /\ answer'[c] # "accepted"
  BY <1>1, <1>3 DEF Recovering
<1>11. QED  BY <1>1, <1>3, <1>4, <1>8, <1>9, <1>10, HandlerAnswers DEF Matches

LEMMA UnavailableAnswers ==
    ASSUME Answering, NEW c \in Clients, pc[c] # "idle", Unavailable(c),
           UNCHANGED <<files, scans, tasks, request, mode>>
    PROVE  Lives' /\ Recovery'
  BY QuietReplyAnswers DEF Unavailable, Answers

LEMMA LookAnswers == ASSUME Answering, NEW c \in Clients, Look(c) PROVE Lives' /\ Recovery'
  BY ReadReceiptAnswers, UnavailableAnswers DEF Look

LEMMA RefuseAnswers == ASSUME Answering, NEW c \in Clients, Refuse(c) PROVE Lives' /\ Recovery'
  BY QuietReplyAnswers DEF Refuse, Answers

LEMMA ReadAnswers == ASSUME Answering, NEW c \in Clients, Read(c) PROVE Lives' /\ Recovery'
<1>1. pc[c] = "read" /\ UNCHANGED <<files, scans, tasks, request, mode>>
  BY DEF Read
<1>2. CASE Reply(c, "unknown")
  BY <1>1, <1>2, QuietReplyAnswers DEF Answers
<1>3. CASE Unavailable(c)
  BY <1>1, <1>3, UnavailableAnswers
<1>4. CASE ReadReceipt(c, "load")
  BY <1>1, <1>4, ReadReceiptAnswers
<1>5. QED  BY <1>2, <1>3, <1>4 DEF Read

\* A handler that goes on, its answer still to come.
LEMMA GoOnAnswers ==
    ASSUME Answering, NEW c \in Clients, NEW where \in {"reserve", "await", "read", "validate"},
           pc[c] \notin {"idle", "look"}, GoOn(c, where), UNCHANGED <<files, scans, tasks, request, mode>>,
           where \in {"await", "read"} => receipt[c] # Nothing /\ receipt[c].settings = request[c].settings,
           where = "validate" => Settled(Op(c)) /\ Recovering(c)
    PROVE  Lives' /\ Recovery'
<1>1. /\ mode # "down" /\ answer[c] # "accepted" /\ Op(c) \in Operations /\ request[c] # Nothing
      /\ HandlersType /\ FilesType /\ Tells(c) /\ Matches(c)
  BY Awake
<1>2. Keeps /\ KeepsSettings /\ Marks(Nothing, {})
  BY <1>1, SameFilesKeep, SameFilesMark
<1>3. /\ pc'[c] = where /\ UNCHANGED <<receipt, seen, answer>>
      /\ \A d \in Clients : d # c => pc'[d] = pc[d]
  BY <1>1 DEF GoOn, Goto, HandlersType
<1>4. Alone(c)
  BY <1>1, <1>2, <1>3 DEF Alone
<1>5. Op(c)' = Op(c) /\ UNCHANGED <<report, late, started>>
  BY DEF Op, scans, tasks
<1>6. Tells(c)'
  BY <1>1, <1>3, <1>5 DEF Tells, Settled
<1>7. Recovering(c)' => where # "reserve"
  BY <1>1, <1>3 DEF Recovering
<1>8. Recovering(c)' => Agrees(Op(c), request[c].settings) /\ Known(Op(c))
  BY <1>1, <1>7 DEF Matches
<1>9. QED  BY <1>1, <1>3, <1>4, <1>6, <1>8, HandlerAnswers DEF Matches

LEMMA AccedeAnswers == ASSUME Answering, NEW c \in Clients, Accede(c) PROVE Lives' /\ Recovery'
<1>1. /\ pc[c] = "judge" /\ ~Conflicts(c)
      /\ UNCHANGED <<files, scans, tasks, request, mode>>
  BY DEF Accede
<1>2. CASE GoOn(c, "reserve")
  BY <1>1, <1>2, GoOnAnswers
<1>3. CASE receipt[c] # Nothing /\ GoOn(c, IF Op(c) \in Preparing THEN "await" ELSE "read")
  <2>1. PICK where \in {"await", "read"} : GoOn(c, where)
    BY <1>3
  <2>2. receipt[c].settings = request[c].settings
    BY <1>1, <1>3 DEF Conflicts
  <2>3. QED  BY <1>1, <1>3, <2>1, <2>2, GoOnAnswers
<1>4. QED  BY <1>2, <1>3 DEF Accede

\* The receipt that is made is new: no other handler knows of its operation.
LEMMA ReserveAnswers == ASSUME Answering, NEW c \in Clients, Reserve(c) PROVE Lives' /\ Recovery'
<1>1. /\ mode # "down" /\ answer[c] # "accepted" /\ Op(c) \in Operations /\ request[c] # Nothing
      /\ HandlersType /\ FilesType /\ Tells(c) /\ Matches(c) /\ pc[c] = "reserve"
  BY Awake DEF Reserve
<1>2. UNCHANGED <<scans, tasks, request, mode>>
  BY DEF Reserve
<1>3. Readable => ~Has(Op(c))
  BY <1>1 DEF Answering, Inv, Once, NewIsUnrecorded, Pending, Has
<1>4. CASE Reply(c, "error")
  <2>1. "error" \in Answers /\ pc[c] # "idle"
    BY <1>1 DEF Answers
  <2>2. CASE Readable /\ WriteRaises
    <3>1. Keeps /\ KeepsSettings /\ Marks(Nothing, {})
      BY <1>1, <2>2, RaisingWriteKeeps, RaisingWriteMarks
    <3>2. QED  BY <1>2, <1>4, <2>1, <3>1, ReplyAnswers
  <2>3. CASE UNCHANGED files
    BY <1>2, <1>4, <2>1, <2>3, QuietReplyAnswers
  <2>4. CASE GoOn(c, "launch")
    <3>1. pc'[c] = "launch" /\ pc'[c] = "idle"
      BY <1>1, <1>4, <2>4 DEF GoOn, Reply, Goto, HandlersType
    <3>2. QED  BY <3>1
  <2>5. QED  BY <2>2, <2>3, <2>4 DEF Reserve
<1>5. CASE /\ Readable /\ GoOn(c, "launch")
           /\ Write([Load EXCEPT ![Op(c)] =
                        [settings |-> request[c].settings, state |-> "preparing"]])
  <2> DEFINE new == [settings |-> request[c].settings, state |-> "preparing"]
             J == [Load EXCEPT ![Op(c)] = new]
  <2>1. Load \in Journal /\ Load[Op(c)] = Nothing
    BY <1>1, <1>3, <1>5, LoadType DEF Has
  <2>2. new \in Receipt /\ new # Nothing
    <3>1. request[c].settings \in Settings
      BY <1>1, RequestFields DEF Submitting, Section
    <3>2. QED  BY <3>1, AbsentAssumption DEF Receipt
  <2>3. J \in Journal /\ \A o \in Operations : J[o] = IF o = Op(c) THEN new ELSE Load[o]
    BY <1>1, <2>1, <2>2 DEF Journal
  <2>4. Readable' /\ Load' = J /\ journal' = J
    BY <1>1, <1>5, <2>3, WriteLoads DEF Write
  <2>5. /\ pc'[c] = "launch" /\ UNCHANGED <<receipt, seen, answer>>
        /\ \A d \in Clients : d # c => pc'[d] = pc[d] /\ pc[d] \notin Section
    BY <1>1, <1>5 DEF GoOn, Goto, HandlersType, Section
  <2>6. /\ UNCHANGED <<run, report, late, active, started, removed, scanned, request, mode>>
        /\ \A d \in Clients : Op(d)' = Op(d)
    BY <1>2 DEF scans, tasks, Op
  <2>7. \A d \in Clients : pc'[d] = "launch" => d = c
    BY <2>5 DEF Section
  <2>8. ASSUME NEW o \in Operations, NEW st \in {"accepted", "rejected", "interrupted"},
               ReceiptSays(o, st)'
        PROVE  ReceiptSays(o, st)
    <3>1. J[o] # Nothing /\ J[o].state = st
      BY <2>4, <2>8 DEF ReceiptSays
    <3>2. o # Op(c) /\ J[o] = Load[o]
      BY <2>3, <3>1
    <3>3. Load = journal
      BY <1>1, <1>5, <3>1, <3>2 DEF Load, Readable, Empty, FilesType
    <3>4. QED  BY <2>1, <3>1, <3>2, <3>3 DEF ReceiptSays
  <2>9. Lives'
    <3>1. ASSUME NEW o \in Operations PROVE Life(o)'
      <4>1. Unlaunched(o) /\ Runs(o) /\ Prepares(o) /\ Leaves(o) /\ Records(o) /\ Removals(o)
        BY DEF Answering, Lives, Life
      <4>2. Records(o)'
        BY <2>6, <2>8, <4>1 DEF Records, Gone, ClosedOrRun, Loadable
      <4>3. Unlaunched(o)' /\ Runs(o)' /\ Prepares(o)' /\ Leaves(o)' /\ Removals(o)'
        BY <2>6, <4>1 DEF Unlaunched, Runs, Prepares, Leaves, Removals, Gone, ClosedOrRun, Loadable
      <4>4. QED  BY <4>2, <4>3 DEF Life
    <3>2. QED  BY <3>1 DEF Lives
  <2>10. scanned[Op(c)] = Nothing
    BY <1>1, <1>5, <2>1 DEF Answering, Recovery, UnrecordedIsNew
  <2>11. Down' /\ UnrecordedIsNew'
    BY <1>1, <1>5, <2>2, <2>3, <2>4, <2>6, <2>7, <2>10 DEF Down, Answering, Recovery, UnrecordedIsNew
  <2>12. ASSUME NEW o \in Operations, NEW x, Agrees(o, x), o # Op(c) PROVE Agrees(o, x)'
    BY <2>6, <2>7, <2>12 DEF Agrees
  <2>13. ReceiptsAgree'
    <3>1. ASSUME NEW o \in Operations, Load'[o] # Nothing PROVE Agrees(o, Load[o].settings)'
      <4>1. CASE o = Op(c)
        BY <2>3, <2>4, <2>6, <2>7, <2>10, <4>1 DEF Agrees
      <4>2. CASE o # Op(c)
        <5>1. Load'[o] = Load[o]
          BY <2>3, <2>4, <4>2
        <5>2. Agrees(o, Load[o].settings)
          BY <1>5, <3>1, <5>1 DEF Answering, Recovery, ReceiptsAgree
        <5>3. QED  BY <2>6, <2>7, <4>2, <5>1, <5>2 DEF Agrees
      <4>3. QED  BY <4>1, <4>2
    <3>2. QED  BY <3>1 DEF ReceiptsAgree
  <2>14. ASSUME NEW d \in Clients PROVE Tells(d)' /\ Matches(d)'
    <3>1. Tells(d) /\ Matches(d)
      BY DEF Answering, Recovery
    <3>2. receipt[d] # Nothing \/ Recovering(d) => Op(d) # Op(c) /\ Op(d) \in Operations
      BY <1>5, <2>1, <3>1, AsksOfOperation DEF Matches, Known
    <3>3. Recovering(d)' => Recovering(d)
      BY <2>5, <2>6 DEF Recovering
    <3>4. Tells(d)'
      BY <1>1, <2>5, <2>6, <3>1 DEF Tells, Settled
    <3>5. receipt[d] # Nothing => Agrees(Op(d), receipt[d].settings)' /\ Known(Op(d))'
      <4>1. receipt[d] # Nothing => Agrees(Op(d), receipt[d].settings) /\ Known(Op(d))
        BY <3>1 DEF Matches
      <4>2. QED  BY <1>5, <2>3, <2>4, <2>5, <2>6, <2>7, <3>2, <4>1 DEF Agrees, Known
    <3>6. Recovering(d)' => Agrees(Op(d), request[d].settings)' /\ Known(Op(d))'
      <4>1. Recovering(d) => Agrees(Op(d), request[d].settings) /\ Known(Op(d))
        BY <3>1 DEF Matches
      <4>2. QED  BY <1>5, <2>3, <2>4, <2>6, <2>7, <3>2, <3>3, <4>1 DEF Agrees, Known
    <3>7. QED  BY <2>5, <2>6, <3>1, <3>3, <3>4, <3>5, <3>6 DEF Matches
  <2>15. QED  BY <2>9, <2>11, <2>13, <2>14 DEF Recovery
<1>6. QED  BY <1>3, <1>4, <1>5 DEF Reserve

\* The task that is created is the first of its operation, with the settings asked for.
LEMMA LaunchAnswers == ASSUME Answering, NEW c \in Clients, Launch(c) PROVE Lives' /\ Recovery'
<1>1. /\ mode # "down" /\ answer[c] # "accepted" /\ Op(c) \in Operations /\ request[c] # Nothing
      /\ HandlersType /\ FilesType /\ Tells(c) /\ Matches(c) /\ pc[c] = "launch"
      /\ JobsType
  BY Awake, TypeParts DEF Launch, Answering, Inv
<1>2. /\ run' = [run EXCEPT ![Op(c)] = "check"]
      /\ scanned' = [scanned EXCEPT ![Op(c)] = request[c].settings]
      /\ UNCHANGED <<files, scans, late, request, mode>>
  BY DEF Launch
<1>3. request[c].settings \in Settings /\ request[c].settings # Nothing
  BY <1>1, RequestFields, AbsentAssumption DEF Submitting, Section
<1>4. /\ pc'[c] = "await" /\ UNCHANGED <<receipt, seen, answer>>
      /\ \A d \in Clients : d # c => pc'[d] = pc[d] /\ pc[d] \notin Section
  BY <1>1 DEF Launch, GoOn, Goto, HandlersType, Section
<1>5. /\ UNCHANGED <<report, active, started, removed>> /\ \A d \in Clients : Op(d)' = Op(d)
      /\ run'[Op(c)] = "check" /\ scanned'[Op(c)] = request[c].settings
      /\ \A o \in Operations : o # Op(c) => run'[o] = run[o] /\ scanned'[o] = scanned[o]
  BY <1>1, <1>2 DEF scans, Op, JobsType
<1>6. scanned[Op(c)] = Nothing /\ Known(Op(c))
  BY <1>1 DEF Answering, Recovery, UnrecordedIsNew, Known
<1>7. Load' = Load /\ Readable' = Readable /\ journal' = journal
  BY <1>2 DEF files, Load, Readable
<1>8. ASSUME NEW o \in Operations, o = Op(c) PROVE Life(o)'
  <2>1. Unlaunched(o) /\ Runs(o) /\ Prepares(o) /\ Leaves(o) /\ Records(o) /\ Removals(o)
    BY DEF Answering, Lives, Life
  <2>2. report[o] = "none" /\ late[o] = "none" /\ started[o] = 0 /\ ~active[o]
    BY <1>6, <1>8, <2>1 DEF Unlaunched
  <2>3. \A st \in {"accepted", "rejected", "interrupted"} : ~ReceiptSays(o, st)'
    BY <1>2, <1>5, <1>6, <1>7, <1>8, <2>1 DEF Records, ReceiptSays
  <2>4. Unlaunched(o)' /\ Records(o)'
    BY <1>1, <1>3, <1>5, <1>8, <2>3 DEF Unlaunched, Records
  <2>5. Runs(o)' /\ Prepares(o)' /\ Leaves(o)' /\ Removals(o)'
    BY <1>2, <1>5, <1>8, <2>2 DEF Runs, Prepares, Leaves, Removals, Preparation
  <2>6. QED  BY <2>4, <2>5 DEF Life
<1>9. Lives'
  <2>1. Marks(Op(c), {})
    BY <1>2, SameFilesMark
  <2>2. ASSUME NEW o \in Operations, o # Op(c) PROVE Life(o)'
    BY <1>2, <1>5, <2>1, <2>2, LifeElsewhere DEF Answering, Lives
  <2>3. QED  BY <1>8, <2>2 DEF Lives
<1>10. \A d \in Clients : pc'[d] # "launch"
  BY <1>4 DEF Section
<1>11. Down' /\ UnrecordedIsNew'
  <2>1. \A o \in Operations : Readable /\ Load[o] = Nothing => o # Op(c) /\ scanned[o] = Nothing
    BY <1>1, <1>6 DEF Answering, Recovery, UnrecordedIsNew, Known
  <2>2. QED  BY <1>1, <1>2, <1>5, <1>7, <1>10, <2>1 DEF Down, UnrecordedIsNew
<1>12. \A o \in Operations : \A x : Agrees(o, x) => Agrees(o, x)'
  BY <1>1, <1>5, <1>10 DEF Agrees
<1>13. ReceiptsAgree'
  BY <1>7, <1>12 DEF Answering, Recovery, ReceiptsAgree
<1>14. ASSUME NEW d \in Clients PROVE Tells(d)' /\ Matches(d)'
  <2>1. Tells(d) /\ Matches(d)
    BY DEF Answering, Recovery
  <2>2. Tells(d)'
    BY <1>1, <1>2, <1>4, <1>5, <2>1 DEF Tells, Settled
  <2>3. receipt[d] # Nothing \/ Recovering(d) => Op(d) \in Operations
    BY AsksOfOperation
  <2>4. receipt[d] # Nothing => Agrees(Op(d), receipt[d].settings)' /\ Known(Op(d))'
    BY <1>4, <1>5, <1>7, <1>10, <1>12, <2>1, <2>3 DEF Matches, Known, Agrees
  <2>5. CASE d = c
    <3>1. Agrees(Op(c), request[c].settings)' /\ Known(Op(c))'
      BY <1>2, <1>5, <1>6, <1>7, <1>10 DEF Agrees, Known
    <3>2. QED  BY <1>1, <1>4, <2>2, <2>4, <2>5, <3>1 DEF Matches
  <2>6. CASE d # c
    <3>1. Recovering(d)' <=> Recovering(d)
      BY <1>2, <1>4, <2>6 DEF Recovering
    <3>2. Recovering(d) => Agrees(Op(d), request[d].settings)' /\ Known(Op(d))'
      BY <1>1, <1>2, <1>5, <1>7, <1>10, <2>1, <2>3 DEF Matches, Known, Agrees
    <3>3. answer[d] = "accepted" /\ Recovering(d) => scanned'[Op(d)] # Nothing
      BY <1>1, <1>3, <1>5, <2>1, <2>3 DEF Matches
    <3>4. QED  BY <1>4, <1>5, <2>2, <2>4, <3>1, <3>2, <3>3 DEF Matches
  <2>7. QED  BY <2>5, <2>6
<1>15. QED  BY <1>9, <1>11, <1>13, <1>14 DEF Recovery

LEMMA AwaitAnswers == ASSUME Answering, NEW c \in Clients, Await(c) PROVE Lives' /\ Recovery'
<1>1. /\ HandlersType /\ FilesType /\ Life(Op(c)) /\ request[c] # Nothing /\ pc[c] = "await"
  BY Awake DEF Await
<1>2. Recovering(c)
  BY <1>1 DEF Recovering, HandlersType, HandlersInv
<1>3. UNCHANGED <<files, scans, tasks, request, mode>>
  BY DEF Await
<1>4. run[Op(c)] = "ok" => started[Op(c)] = 1 /\ scanned[Op(c)] # Nothing
  BY <1>1 DEF Life, Prepares, Unlaunched
<1>5. PICK told \in Answers : Reply(c, told) /\ (told = "accepted" => run[Op(c)] = "ok")
  BY DEF Await, Answers
<1>6. Keeps /\ KeepsSettings /\ Marks(Nothing, {})
  BY <1>1, <1>3, SameFilesKeep, SameFilesMark
<1>7. QED  BY <1>1, <1>2, <1>3, <1>4, <1>5, <1>6, ReplyAnswers DEF Settled

LEMMA LoadReportAnswers == ASSUME Answering, NEW c \in Clients, LoadReport(c) PROVE Lives' /\ Recovery'
<1>1. /\ mode # "down" /\ answer[c] # "accepted" /\ Op(c) \in Operations /\ request[c] # Nothing
      /\ HandlersType /\ FilesType /\ Tells(c) /\ Matches(c) /\ pc[c] = "load"
  BY Awake DEF LoadReport
<1>2. UNCHANGED <<files, scans, tasks, request, mode>>
  BY DEF LoadReport
<1>3. CASE Reply(c, "error")
  BY <1>1, <1>2, <1>3, QuietReplyAnswers DEF Answers
<1>4. CASE /\ seen' = [seen EXCEPT ![c] = report[Op(c)]]
           /\ Goto(c, "decide") /\ UNCHANGED <<answer, receipt>>
  <2>1. Keeps /\ KeepsSettings /\ Marks(Nothing, {})
    BY <1>1, <1>2, SameFilesKeep, SameFilesMark
  <2>2. /\ pc'[c] = "decide" /\ seen'[c] = report[Op(c)]
        /\ \A d \in Clients : d # c => pc'[d] = pc[d] /\ seen'[d] = seen[d]
    BY <1>1, <1>4 DEF Goto, HandlersType
  <2>3. Alone(c)
    BY <1>1, <1>2, <1>4, <2>1, <2>2 DEF Alone
  <2>4. Op(c)' = Op(c) /\ UNCHANGED <<report, late, started>>
    BY <1>2 DEF Op, scans, tasks
  <2>5. Tells(c)'
    BY <1>1, <1>4, <2>2, <2>4 DEF Tells, Settled
  <2>6. Recovering(c)' => Recovering(c)
    BY <1>1, <1>2 DEF Recovering
  <2>7. QED  BY <1>1, <1>2, <1>4, <2>3, <2>5, <2>6, HandlerAnswers DEF Matches
<1>5. QED  BY <1>3, <1>4 DEF LoadReport

\* A status of "accepted" rests on a receipt, a running scan or a report that was settled
\* when it was read.
LEMMA AcceptedStatus ==
    ASSUME Answering, NEW c \in Clients, pc[c] = "decide", Status(c) = "accepted"
    PROVE  Settled(Op(c))
<1>1. Tells(c) /\ Life(Op(c)) /\ receipt[c] \in Receipt /\ receipt[c] # Nothing
  BY Awake, AbsentAssumption DEF HandlersType, HandlersInv
<1>2. receipt[c].state = "accepted" \/ active[Op(c)] \/ seen[c] = "finished"
  BY DEF Status, Admitted
<1>3. active[Op(c)] => started[Op(c)] = 1
  BY <1>1 DEF Life, Runs
<1>4. QED  BY <1>1, <1>2, <1>3 DEF Tells, Settled

LEMMA AnswerAnswers == ASSUME Answering, NEW c \in Clients, Answer(c) PROVE Lives' /\ Recovery'
<1>1. /\ HandlersType /\ FilesType /\ request[c] # Nothing /\ pc[c] = "decide"
      /\ receipt[c] \in Receipt
  BY Awake DEF Answer, HandlersType, HandlersInv
<1>2. UNCHANGED <<files, scans, tasks, request, mode>>
  BY DEF Answer
<1>3. Status(c) \in Answers /\ "error" \in Answers
  BY <1>1 DEF Status, Receipt, Answers
<1>4. CASE request[c].kind = "status" /\ Reply(c, Status(c))
  <2>1. Keeps /\ KeepsSettings /\ Marks(Nothing, {})
    BY <1>1, <1>2, SameFilesKeep, SameFilesMark
  <2>2. Status(c) = "accepted" => Settled(Op(c))
    BY <1>1, AcceptedStatus
  <2>3. QED  BY <1>1, <1>2, <1>3, <1>4, <2>1, <2>2, ReplyAnswers
<1>5. CASE request[c].kind = "submit" /\ Status(c) = "accepted" /\ GoOn(c, "validate")
  <2>1. Recovering(c) /\ Settled(Op(c))
    BY <1>1, <1>5, AcceptedStatus DEF Recovering
  <2>2. QED  BY <1>1, <1>2, <1>5, <2>1, GoOnAnswers
<1>6. CASE Reply(c, "error")
  BY <1>1, <1>2, <1>3, <1>6, QuietReplyAnswers
<1>7. QED  BY <1>4, <1>5, <1>6 DEF Answer

LEMMA ValidateAnswers == ASSUME Answering, NEW c \in Clients, Validate(c) PROVE Lives' /\ Recovery'
<1>1. /\ FilesType /\ request[c] # Nothing /\ pc[c] = "validate" /\ Tells(c) /\ Life(Op(c))
  BY Awake DEF Validate
<1>2. UNCHANGED <<files, scans, tasks, request, mode>>
  BY DEF Validate
<1>3. CASE Loadable(Op(c)) /\ Reply(c, "accepted")
  <2>1. Keeps /\ KeepsSettings /\ Marks(Nothing, {})
    BY <1>1, <1>2, SameFilesKeep, SameFilesMark
  <2>2. scanned[Op(c)] # Nothing
    BY <1>1, <1>3 DEF Life, Unlaunched, Loadable
  <2>3. Settled(Op(c)) /\ "accepted" \in Answers
    BY <1>1 DEF Tells, Answers
  <2>4. request[c].kind = "submit" => Recovering(c)
    BY <1>1 DEF Recovering
  <2>5. QED  BY <1>1, <1>2, <1>3, <2>1, <2>2, <2>3, <2>4, ReplyAnswers
<1>4. CASE Reply(c, "error")
  BY <1>1, <1>2, <1>4, QuietReplyAnswers DEF Answers
<1>5. QED  BY <1>3, <1>4 DEF Validate

-----------------------------------------------------------------------------
(* The theorems about what is left behind and what is answered *)

LEMMA AnsweringInit == Init => Answering
<1> SUFFICES ASSUME Init PROVE Answering
  OBVIOUS
<1>1. Inv
  BY InvInit
<1>2. journal \notin Journal
  BY AbsentAssumption DEF Init
<1>3. Lives
  BY <1>2 DEF Init, Lives, Life, Unlaunched, Runs, Prepares, Leaves, Records, Removals, ReceiptSays,
              Preparation
<1>4. Down /\ UnrecordedIsNew
  BY DEF Init, Down, UnrecordedIsNew
<1>5. ReceiptsAgree
  BY DEF Init, ReceiptsAgree, Load, Empty
<1>6. \A c \in Clients : Tells(c) /\ Matches(c)
  BY DEF Init, Tells, Matches, Recovering
<1>7. QED  BY <1>1, <1>3, <1>4, <1>5, <1>6 DEF Answering, Recovery

LEMMA AnsweringNext == Answering /\ [Next]_vars => Answering'
<1> SUFFICES ASSUME Answering, [Next]_vars PROVE Answering'
  OBVIOUS
<1>1. Inv'
  BY InvNext DEF Answering
<1>2. ASSUME NEW c \in Clients, NEW o \in Operations, NEW s \in Settings,
             Receive(c, "submit", o, s)
      PROVE  Lives' /\ Recovery'
  BY <1>2, ReceiveAnswers
<1>3. ASSUME NEW c \in Clients, NEW o \in Operations, Receive(c, "status", o, Nothing)
      PROVE  Lives' /\ Recovery'
  BY <1>3, ReceiveAnswers
<1>4. ASSUME NEW c \in Clients, Handle(c) PROVE Lives' /\ Recovery'
  BY <1>4, LookAnswers, RefuseAnswers, AccedeAnswers, ReserveAnswers, LaunchAnswers, AwaitAnswers,
     ReadAnswers, LoadReportAnswers, AnswerAnswers, ValidateAnswers DEF Handle
<1>5. ASSUME NEW o \in Operations,
             \/ Prepare(o) \/ LateThread(o)
             \/ Finish(o) \/ Explain(o) \/ Remove(o) \/ Restore(o)
      PROVE  Lives' /\ Recovery'
  BY <1>5, AnsweringPrepare
<1>6. ASSUME LoseJournal \/ Shutdown \/ CancelRest \/ Halt \/ Restart PROVE Lives' /\ Recovery'
  BY <1>6, AnsweringProcess
<1>7. ASSUME UNCHANGED vars PROVE Lives' /\ Recovery'
  <2>1. FilesType /\ Lives /\ Recovery /\ UNCHANGED <<files, scans, tasks, handlers, mode>>
    BY <1>7, TypeParts DEF vars, Answering, Inv
  <2>2. Keeps /\ KeepsSettings /\ Marks(Nothing, {})
    BY <2>1, SameFilesKeep, SameFilesMark
  <2>3. ASSUME NEW o \in Operations PROVE Life(o)'
    BY <2>1, <2>2, LifeElsewhere DEF Lives, scans, tasks
  <2>4. LifeKept /\ Down'
    BY <2>1, <2>2, <2>3 DEF LifeKept, Lives, KeepsJobs, Settled, Recovery, Down, scans, tasks, handlers
  <2>5. QED  BY <2>1, <2>4, HandlersUnaware DEF LifeKept, Answering, Inv
<1>8. QED  BY <1>1, <1>2, <1>3, <1>4, <1>5, <1>6, <1>7 DEF Next, Answering

\* The second inductive invariant: what each operation leaves behind at each stage of its
\* start (Lives), and what the handlers may know of it and tell (Recovery).
THEOREM AnsweringInvariance == Spec => []Answering
  BY AnsweringInit, AnsweringNext, PTL DEF Spec

\* A receipt says "rejected", on the word of which the browser offers the scan again, only
\* when no job runs for it, and there never was a report or it is one of a scan that ran
\* and that the user removed: it can be loaded again only if the user restores it.
THEOREM RejectionIsTrue == Spec => []RejectedLeftNothing
<1>1. Answering => RejectedLeftNothing
  BY DEF Answering, Lives, Life, Records, RejectedLeftNothing, Gone
<1>2. QED  BY <1>1, AnsweringInvariance, PTL

\* No client is told "accepted" of a scan that was neither registered nor settled,
\* however its reading of the receipt and of the report interleave with the start.
THEOREM AcceptanceIsTrue == Spec => []AcceptedWasAdmitted
<1>1. Answering => AcceptedWasAdmitted
  BY DEF Answering, Recovery, Tells, AcceptedWasAdmitted, Settled
<1>2. QED  BY <1>1, AnsweringInvariance, PTL

\* The scan a submit was answered with has the settings that the submit asked for, also
\* when another client's submit of the same operation made it.
THEOREM AnswersFitRequests == Spec => []RecoveryKeepsSettings
<1>1. Answering => RecoveryKeepsSettings
  <2> SUFFICES ASSUME Answering, NEW c \in Clients, answer[c] = "accepted", request[c].kind = "submit"
               PROVE  request[c].settings = scanned[Op(c)]
    BY DEF RecoveryKeepsSettings
  <2>1. Tells(c) /\ Matches(c)
    BY DEF Answering, Recovery
  <2>2. Recovering(c)
    BY <2>1, AbsentAssumption DEF Tells, Recovering
  <2>3. QED  BY <2>1, <2>2 DEF Matches, Agrees
<1>2. QED  BY <1>1, AnsweringInvariance, PTL

\* A start that was cancelled and marked interrupted leaves no report that waits for
\* checks, unless its scan was registered or a save came after it.
THEOREM InterruptionIsClosed == Spec => []InterruptedIsClosed
<1>1. Answering => InterruptedIsClosed
  BY DEF Answering, Lives, Life, Records, InterruptedIsClosed, ClosedOrRun
<1>2. QED  BY <1>1, AnsweringInvariance, PTL

=============================================================================
