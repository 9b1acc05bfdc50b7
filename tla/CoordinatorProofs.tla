-------------------------- MODULE CoordinatorProofs --------------------------
(***************************************************************************)
(* Theorems about Coordinator, for any workloads, resources, reconcile     *)
(* workers and faults: of its types, in-flight keys, holds and the restore *)
(* barrier over any sessions and holds, of the dispatch itself over one    *)
(* session (OneQuietSession).                                              *)
(***************************************************************************)
EXTENDS Coordinator, WellFoundedInduction, TLAPS

(***************************************************************************)
(* Sequences: the commands of a session and the replies to them.           *)
(***************************************************************************)

\* What taking the first element of a sequence, and adding one, gives.
LEMMA SequenceOf ==
  ASSUME NEW S, NEW s \in Seq(S), NEW x \in S
  PROVE  /\ Append(s, x) \in Seq(S) /\ Len(Append(s, x)) = Len(s) + 1
         /\ Append(s, x)[Len(s) + 1] = x
         /\ \A n \in 1..Len(s) : Append(s, x)[n] = s[n] /\ s[n] \in S
         /\ s # <<>> => /\ Head(s) = s[1] /\ Head(s) \in S /\ Len(s) > 0
                        /\ Tail(s) \in Seq(S) /\ Len(Tail(s)) = Len(s) - 1
                        /\ \A n \in 1..Len(s) - 1 : Tail(s)[n] = s[n + 1]
  OBVIOUS

\* What joining two gives.
LEMMA JoinOf ==
  ASSUME NEW S, NEW s \in Seq(S), NEW t \in Seq(S)
  PROVE  /\ s \o t \in Seq(S) /\ Len(s \o t) = Len(s) + Len(t)
         /\ \A n \in 1..Len(s) : (s \o t)[n] = s[n]
         /\ \A n \in 1..Len(t) : (s \o t)[Len(s) + n] = t[n]
  OBVIOUS

\* The elements of a sequence.
LEMMA RangeOf ==
  ASSUME NEW S, NEW s \in Seq(S)
  PROVE  /\ Range(s) \subseteq S
         /\ \A x : x \in Range(s) <=> \E n \in 1..Len(s) : s[n] = x
  BY DEF Range

(***************************************************************************)
(* Types.                                                                  *)
(***************************************************************************)

\* The store's methods make entries of entries.
LEMMA EntryTypes ==
  ASSUME NEW o \in Entry, NEW e \in Nat
  PROVE  /\ Connect(o, e) \in Entry /\ SetInventory(o, e) \in Entry
         /\ SetAgentState(o, e) \in Entry /\ MarkReady(o, e) \in Entry
         /\ RequireFreshBootstrap(o, e) \in Entry /\ Disconnect(o, e) \in Entry
  BY DEF Entry, Connect, NewEntry, SetInventory, SetAgentState, MarkReady,
         RequireFreshBootstrap, Disconnect, Facts, Statuses

\* A list of executions.
LEMMA ExecutionsType ==
  ASSUME NEW o \in Entry, NEW e \in Nat, NEW seq \in Nat, NEW x \in [Id -> Statuses]
  PROVE  SetExecutions(o, e, x, seq) \in Entry
  BY DEF Entry, SetExecutions

\* A list of unmanaged processes.
LEMMA ProcessesType ==
  ASSUME NEW o \in Entry, NEW e \in Nat, NEW b \in SUBSET Resource
  PROVE  SetUnmanagedProcesses(o, e, b) \in Entry
  BY DEF Entry, SetUnmanagedProcesses, Facts

\* The status of one execution.
LEMMA UpsertType ==
  ASSUME NEW o \in Entry, NEW e \in Nat, NEW seq \in Nat, NEW i, NEW status \in Statuses
  PROVE  UpsertExecution(o, e, i, status, seq) \in Entry
  BY DEF Entry, UpsertExecution, Statuses

\* An observation that got too old.
LEMMA ExpireType ==
  ASSUME NEW o \in Entry, NEW kind
  PROVE  Expire(o, kind) \in Entry
  BY DEF Entry, Expire

\* Commands.
LEMMA CommandTypes ==
  ASSUME NEW i \in Id \cup {None}, NEW seq \in Nat
  PROVE  /\ \A kind \in {"none", "START", "STOP", "hello", "hold"} \cup Queries :
               Command(kind, i, seq) \in Commands /\ Command(kind, i, seq).kind = kind
         /\ NoCommand \in Commands
  BY DEF Command, NoCommand, Commands, None

\* The commands that carry a hold.
LEMMA HoldCommandType ==
  ASSUME NEW h \in [active : BOOLEAN, rev : Nat], NEW kind \in {"hello", "hold"}
  PROVE  HoldCommand(kind, h) \in Commands
  BY DEF Command, HoldCommand, Commands, None

\* The queries sent.
LEMMA AbsentType ==
  ASSUME TypeOK, NEW ks
  PROVE  /\ Absent(ks) \in Seq(Commands)
         /\ \A n \in 1..Len(Absent(ks)) : Absent(ks)[n].kind \in ks \cap Queries
  <1>. DEFINE ask(q, seq) == IF q \in ks /\ \A c \in pending : c.kind # q
                             THEN <<Command(q, None, seq)>> ELSE <<>>
  <1>1. ASSUME NEW q \in Queries, NEW seq \in Nat
        PROVE  /\ ask(q, seq) \in Seq(Commands)
               /\ \A n \in 1..Len(ask(q, seq)) : ask(q, seq)[n].kind \in ks \cap Queries
    <2>1. Command(q, None, seq) \in Commands /\ Command(q, None, seq).kind = q
      BY CommandTypes
    <2>. QED
      BY <2>1
  <1>2. /\ ask("executions", session.seq) \in Seq(Commands)
        /\ \A n \in 1..Len(ask("executions", session.seq)) :
              ask("executions", session.seq)[n].kind \in ks \cap Queries
    BY <1>1 DEF TypeOK, Queries
  <1>3. /\ ask("facts", 0) \in Seq(Commands)
        /\ \A n \in 1..Len(ask("facts", 0)) : ask("facts", 0)[n].kind \in ks \cap Queries
    BY <1>1 DEF Queries
  <1>4. PICK s \in Seq(Commands), t \in Seq(Commands) :
           /\ Absent(ks) = s \o t
           /\ \A n \in 1..Len(s) : s[n].kind \in ks \cap Queries
           /\ \A n \in 1..Len(t) : t[n].kind \in ks \cap Queries
    BY <1>2, <1>3 DEF Absent
  <1>5. ASSUME NEW n \in 1..Len(s \o t) PROVE (s \o t)[n].kind \in ks \cap Queries
    <2>1. Len(s) \in Nat /\ Len(t) \in Nat /\ Len(s \o t) = Len(s) + Len(t)
      OBVIOUS
    <2>2. CASE n <= Len(s)
      BY <1>4, <2>1, <2>2, JoinOf
    <2>3. CASE n > Len(s)
      <3>1. n - Len(s) \in 1..Len(t) /\ n = Len(s) + (n - Len(s))
        BY <2>1, <2>3
      <3>. QED
        BY <1>4, <3>1, JoinOf
    <2>. QED
      BY <2>1, <2>2, <2>3
  <1>. QED
    BY <1>4, <1>5, JoinOf

\* The first state is typed.
LEMMA InitType == Init => TypeOK
  <1>. SUFFICES ASSUME Init PROVE TypeOK
    OBVIOUS
  <1>1. NoEntry \in Entry
    BY DEF NoEntry, NewEntry, Entry, Statuses, Facts
  <1>2. Key("NONE", None, 0) \in ActionKeys
    BY CoordinatorAssumption DEF Key, ActionKeys
  <1>3. worker \in [Worker -> [pc : {"idle", "reserved", "send", "sent"}, key : ActionKeys,
                               seq : Nat, seen : Entry]]
    BY <1>1, <1>2 DEF Init, IdleWorker
  <1>4. /\ inbox \in [1..MaxEpoch -> Seq(Commands)] /\ NoCommand \in Commands
        /\ replies \in Seq(Replies)
    BY CommandTypes, CoordinatorAssumption DEF Init, NoCommand, Commands, Command
  <1>5. desired \in [Workload -> [exists : BOOLEAN, run : BOOLEAN,
                                  gen : 1..MaxGen, blocked : 0..MaxGen]]
    BY CoordinatorAssumption DEF Init
  <1>6. snaps \subseteq Id
    <2>1. PICK wanted \in SUBSET Workload : snaps = wanted \X {1}
      BY DEF Init
    <2>2. 1 \in 0..MaxGen
      BY CoordinatorAssumption
    <2>. QED
      BY <2>1, <2>2, CoordinatorAssumption
  <1>7. agent \in [exec : [Id -> Statuses], hold : BOOLEAN, rev : Nat]
    BY DEF Init, Statuses
  <1>8. session \in [state : {"none", "hello", "open", "closing"}, ready : BOOLEAN,
                    revoked : BOOLEAN, seq : Nat, got : SUBSET (Facts \cup {"executions"})]
    BY DEF Init, NoSession
  <1>9. busyCmd \in [1..MaxEpoch -> Commands] /\ holdInbox \in Commands
    BY <1>4 DEF Init
  <1>10. /\ hold \in [active : BOOLEAN, rev : 0..MaxHold]
         /\ barrier \in {"NONE", "PENDING", "CONFLICT"} /\ obs \in Entry /\ inFlight = {}
         /\ holdCall \in [pc : {"idle", "waiting", "confirmed"}, active : BOOLEAN,
                           rev : 0..MaxHold]
         /\ link \in BOOLEAN /\ epoch \in 0..MaxEpoch /\ pending = {}
         /\ unmanaged = {} /\ faults \in 0..Faults
    <2>1. /\ hold = [active |-> FALSE, rev |-> 0] /\ barrier \in {"NONE", "PENDING"}
          /\ obs = NoEntry /\ inFlight = {} /\ holdCall = NoHoldCall
          /\ link = FALSE /\ epoch = 0 /\ pending = {} /\ unmanaged = {} /\ faults = Faults
      BY DEF Init
    <2>2. 0 \in 0..MaxHold /\ 0 \in 0..MaxEpoch /\ Faults \in 0..Faults
      BY CoordinatorAssumption
    <2>. QED
      BY <1>1, <2>1, <2>2 DEF NoHoldCall
  <1>. QED
    BY <1>3, <1>4, <1>5, <1>6, <1>7, <1>8, <1>9, <1>10 DEF TypeOK

\* The workloads are naturals: a pass has a first one to dispatch.
LEMMA LeastOf ==
  ASSUME NEW S \in SUBSET Workload, S # {}
  PROVE  First(S) \in S
  <1>. DEFINE less == {p \in Nat \X Nat : p[1] < p[2]}
  <1>1. IsWellFoundedOn(less, Nat)
    BY NatLessThanWellFounded DEF OpToRel
  <1>2. S \subseteq Nat
    BY CoordinatorAssumption
  <1>. HIDE DEF less
  <1>3. PICK w \in S : \A v \in S : ~ (<<v, w>> \in less)
    BY <1>1, <1>2, WFMin
  <1>4. \A v \in S : w <= v
    <2>1. ASSUME NEW v \in S PROVE w <= v
      <3>1. <<v, w>> \notin less /\ v \in Nat /\ w \in Nat
        BY <1>2, <1>3
      <3>2. ~(v < w)
        BY <3>1 DEF less
      <3>. QED
        BY <3>1, <3>2
    <2>. QED
      BY <2>1
  <1>. QED
    BY <1>4 DEF First

\* What the commands for a session add to, or take from, its buffer.
LEMMA InboxTypes ==
  ASSUME NEW b \in [1..MaxEpoch -> Seq(Commands)], NEW e
  PROVE  /\ \A c \in Commands : [b EXCEPT ![e] = Append(@, c)] \in [1..MaxEpoch -> Seq(Commands)]
         /\ \A s \in Seq(Commands) :
               /\ [b EXCEPT ![e] = @ \o s] \in [1..MaxEpoch -> Seq(Commands)]
               /\ [b EXCEPT ![e] = s] \in [1..MaxEpoch -> Seq(Commands)]
         /\ e \in 1..MaxEpoch /\ b[e] # <<>> =>
               /\ [b EXCEPT ![e] = Tail(@)] \in [1..MaxEpoch -> Seq(Commands)]
               /\ Head(b[e]) \in Commands
  <1>1. CASE e \in 1..MaxEpoch
    <2>1. b[e] \in Seq(Commands)
      BY <1>1
    <2>2. /\ \A c \in Commands : Append(b[e], c) \in Seq(Commands)
          /\ \A s \in Seq(Commands) : b[e] \o s \in Seq(Commands)
          /\ b[e] # <<>> => Tail(b[e]) \in Seq(Commands) /\ Head(b[e]) \in Commands
      BY <2>1, SequenceOf, JoinOf
    <2>. QED
      BY <1>1, <2>2
  <1>2. CASE e \notin 1..MaxEpoch
    BY <1>2
  <1>. QED
    BY <1>1, <1>2

\* What the Controller keeps of a session.
SessionRow == [state : {"none", "hello", "open", "closing"}, ready : BOOLEAN,
               revoked : BOOLEAN, seq : Nat, got : SUBSET (Facts \cup {"executions"})]

\* What a step of one makes of it.
LEMMA SessionTypes ==
  ASSUME NEW s \in SessionRow
  PROVE  /\ NoSession \in SessionRow /\ [NoSession EXCEPT !.state = "hello"] \in SessionRow
         /\ [s EXCEPT !.state = "open"] \in SessionRow
         /\ [s EXCEPT !.state = "closing", !.revoked = TRUE] \in SessionRow
         /\ [s EXCEPT !.revoked = TRUE] \in SessionRow
         /\ [s EXCEPT !.seq = s.seq + 1] \in SessionRow
         /\ [s EXCEPT !.seq = s.seq + 1, !.revoked = TRUE] \in SessionRow
  <1>1. /\ s = [state |-> s.state, ready |-> s.ready, revoked |-> s.revoked, seq |-> s.seq,
               got |-> s.got]
        /\ s.seq + 1 \in Nat
    BY DEF SessionRow
  <1>2. NoSession \in SessionRow /\ [NoSession EXCEPT !.state = "hello"] \in SessionRow
    BY DEF SessionRow, NoSession
  <1>. QED
    BY <1>1, <1>2 DEF SessionRow

\* The session once more of its bootstrap was answered.
LEMMA GotTypes ==
  ASSUME TypeOK, NEW kinds \in SUBSET (Facts \cup {"executions"})
  PROVE  Got(kinds) \in SessionRow
  <1>1. session \in SessionRow
    BY DEF TypeOK, SessionRow
  <1>2. session.got \cup kinds \in SUBSET (Facts \cup {"executions"})
    BY <1>1 DEF SessionRow
  <1>. QED
    BY <1>1, <1>2 DEF Got, SessionRow

\* What the database keeps of a workload.
WorkloadRow == [exists : BOOLEAN, run : BOOLEAN, gen : 1..MaxGen, blocked : 0..MaxGen]

\* What an update of one makes of the table.
LEMMA RowTypes ==
  ASSUME NEW d \in [Workload -> WorkloadRow], NEW w \in Workload, NEW b \in BOOLEAN,
         NEW g \in 1..MaxGen
  PROVE  /\ [d EXCEPT ![w].exists = b] \in [Workload -> WorkloadRow]
         /\ [d EXCEPT ![w].run = b, ![w].gen = g] \in [Workload -> WorkloadRow]
         /\ [d EXCEPT ![w].gen = g, ![w].blocked = 0] \in [Workload -> WorkloadRow]
         /\ [d EXCEPT ![w].blocked = g] \in [Workload -> WorkloadRow]
         /\ d[w].gen \in 1..MaxGen
         /\ [d[w] EXCEPT !.blocked = g] \in WorkloadRow
  <1>1. 0 \in 0..MaxGen /\ g \in 0..MaxGen
    BY CoordinatorAssumption
  <1>2. d[w] = [exists |-> d[w].exists, run |-> d[w].run, gen |-> d[w].gen,
                blocked |-> d[w].blocked]
    BY DEF WorkloadRow
  <1>. QED
    BY <1>1, <1>2 DEF WorkloadRow

\* What writes of the workloads leave typed.
LEMMA DesiredTypes ==
  ASSUME TypeOK, desired' \in [Workload -> WorkloadRow], snaps' \subseteq Id,
         UNCHANGED <<hold, barrier, coordVars, sessionVars, agentVars, envVars>>
  PROVE  TypeOK'
  <1>1. UNCHANGED <<hold, barrier, obs, inFlight, worker, holdCall, session, link, epoch, pending,
                    replies, inbox, busyCmd, holdInbox, agent, unmanaged, faults>>
    BY DEF coordVars, sessionVars, agentVars, envVars
  <1>2. desired' \in [Workload -> [exists : BOOLEAN, run : BOOLEAN,
                                  gen : 1..MaxGen, blocked : 0..MaxGen]]
    BY DEF WorkloadRow
  <1>. QED
    BY <1>1, <1>2 DEF TypeOK

\* What the operator's writes leave typed.
LEMMA OperatorTypes ==
  ASSUME TypeOK, Operator
  PROVE  TypeOK'
  <1>1. ASSUME NEW w \in Workload, NEW run \in BOOLEAN, UpdateDesiredWorkload(w, run)
        PROVE  TypeOK'
    <2>1. desired[w].gen + 1 \in 1..MaxGen /\ <<w, desired[w].gen + 1>> \in Id
      BY <1>1, CoordinatorAssumption DEF UpdateDesiredWorkload, TypeOK
    <2>2. desired' = [desired EXCEPT ![w].run = run, ![w].gen = desired[w].gen + 1]
      BY <1>1 DEF UpdateDesiredWorkload
    <2>3. desired' \in [Workload -> WorkloadRow] /\ snaps' \subseteq Id
      <3>1. desired \in [Workload -> WorkloadRow] /\ snaps \subseteq Id
        BY DEF TypeOK, WorkloadRow
      <3>2. desired' \in [Workload -> WorkloadRow]
        BY <2>1, <2>2, <3>1, RowTypes
      <3>3. snaps' \subseteq Id
        BY <1>1, <2>1, <3>1 DEF UpdateDesiredWorkload
      <3>. QED
        BY <3>2, <3>3
    <2>4. UNCHANGED <<hold, barrier, coordVars, sessionVars, agentVars, envVars>>
      BY <1>1 DEF UpdateDesiredWorkload
    <2>. QED
      BY <2>3, <2>4, DesiredTypes
  <1>2. ASSUME NEW w \in Workload, RetryWorkload(w)
        PROVE  TypeOK'
    <2>1. desired[w].gen + 1 \in 1..MaxGen /\ <<w, desired[w].gen + 1>> \in Id
      BY <1>2, CoordinatorAssumption DEF RetryWorkload, TypeOK
    <2>2. desired' = [desired EXCEPT ![w].gen = desired[w].gen + 1, ![w].blocked = 0]
      BY <1>2 DEF RetryWorkload
    <2>3. desired' \in [Workload -> WorkloadRow] /\ snaps' \subseteq Id
      <3>1. desired \in [Workload -> WorkloadRow] /\ snaps \subseteq Id
        BY DEF TypeOK, WorkloadRow
      <3>2. desired' \in [Workload -> WorkloadRow]
        BY <2>1, <2>2, <3>1, RowTypes
      <3>3. snaps' \subseteq Id
        BY <1>2, <2>1, <3>1 DEF RetryWorkload
      <3>. QED
        BY <3>2, <3>3
    <2>4. UNCHANGED <<hold, barrier, coordVars, sessionVars, agentVars, envVars>>
      BY <1>2 DEF RetryWorkload
    <2>. QED
      BY <2>3, <2>4, DesiredTypes
  <1>3. ASSUME NEW w \in Workload, DeleteDesiredWorkload(w)
        PROVE  TypeOK'
    <2>1. desired' \in [Workload -> WorkloadRow]
      <3>1. desired \in [Workload -> WorkloadRow] /\ 1 \in 1..MaxGen
        BY CoordinatorAssumption DEF TypeOK, WorkloadRow
      <3>2. desired' = [desired EXCEPT ![w].exists = FALSE]
        BY <1>3 DEF DeleteDesiredWorkload
      <3>. QED
        BY <3>1, <3>2, RowTypes
    <2>2. /\ UNCHANGED <<hold, barrier, coordVars, sessionVars, agentVars, envVars>>
          /\ snaps' \subseteq Id
      BY <1>3 DEF DeleteDesiredWorkload, TypeOK
    <2>. QED
      BY <2>1, <2>2, DesiredTypes
  <1>4. ASSUME NEW active \in BOOLEAN, SetMaintenanceHold(active)
        PROVE  TypeOK'
    <2>1. hold' \in [active : BOOLEAN, rev : 0..MaxHold] /\ hold'.rev = hold.rev + 1
      BY <1>4, CoordinatorAssumption DEF SetMaintenanceHold, TypeOK
    <2>2. HoldCommand("hold", hold') \in Commands
      <3>1. PICK h \in [active : BOOLEAN, rev : Nat] : h = hold'
        BY <2>1
      <3>. QED
        BY <3>1, HoldCommandType
    <2>3. /\ holdCall' \in [pc : {"idle", "waiting", "confirmed"}, active : BOOLEAN,
                            rev : 0..MaxHold]
          /\ holdInbox' \in Commands
      BY <1>4, <2>1, <2>2 DEF SetMaintenanceHold, TypeOK
    <2>. QED
      BY <1>4, <2>1, <2>3 DEF SetMaintenanceHold, TypeOK, sessionVars, envVars
  <1>. QED
    BY <1>1, <1>2, <1>3, <1>4 DEF Operator

\* A plan is of executions of the database.
LEMMA PlanType ==
  ASSUME TypeOK, NEW w \in Workload
  PROVE  /\ PlanOf(w).ids \subseteq Id
         /\ PlanOf(w).act \in {"NONE", "START", "STOP", "BLOCK"}
  <1>1. <<w, desired[w].gen>> \in Id
    BY CoordinatorAssumption DEF TypeOK
  <1>2. snaps \subseteq Id
    BY DEF TypeOK
  <1>. QED
    BY <1>1, <1>2 DEF PlanOf, Plan, NoAction

\* Blocking generations.
LEMMA BlocksType ==
  ASSUME TypeOK, NEW invalid, ApplyBlocks(invalid)
  PROVE  desired' \in [Workload -> WorkloadRow]
  <1>1. desired \in [Workload -> WorkloadRow]
    BY DEF TypeOK, WorkloadRow
  <1>2. ASSUME NEW w \in Workload
        PROVE  /\ [desired[w] EXCEPT !.blocked = desired[w].gen] \in WorkloadRow
               /\ desired[w] \in WorkloadRow
    <2>1. desired[w].gen \in 1..MaxGen /\ desired[w] \in WorkloadRow
      BY <1>1 DEF WorkloadRow
    <2>. QED
      BY <1>1, <2>1, RowTypes
  <1>. QED
    BY <1>2 DEF ApplyBlocks

\* What a worker is doing.
WorkerRow == [pc : {"idle", "reserved", "send", "sent"}, key : ActionKeys, seq : Nat, seen : Entry]

\* What a step of one makes of it.
LEMMA WorkerTypes ==
  ASSUME TypeOK, NEW r \in Worker
  PROVE  /\ worker[r] \in WorkerRow /\ IdleWorker \in WorkerRow
         /\ [worker EXCEPT ![r] = IdleWorker] \in [Worker -> WorkerRow]
         /\ [worker EXCEPT ![r].pc = "send"] \in [Worker -> WorkerRow]
         /\ \A q \in Worker : /\ [worker EXCEPT ![r].pc = "send"][q].key = worker[q].key
                              /\ q # r => [worker EXCEPT ![r].pc = "send"][q] = worker[q]
  <1>1. worker \in [Worker -> WorkerRow]
    BY DEF TypeOK, WorkerRow
  <1>2. NoEntry \in Entry
    BY DEF NoEntry, NewEntry, Entry, Statuses, Facts
  <1>3. Key("NONE", None, 0) \in ActionKeys
    BY CoordinatorAssumption DEF Key, ActionKeys
  <1>4. IdleWorker \in WorkerRow
    BY <1>2, <1>3 DEF IdleWorker, WorkerRow
  <1>. QED
    BY <1>1, <1>4 DEF WorkerRow

\* What sending makes of it.
LEMMA SentWorker ==
  ASSUME TypeOK, NEW r \in Worker, NEW seq \in Nat,
         worker' = [worker EXCEPT ![r].pc = "sent", ![r].seq = seq]
  PROVE  /\ worker' \in [Worker -> WorkerRow]
         /\ \A q \in Worker : /\ worker'[q].key = worker[q].key
                              /\ q # r => worker'[q] = worker[q]
         /\ worker'[r].pc = "sent" /\ worker'[r].seq = seq
  <1>1. worker \in [Worker -> WorkerRow]
    BY DEF TypeOK, WorkerRow
  <1>. QED
    BY <1>1 DEF WorkerRow

\* The command a worker sends.
LEMMA SentTypes ==
  ASSUME TypeOK, NEW r \in Worker, worker[r].key.act \in {"START", "STOP"}
  PROVE  /\ Command(worker[r].key.act, worker[r].key.id, session.seq + 1) \in Commands
         /\ session.seq + 1 \in Nat
         /\ \A e \in 1..MaxEpoch :
               Append(inbox[e], Command(worker[r].key.act, worker[r].key.id, session.seq + 1))
                  \in Seq(Commands)
  <1>1. worker[r].key \in ActionKeys /\ session.seq + 1 \in Nat
    BY DEF TypeOK
  <1>2. worker[r].key.id \in Id \cup {None}
    BY <1>1 DEF ActionKeys
  <1>3. Command(worker[r].key.act, worker[r].key.id, session.seq + 1) \in Commands
    BY <1>1, <1>2, CommandTypes
  <1>4. \A e \in 1..MaxEpoch : inbox[e] \in Seq(Commands)
    BY DEF TypeOK
  <1>. QED
    BY <1>1, <1>3, <1>4, SequenceOf

\* What a lost session leaves typed.
LEMMA DisconnectedTypes ==
  ASSUME TypeOK, NEW e \in Nat, Disconnected(e)
  PROVE  obs' \in Entry /\ inFlight' \subseteq inFlight
  BY EntryTypes DEF TypeOK, Disconnected, Disconnect, Entry

\* A worker that is not idle is doing a START or a STOP.
WorkersAct == \A r \in Worker : worker[r].pc # "idle" => worker[r].key.act \in {"START", "STOP"}

\* What a reconcile worker leaves typed.
LEMMA ReconcileTypes ==
  ASSUME TypeOK, WorkersAct, NEW r \in Worker, Reconcile(r)
  PROVE  TypeOK' /\ WorkersAct'
  <1>. WorkersAct /\ TypeOK
    OBVIOUS
  <1>1. CASE ApplyRestoreBarrier(r)
    <2>1. barrier' \in {"NONE", "PENDING", "CONFLICT"}
      BY <1>1 DEF ApplyRestoreBarrier
    <2>2. UNCHANGED <<desired, snaps, hold, coordVars, sessionVars, agentVars, envVars>>
      BY <1>1 DEF ApplyRestoreBarrier
    <2>. QED
      BY <2>1, <2>2 DEF TypeOK, WorkersAct, coordVars, sessionVars, agentVars, envVars
  <1>2. ASSUME NEW invalid \in SUBSET Workload, PrepareDispatch(r, invalid)
        PROVE  TypeOK' /\ WorkersAct'
    <2>1. desired' \in [Workload -> WorkloadRow]
      <3>1. ApplyBlocks(invalid)
        BY <1>2 DEF PrepareDispatch
      <3>. QED
        BY <3>1, BlocksType DEF WorkloadRow
    <2>2. First(Dispatching(invalid)) \in Dispatching(invalid)
      <3>1. Dispatching(invalid) \subseteq Workload /\ Dispatching(invalid) # {}
        BY <1>2 DEF PrepareDispatch, Dispatching
      <3>. QED
        BY <3>1, LeastOf
    <2>3. PICK w \in Workload : w = First(Dispatching(invalid)) /\ PlanOf(w).act \in {"START", "STOP"}
      BY <2>2 DEF Dispatching
    <2>4. PICK i \in PlanOf(w).ids :
             /\ MarkInFlight(Key(PlanOf(w).act, i, obs.epoch))
             /\ worker' = [worker EXCEPT ![r] =
                             [pc |-> "reserved", key |-> Key(PlanOf(w).act, i, obs.epoch),
                              seq |-> 0, seen |-> obs]]
      BY <1>2, <2>3 DEF PrepareDispatch
    <2>5. epoch = obs.epoch
      BY <1>2 DEF PrepareDispatch, SessionMatches
    <2>6. i \in Id /\ obs.epoch \in 0..MaxEpoch /\ obs \in Entry
      BY <2>5, PlanType DEF TypeOK
    <2>7. Key(PlanOf(w).act, i, obs.epoch) \in ActionKeys
      BY <2>3, <2>6 DEF Key, ActionKeys
    <2>8. worker' \in [Worker -> WorkerRow] /\ WorkersAct'
      <3>1. PICK k \in ActionKeys : k = Key(PlanOf(w).act, i, obs.epoch) /\ k.act \in {"START", "STOP"}
        BY <2>3, <2>7 DEF Key
      <3>2. worker' = [worker EXCEPT ![r] = [pc |-> "reserved", key |-> k, seq |-> 0, seen |-> obs]]
        BY <2>4, <3>1
      <3>3. [pc |-> "reserved", key |-> k, seq |-> 0, seen |-> obs] \in WorkerRow
        BY <2>6 DEF WorkerRow
      <3>4. worker \in [Worker -> WorkerRow]
        BY DEF TypeOK, WorkerRow
      <3>. QED
        BY <3>1, <3>2, <3>3, <3>4 DEF WorkersAct
    <2>9. inFlight' \subseteq [key : ActionKeys, seq : Nat]
      BY <2>4, <2>7 DEF MarkInFlight, TypeOK
    <2>10. UNCHANGED <<snaps, hold, barrier, obs, holdCall, sessionVars, agentVars, envVars>>
      BY <1>2 DEF PrepareDispatch
    <2>11. UNCHANGED <<snaps, hold, barrier, obs, holdCall, session, link, epoch, pending,
                       replies, inbox, busyCmd, holdInbox, agent, unmanaged, faults>>
      BY <2>10 DEF sessionVars, agentVars, envVars
    <2>12. WorkersAct'
      BY <2>8
    <2>13. /\ desired' \in [Workload -> [exists : BOOLEAN, run : BOOLEAN,
                                        gen : 1..MaxGen, blocked : 0..MaxGen]]
           /\ worker' \in [Worker -> [pc : {"idle", "reserved", "send", "sent"}, key : ActionKeys,
                                     seq : Nat, seen : Entry]]
      BY <2>1, <2>8 DEF WorkloadRow, WorkerRow
    <2>14. TypeOK'
      <3>1. snaps' \subseteq Id /\ hold' \in [active : BOOLEAN, rev : 0..MaxHold]
        BY <2>11 DEF TypeOK
      <3>2. barrier' \in {"NONE", "PENDING", "CONFLICT"} /\ obs' \in Entry
        BY <2>11 DEF TypeOK
      <3>. QED
        BY <2>9, <2>11, <2>13, <3>1, <3>2 DEF TypeOK
    <2>. QED
      BY <2>12, <2>14
  <1>3. ASSUME NEW invalid \in SUBSET Workload, PrepareBlocks(r, invalid)
        PROVE  TypeOK' /\ WorkersAct'
    <2>1. desired' \in [Workload -> WorkloadRow]
      <3>1. ApplyBlocks(invalid)
        BY <1>3 DEF PrepareBlocks
      <3>. QED
        BY <3>1, BlocksType DEF WorkloadRow
    <2>2. UNCHANGED <<snaps, hold, barrier, coordVars, sessionVars, agentVars, envVars>>
      BY <1>3 DEF PrepareBlocks
    <2>. QED
      BY <2>1, <2>2 DEF TypeOK, WorkersAct, WorkloadRow, coordVars, sessionVars, agentVars, envVars
  <1>4. CASE Recheck(r)
    <2>1. worker' \in [Worker -> WorkerRow] /\ WorkersAct'
      <3>1. worker \in [Worker -> WorkerRow] /\ worker[r].pc = "reserved"
        BY <1>4 DEF TypeOK, WorkerRow, Recheck
      <3>2. CASE worker' = [worker EXCEPT ![r].pc = "send"]
        <4>1. worker' \in [Worker -> WorkerRow]
          BY <3>2, WorkerTypes
        <4>2. ASSUME NEW q \in Worker, worker'[q].pc # "idle"
              PROVE  worker'[q].key.act \in {"START", "STOP"}
          <5>1. worker'[q].key = worker[q].key /\ (q # r => worker'[q] = worker[q])
            BY <3>2, WorkerTypes
          <5>. QED
            BY <3>1, <4>2, <5>1 DEF WorkersAct
        <4>. QED
          BY <4>1, <4>2 DEF WorkersAct
      <3>3. CASE worker' = [worker EXCEPT ![r] = IdleWorker]
        BY <3>1, <3>3, WorkerTypes DEF WorkersAct, IdleWorker
      <3>. QED
        BY <1>4, <3>2, <3>3 DEF Recheck
    <2>2. inFlight' \subseteq [key : ActionKeys, seq : Nat]
      BY <1>4 DEF Recheck, Without, TypeOK
    <2>3. UNCHANGED <<configVars, obs, holdCall, sessionVars, agentVars, envVars>>
      BY <1>4 DEF Recheck
    <2>. QED
      BY <2>1, <2>2, <2>3 DEF TypeOK, WorkerRow, configVars, sessionVars, agentVars, envVars
  <1>5. CASE SendRuntime(r)
    <2>1. worker' \in [Worker -> WorkerRow] /\ WorkersAct'
      <3>1. worker \in [Worker -> WorkerRow] /\ worker[r].pc = "send" /\ session.seq + 1 \in Nat
        BY <1>5 DEF TypeOK, WorkerRow, SendRuntime
      <3>2. worker' = [worker EXCEPT ![r].pc = "sent", ![r].seq = session.seq + 1]
        BY <1>5 DEF SendRuntime
      <3>3. /\ worker' \in [Worker -> WorkerRow]
            /\ \A q \in Worker : /\ worker'[q].key = worker[q].key
                                 /\ q # r => worker'[q] = worker[q]
        BY <3>1, <3>2, SentWorker
      <3>4. ASSUME NEW q \in Worker, worker'[q].pc # "idle"
            PROVE  worker'[q].key.act \in {"START", "STOP"}
        BY <3>1, <3>3, <3>4 DEF WorkersAct
      <3>. QED
        BY <3>3, <3>4 DEF WorkersAct
    <2>2. worker[r].key.act \in {"START", "STOP"}
      BY <1>5 DEF SendRuntime, WorkersAct
    <2>3. PICK c \in Commands :
             /\ pending' = pending \cup {c}
             /\ inbox' = [inbox EXCEPT ![epoch] = Append(@, c)]
      BY <1>5, <2>2, SentTypes DEF SendRuntime, Send
    <2>4. /\ pending' \subseteq Commands
          /\ inbox' \in [1..MaxEpoch -> Seq(Commands)]
      BY <2>3, InboxTypes DEF TypeOK
    <2>5. session' = [session EXCEPT !.seq = session.seq + 1]
      BY <1>5 DEF SendRuntime, Send
    <2>6. session' \in SessionRow
      <3>1. session \in SessionRow
        BY DEF TypeOK, SessionRow
      <3>. QED
        BY <2>5, <3>1, SessionTypes
    <2>7. UNCHANGED <<configVars, obs, inFlight, holdCall, link, epoch, replies,
                      busyCmd, holdInbox, agent, envVars>>
      BY <1>5 DEF SendRuntime
    <2>. QED
      BY <2>1, <2>4, <2>6, <2>7 DEF TypeOK, SessionRow, WorkerRow, configVars, envVars
  <1>6. CASE SendFails(r)
    <2>1. worker' \in [Worker -> WorkerRow] /\ WorkersAct'
      <3>1. worker \in [Worker -> WorkerRow]
        BY DEF TypeOK, WorkerRow
      <3>2. worker' = [worker EXCEPT ![r] = IdleWorker]
        BY <1>6 DEF SendFails
      <3>. QED
        BY <3>1, <3>2, WorkerTypes DEF WorkersAct, IdleWorker
    <2>2. worker[r].key.act \in {"START", "STOP"}
      BY <1>6 DEF SendFails, WorkersAct
    <2>3. inbox' \in [1..MaxEpoch -> Seq(Commands)]
      <3>1. CASE inbox' = inbox
        BY <3>1 DEF TypeOK
      <3>2. CASE inbox' = [inbox EXCEPT ![epoch] = Append(@,
                      Command(worker[r].key.act, worker[r].key.id, session.seq + 1))]
        <4>1. PICK c \in Commands : inbox' = [inbox EXCEPT ![epoch] = Append(@, c)]
          BY <2>2, <3>2, SentTypes
        <4>. QED
          BY <4>1, InboxTypes DEF TypeOK
      <3>. QED
        BY <1>6, <3>1, <3>2 DEF SendFails
    <2>4. session' = session \/ session' = [session EXCEPT !.seq = session.seq + 1, !.revoked = TRUE]
      BY <1>6 DEF SendFails
    <2>5. worker[r].key.epoch \in Nat
      BY CoordinatorAssumption DEF TypeOK, ActionKeys
    <2>6. obs' \in Entry /\ inFlight' \subseteq inFlight
      BY <1>6, <2>5, DisconnectedTypes DEF SendFails
    <2>7. session' \in SessionRow
      <3>1. session \in SessionRow
        BY DEF TypeOK, SessionRow
      <3>2. CASE session' = session
        BY <3>1, <3>2
      <3>3. CASE session' = [session EXCEPT !.seq = session.seq + 1, !.revoked = TRUE]
        <4>1. PICK s \in SessionRow : s = session /\ s.seq + 1 \in Nat
          BY <3>1 DEF SessionRow
        <4>2. [s EXCEPT !.seq = s.seq + 1, !.revoked = TRUE] \in SessionRow
          BY <4>1 DEF SessionRow
        <4>. QED
          BY <3>3, <4>1, <4>2
      <3>. QED
        BY <2>4, <3>2, <3>3
    <2>8. /\ inFlight' \subseteq [key : ActionKeys, seq : Nat]
          /\ UNCHANGED <<configVars, holdCall, link, epoch, pending, replies,
                         busyCmd, holdInbox, agent, envVars>>
      BY <1>6, <2>6 DEF SendFails, TypeOK
    <2>. QED
      BY <2>1, <2>3, <2>6, <2>7, <2>8
      DEF TypeOK, SessionRow, WorkerRow, configVars, envVars
  <1>7. CASE SetDispatchSequence(r)
    <2>1. worker' \in [Worker -> WorkerRow] /\ WorkersAct'
      <3>1. worker \in [Worker -> WorkerRow]
        BY DEF TypeOK, WorkerRow
      <3>2. worker' = [worker EXCEPT ![r] = IdleWorker]
        BY <1>7 DEF SetDispatchSequence
      <3>. QED
        BY <3>1, <3>2, WorkerTypes DEF WorkersAct, IdleWorker
    <2>2. worker[r].key \in ActionKeys /\ worker[r].seq \in Nat
      BY WorkerTypes DEF WorkerRow
    <2>3. inFlight' \subseteq [key : ActionKeys, seq : Nat]
      <3>1. Without(worker[r].key) \subseteq [key : ActionKeys, seq : Nat]
        BY DEF Without, TypeOK
      <3>2. [key |-> worker[r].key, seq |-> worker[r].seq] \in [key : ActionKeys, seq : Nat]
        BY <2>2
      <3>. QED
        BY <1>7, <3>1, <3>2 DEF SetDispatchSequence
    <2>4. UNCHANGED <<configVars, obs, holdCall, sessionVars, agentVars, envVars>>
      BY <1>7 DEF SetDispatchSequence
    <2>. QED
      BY <2>1, <2>3, <2>4 DEF TypeOK, WorkerRow, configVars, sessionVars, agentVars, envVars
  <1>. QED
    BY <1>1, <1>2, <1>3, <1>4, <1>5, <1>6, <1>7 DEF Reconcile

\* A reply the stream loop takes.
LEMMA TakeTypes ==
  ASSUME TypeOK, NEW m, Take(m)
  PROVE  /\ m \in Replies /\ m.cmd \in Commands /\ m.execs \in [Id -> Statuses]
         /\ m.busy \in SUBSET Resource /\ m.cmd.seq \in Nat
         /\ replies' \in Seq(Replies) /\ replies # <<>> /\ m = replies[1] /\ Len(replies) > 0
         /\ replies' = Tail(replies)
         /\ \A n \in 1..Len(replies') : replies'[n] = replies[n + 1] /\ n + 1 \in 1..Len(replies)
  <1>1. replies \in Seq(Replies) /\ replies # <<>> /\ m = Head(replies) /\ replies' = Tail(replies)
    BY DEF Take, TypeOK
  <1>2. /\ m \in Replies /\ replies' \in Seq(Replies) /\ m = replies[1] /\ Len(replies) > 0
        /\ \A n \in 1..Len(replies') : replies'[n] = replies[n + 1] /\ n + 1 \in 1..Len(replies)
    BY <1>1, SequenceOf
  <1>. QED
    BY <1>1, <1>2 DEF Replies, Commands

\* What a result of a runtime command leaves typed.
LEMMA ResultTypes ==
  ASSUME TypeOK, NEW c \in Commands, IsRuntime(c), NEW outcome, RuntimeResult(c, outcome)
  PROVE  /\ inFlight' \subseteq inFlight /\ obs' \in Entry
         /\ desired' \in [Workload -> WorkloadRow]
  <1>1. inFlight' \subseteq inFlight
    BY DEF RuntimeResult, Without
  <1>2. obs' \in Entry
    <2>1. obs \in Entry /\ c.seq \in Nat /\ epoch \in Nat
      BY CoordinatorAssumption DEF TypeOK, Commands
    <2>2. CASE outcome \in {"RUNNING", "STOPPED", "FAILED"}
      <3>1. outcome \in Statuses
        BY <2>2 DEF Statuses
      <3>2. UpsertExecution(obs, epoch, c.id, outcome, c.seq) \in Entry
        BY <2>1, <3>1, UpsertType
      <3>. QED
        BY <2>1, <3>2 DEF RuntimeResult
    <2>3. CASE outcome \notin {"RUNNING", "STOPPED", "FAILED"}
      BY <2>1, <2>3 DEF RuntimeResult
    <2>. QED
      BY <2>2, <2>3
  <1>3. desired' \in [Workload -> WorkloadRow]
    <2>1. desired \in [Workload -> WorkloadRow]
      BY DEF TypeOK, WorkloadRow
    <2>2. Block(desired, c.id[1], c.id[2]) \in [Workload -> WorkloadRow]
      <3>1. CASE c.id[1] \in Workload /\ desired[c.id[1]].gen = c.id[2]
        <4>1. PICK w \in Workload : w = c.id[1]
          BY <3>1
        <4>2. desired[w].gen \in 1..MaxGen
          BY <2>1 DEF WorkloadRow
        <4>3. [desired EXCEPT ![w].blocked = desired[w].gen] \in [Workload -> WorkloadRow]
          BY <2>1, <4>2, RowTypes
        <4>. QED
          BY <2>1, <3>1, <4>1, <4>3 DEF Block
      <3>2. CASE c.id[1] \notin Workload
        BY <2>1, <3>2 DEF Block
      <3>3. CASE desired[c.id[1]].gen # c.id[2]
        BY <2>1, <3>3 DEF Block
      <3>. QED
        BY <3>1, <3>2, <3>3
    <2>. QED
      BY <2>1, <2>2 DEF RuntimeResult
  <1>. QED
    BY <1>1, <1>2, <1>3

\* Queries, as a session sends them.
LEMMA QueryTypes ==
  ASSUME TypeOK, NEW ks
  PROVE  /\ Absent(ks) \in Seq(Commands)
         /\ Range(Absent(ks)) \subseteq Commands
         /\ [inbox EXCEPT ![epoch] = @ \o Absent(ks)] \in [1..MaxEpoch -> Seq(Commands)]
  <1>1. Absent(ks) \in Seq(Commands)
    BY AbsentType
  <1>2. Range(Absent(ks)) \subseteq Commands
    BY <1>1, RangeOf
  <1>3. inbox \in [1..MaxEpoch -> Seq(Commands)]
    BY DEF TypeOK
  <1>. QED
    BY <1>1, <1>2, <1>3, InboxTypes

\* What a new session leaves typed.
LEMMA ConnectTypes ==
  ASSUME TypeOK, ServerConnect
  PROVE  TypeOK'
  <1>1. session' \in SessionRow /\ epoch' \in 0..MaxEpoch
    <2>1. session' = [NoSession EXCEPT !.state = "hello"] /\ session \in SessionRow
      BY DEF ServerConnect, TypeOK, SessionRow
    <2>2. session' \in SessionRow
      BY <2>1, SessionTypes
    <2>. QED
      BY <2>2, CoordinatorAssumption DEF ServerConnect, TypeOK
  <1>2. <<HoldCommand("hello", hold)>> \in Seq(Commands) /\ NoCommand \in Commands
    <2>1. hold \in [active : BOOLEAN, rev : Nat]
      BY CoordinatorAssumption DEF TypeOK
    <2>2. HoldCommand("hello", hold) \in Commands
      BY <2>1, HoldCommandType
    <2>3. NoCommand \in Commands
      BY DEF NoCommand, Command, Commands
    <2>. QED
      BY <2>2, <2>3
  <1>3. inbox' \in [1..MaxEpoch -> Seq(Commands)] /\ holdInbox' \in Commands
    <2>1. inbox \in [1..MaxEpoch -> Seq(Commands)]
      BY DEF TypeOK
    <2>2. inbox' = [inbox EXCEPT ![epoch + 1] = <<HoldCommand("hello", hold)>>]
      BY DEF ServerConnect, ConnectOnce
    <2>. QED
      <3>1. PICK s \in Seq(Commands) : inbox' = [inbox EXCEPT ![epoch + 1] = s]
        BY <1>2, <2>2
      <3>. QED
        BY <1>2, <2>1, <3>1, InboxTypes DEF ServerConnect, ConnectOnce
  <1>4. /\ link' = TRUE /\ pending' = {} /\ replies' = <<>>
        /\ UNCHANGED <<configVars, coordVars, busyCmd, agent, envVars>>
    BY DEF ServerConnect, ConnectOnce
  <1>. QED
    BY <1>1, <1>3, <1>4 DEF TypeOK, SessionRow, configVars, coordVars, envVars

\* What the replies of an Agent to the queries leave typed.
LEMMA QueryReplyTypes ==
  ASSUME TypeOK, ExecutionsReply \/ FactsReply
  PROVE  TypeOK'
  <1>1. obs \in Entry /\ epoch \in Nat
    BY CoordinatorAssumption DEF TypeOK
  <1>2. CASE ExecutionsReply
    <2>1. PICK m \in Range(replies) :
             /\ Take(m) /\ obs' = MarkReady(SetExecutions(obs, epoch, m.execs, m.cmd.seq), epoch)
             /\ inFlight' \subseteq inFlight
             /\ \E new \in {<<>>, Absent({"facts"})} :
                   /\ pending' = (pending \ {m.cmd}) \cup Range(new)
                   /\ inbox' = [inbox EXCEPT ![epoch] = @ \o new]
      BY <1>2 DEF ExecutionsReply
    <2>2. replies' \in Seq(Replies) /\ m.execs \in [Id -> Statuses] /\ m.cmd.seq \in Nat
      BY <2>1, TakeTypes
    <2>3. SetExecutions(obs, epoch, m.execs, m.cmd.seq) \in Entry
      BY <1>1, <2>2, ExecutionsType
    <2>4. obs' \in Entry
      BY <1>1, <2>1, <2>3, EntryTypes
    <2>5. session' \in SessionRow
      BY <1>2, GotTypes DEF ExecutionsReply
    <2>6. PICK new \in Seq(Commands) :
             /\ pending' = (pending \ {m.cmd}) \cup Range(new)
             /\ inbox' = [inbox EXCEPT ![epoch] = @ \o new]
      <3>1. PICK new \in {<<>>, Absent({"facts"})} :
               /\ pending' = (pending \ {m.cmd}) \cup Range(new)
               /\ inbox' = [inbox EXCEPT ![epoch] = @ \o new]
        BY <2>1
      <3>2. new \in Seq(Commands)
        <4>1. Absent({"facts"}) \in Seq(Commands)
          BY AbsentType
        <4>2. CASE new = <<>>
          BY <4>2
        <4>3. CASE new = Absent({"facts"})
          BY <4>1, <4>3
        <4>. QED
          BY <3>1, <4>2, <4>3
      <3>. QED
        BY <3>1, <3>2
    <2>7. inbox' \in [1..MaxEpoch -> Seq(Commands)]
      BY <2>6, InboxTypes DEF TypeOK
    <2>8. pending' \subseteq Commands
      <3>1. Range(new) \subseteq Commands
        BY RangeOf
      <3>. QED
        BY <2>6, <3>1 DEF TypeOK
    <2>9. UNCHANGED <<configVars, worker, holdCall, link, epoch, busyCmd, holdInbox,
                      agent, envVars>>
      BY <1>2 DEF ExecutionsReply
    <2>. QED
      BY <2>1, <2>2, <2>4, <2>5, <2>7, <2>8, <2>9 DEF TypeOK, SessionRow, configVars, envVars
  <1>3. CASE FactsReply
    <2>1. PICK m \in Range(replies) :
             /\ Take(m) /\ pending' = pending \ {m.cmd}
             /\ LET known == SetInventory(SetAgentState(obs, epoch), epoch)
                IN  \/ obs' = MarkReady(known, epoch)
                    \/ obs' = MarkReady(SetUnmanagedProcesses(known, epoch, m.busy), epoch)
             /\ session' = Got({"status", "inventory"}) \/ session' = Got(Facts)
      BY <1>3 DEF FactsReply
    <2>2. replies' \in Seq(Replies) /\ m.busy \in SUBSET Resource
      BY <2>1, TakeTypes
    <2>3. PICK known \in Entry : known = SetInventory(SetAgentState(obs, epoch), epoch)
      <3>1. SetAgentState(obs, epoch) \in Entry
        BY <1>1, EntryTypes
      <3>. QED
        BY <1>1, <3>1, EntryTypes
    <2>4. SetUnmanagedProcesses(known, epoch, m.busy) \in Entry
      BY <1>1, <2>2, ProcessesType
    <2>5. obs' \in Entry
      BY <1>1, <2>1, <2>3, <2>4, EntryTypes
    <2>6. session' \in SessionRow
      <3>1. {"status", "inventory"} \in SUBSET (Facts \cup {"executions"})
            /\ Facts \in SUBSET (Facts \cup {"executions"})
        BY DEF Facts
      <3>. QED
        BY <2>1, <3>1, GotTypes
    <2>7. UNCHANGED <<configVars, inFlight, worker, holdCall, link, epoch, agentVars, envVars>>
      BY <1>3 DEF FactsReply
    <2>. QED
      BY <2>1, <2>2, <2>5, <2>6, <2>7 DEF TypeOK, SessionRow, configVars, agentVars, envVars
  <1>. QED
    BY <1>2, <1>3

\* What the other steps of a session leave typed.
LEMMA ServerTypes ==
  ASSUME TypeOK, Server
  PROVE  TypeOK'
  <1>. session \in SessionRow /\ epoch \in Nat /\ obs \in Entry
    BY CoordinatorAssumption DEF TypeOK, SessionRow
  <1>1. CASE SessionConnected
    <2>1. session' \in SessionRow /\ obs' \in Entry
      BY <1>1, SessionTypes, EntryTypes DEF SessionConnected
    <2>2. pending' \subseteq Commands /\ inbox' \in [1..MaxEpoch -> Seq(Commands)]
      BY <1>1, QueryTypes DEF SessionConnected
    <2>. QED
      BY <1>1, <2>1, <2>2 DEF SessionConnected, TypeOK, SessionRow, configVars, envVars
  <1>2. CASE Heartbeat
    <2>1. pending' \subseteq Commands /\ inbox' \in [1..MaxEpoch -> Seq(Commands)]
      <3>1. pending \subseteq Commands
        BY DEF TypeOK
      <3>. QED
        BY <1>2, <3>1, QueryTypes DEF Heartbeat
    <2>. QED
      BY <1>2, <2>1 DEF Heartbeat, TypeOK, configVars, coordVars, envVars
  <1>3. CASE ServerEnds
    <2>1. session' \in SessionRow
      BY <1>3, SessionTypes DEF ServerEnds
    <2>. QED
      BY <1>3, <2>1 DEF ServerEnds, TypeOK, SessionRow, configVars, coordVars, agentVars, envVars
  <1>4. CASE SessionDisconnected
    <2>1. session' \in SessionRow /\ obs' \in Entry /\ inFlight' \subseteq inFlight
      BY <1>4, SessionTypes, DisconnectedTypes DEF SessionDisconnected
    <2>. QED
      BY <1>4, <2>1 DEF SessionDisconnected, TypeOK, SessionRow, configVars, agentVars, envVars
  <1>5. CASE RuntimeReply
    <2>1. PICK m \in Range(replies) :
             /\ Take(m) /\ IsRuntime(m.cmd) /\ RuntimeResult(m.cmd, m.outcome)
             /\ pending' = pending \ {m.cmd}
      BY <1>5 DEF RuntimeReply
    <2>2. m.cmd \in Commands /\ replies' \in Seq(Replies)
      BY <2>1, TakeTypes
    <2>3. /\ inFlight' \subseteq inFlight /\ obs' \in Entry
          /\ desired' \in [Workload -> WorkloadRow]
      BY <2>1, <2>2, ResultTypes
    <2>4. UNCHANGED <<snaps, hold, barrier, worker, holdCall, session, link, epoch,
                      agentVars, envVars>>
      BY <1>5 DEF RuntimeReply
    <2>. QED
      BY <2>1, <2>2, <2>3, <2>4 DEF TypeOK, WorkloadRow, agentVars, envVars
  <1>6. CASE ExpireRuntimeResult
    <2>1. PICK c \in pending :
             /\ IsRuntime(c) /\ RuntimeResult(c, "uncertain") /\ pending' = pending \ {c}
      BY <1>6 DEF ExpireRuntimeResult
    <2>2. c \in Commands
      BY DEF TypeOK
    <2>3. /\ inFlight' \subseteq inFlight /\ obs' \in Entry
          /\ desired' \in [Workload -> WorkloadRow]
      BY <2>1, <2>2, ResultTypes
    <2>4. UNCHANGED <<snaps, hold, barrier, worker, holdCall, session, link, epoch, replies,
                      agentVars, envVars>>
      BY <1>6 DEF ExpireRuntimeResult
    <2>. QED
      BY <2>1, <2>3, <2>4 DEF TypeOK, WorkloadRow, agentVars, envVars
  <1>7. CASE LateReply
    <2>1. replies' \in Seq(Replies)
      BY <1>7, TakeTypes DEF LateReply
    <2>. QED
      BY <1>7, <2>1 DEF LateReply, TypeOK, configVars, coordVars, agentVars, envVars
  <1>8. CASE HoldReply
    <2>1. replies' \in Seq(Replies)
      BY <1>8, TakeTypes DEF HoldReply
    <2>2. holdCall' = holdCall \/ holdCall' = [holdCall EXCEPT !.pc = "confirmed"]
      BY <1>8 DEF HoldReply
    <2>3. holdCall' \in [pc : {"idle", "waiting", "confirmed"}, active : BOOLEAN, rev : 0..MaxHold]
      BY <2>2 DEF TypeOK
    <2>4. UNCHANGED <<configVars, obs, inFlight, worker, session, link, epoch, pending,
                      agentVars, envVars>>
      BY <1>8 DEF HoldReply
    <2>. QED
      BY <2>1, <2>3, <2>4 DEF TypeOK, configVars, agentVars, envVars
  <1>9. CASE HoldFails
    <2>1. session' \in SessionRow
      BY <1>9, SessionTypes DEF HoldFails
    <2>2. holdCall' \in [pc : {"idle", "waiting", "confirmed"}, active : BOOLEAN, rev : 0..MaxHold]
      BY <1>9, CoordinatorAssumption DEF HoldFails, NoHoldCall
    <2>. QED
      BY <1>9, <2>1, <2>2 DEF HoldFails, TypeOK, SessionRow, configVars, agentVars, envVars
  <1>10. CASE HoldReturns
    <2>1. obs' \in Entry
      BY <1>10, EntryTypes DEF HoldReturns
    <2>2. holdCall' \in [pc : {"idle", "waiting", "confirmed"}, active : BOOLEAN, rev : 0..MaxHold]
      BY <1>10, CoordinatorAssumption DEF HoldReturns, NoHoldCall
    <2>. QED
      BY <1>10, <2>1, <2>2 DEF HoldReturns, TypeOK, configVars, sessionVars, agentVars, envVars
  <1>. QED
    BY <1>1, <1>2, <1>3, <1>4, <1>5, <1>6, <1>7, <1>8, <1>9, <1>10, ConnectTypes, QueryReplyTypes
    DEF Server

\* One fault less.
LEMMA FaultsTypes ==
  ASSUME TypeOK, faults > 0
  PROVE  faults - 1 \in 0..Faults
  BY CoordinatorAssumption DEF TypeOK

\* A reply of the Agent.
LEMMA ReplyTypes ==
  ASSUME TypeOK, NEW e, NEW c \in Commands,
         NEW outcome \in {"ok", "error", "RUNNING", "STOPPED", "unowned", "uncertain", "rejected"},
         NEW busy, busy \subseteq Resource, Reply(e, c, outcome, agent.exec, busy)
  PROVE  replies' \in Seq(Replies)
  <1>1. [cmd |-> c, outcome |-> outcome, execs |-> agent.exec, busy |-> busy] \in Replies
    BY DEF TypeOK, Replies
  <1>2. replies \in Seq(Replies)
    BY DEF TypeOK
  <1>. QED
    BY <1>1, <1>2, SequenceOf DEF Reply

\* One that lists no processes.
LEMMA BareReplyTypes ==
  ASSUME TypeOK, NEW e, NEW c \in Commands, NEW outcome,
         Reply(e, c, outcome, agent.exec, {})
  PROVE  outcome \in {"ok", "error", "RUNNING", "STOPPED", "unowned", "uncertain", "rejected"}
            => replies' \in Seq(Replies)
  <1>1. PICK busy : busy = {} /\ busy \subseteq Resource
    OBVIOUS
  <1>2. Reply(e, c, outcome, agent.exec, busy)
    BY <1>1
  <1>. QED
    BY <1>1, <1>2, ReplyTypes

\* What the Agent keeps.
AgentRow == [exec : [Id -> Statuses], hold : BOOLEAN, rev : Nat]

\* What a step of it makes of it.
LEMMA AgentStepTypes ==
  ASSUME TypeOK, NEW c \in Commands
  PROVE  /\ agent \in AgentRow /\ ApplyHold(c) \in AgentRow
         /\ \A status \in Statuses : [agent EXCEPT !.exec[c.id] = status] \in AgentRow
         /\ [exec |-> [i \in Id |-> "NONE"], hold |-> FALSE, rev |-> 0] \in AgentRow
  <1>1. agent \in AgentRow
    BY DEF TypeOK, AgentRow
  <1>2. ApplyHold(c) \in AgentRow
    <2>1. c.active \in BOOLEAN /\ c.seq \in Nat
      BY DEF Commands
    <2>2. [i \in Id |-> IF c.active /\ agent.exec[i] = "RUNNING"
                        THEN "STOPPED" ELSE agent.exec[i]] \in [Id -> Statuses]
      BY <1>1 DEF AgentRow, Statuses
    <2>. QED
      BY <1>1, <2>1, <2>2 DEF ApplyHold, AgentRow
  <1>3. \A status \in Statuses : [agent EXCEPT !.exec[c.id] = status] \in AgentRow
    BY <1>1 DEF AgentRow
  <1>4. [exec |-> [i \in Id |-> "NONE"], hold |-> FALSE, rev |-> 0] \in AgentRow
    BY DEF AgentRow, Statuses
  <1>. QED
    BY <1>1, <1>2, <1>3, <1>4

\* The command at the head of a session's buffer.
LEMMA HeadTypes ==
  ASSUME TypeOK, NEW e \in 1..MaxEpoch, inbox[e] # <<>>
  PROVE  /\ Head(inbox[e]) \in Commands
         /\ [inbox EXCEPT ![e] = Tail(@)] \in [1..MaxEpoch -> Seq(Commands)]
  <1>1. inbox \in [1..MaxEpoch -> Seq(Commands)]
    BY DEF TypeOK
  <1>. QED
    BY <1>1, InboxTypes

\* What a hold that reaches the Agent leaves typed.
LEMMA AgentHoldTypes ==
  ASSUME TypeOK, AgentHello \/ AgentHold
  PROVE  TypeOK'
  <1>1. CASE AgentHello
    <2>1. epoch \in 1..MaxEpoch /\ inbox[epoch] # <<>>
      BY <1>1, CoordinatorAssumption DEF AgentHello, Ready, TypeOK
    <2>2. PICK c \in Commands : agent' = ApplyHold(c)
      BY <1>1, <2>1, HeadTypes DEF AgentHello
    <2>3. agent' \in AgentRow
      BY <2>2, AgentStepTypes
    <2>4. inbox' \in [1..MaxEpoch -> Seq(Commands)]
      BY <1>1, <2>1, HeadTypes DEF AgentHello
    <2>5. UNCHANGED <<configVars, coordVars, sessionVars, busyCmd, holdInbox, envVars>>
      BY <1>1 DEF AgentHello
    <2>. QED
      BY <2>3, <2>4, <2>5
      DEF TypeOK, AgentRow, configVars, coordVars, sessionVars, envVars
  <1>2. CASE AgentHold
    <2>1. PICK c \in Commands : c = holdInbox
      BY DEF TypeOK
    <2>2. agent' \in AgentRow
      BY <1>2, <2>1, AgentStepTypes DEF AgentHold
    <2>3. replies' \in Seq(Replies)
      <3>1. Reply(epoch, c, "ok", agent.exec, {})
        BY <1>2, <2>1 DEF AgentHold
      <3>. QED
        BY <3>1, BareReplyTypes
    <2>4. holdInbox' \in Commands
      BY <1>2 DEF AgentHold, NoCommand, Command, Commands
    <2>5. UNCHANGED <<configVars, coordVars, session, link, epoch, pending, inbox, busyCmd,
                      envVars>>
      BY <1>2 DEF AgentHold
    <2>. QED
      BY <2>2, <2>3, <2>4, <2>5 DEF TypeOK, AgentRow, configVars, coordVars, envVars
  <1>. QED
    BY <1>1, <1>2

\* What a command goroutine leaves typed.
LEMMA CommandGoroutineTypes ==
  ASSUME TypeOK, NEW e \in 1..MaxEpoch,
         \/ AgentQuery(e, "ok") \/ AgentQuery(e, "error")
         \/ AgentStop(e) \/ AgentPrepare(e) \/ AgentStart(e) \/ AgentQuit(e)
         \/ \E outcome \in {"rejected", "uncertain", "spawn"} : AgentStartFails(e, outcome)
  PROVE  TypeOK'
  <1>1. ASSUME NEW outcome \in {"ok", "error"}, AgentQuery(e, outcome) PROVE TypeOK'
    <2>1. inbox[e] # <<>>
      BY <1>1 DEF AgentQuery, Ready
    <2>2. PICK c \in Commands : c = Head(inbox[e])
      BY <2>1, HeadTypes
    <2>3. replies' \in Seq(Replies)
      <3>1. Reply(e, c, outcome, agent.exec, unmanaged) /\ unmanaged \subseteq Resource
        BY <1>1, <2>2 DEF AgentQuery, TypeOK
      <3>. QED
        BY <3>1, ReplyTypes
    <2>4. inbox' \in [1..MaxEpoch -> Seq(Commands)]
      BY <1>1, <2>1, HeadTypes DEF AgentQuery
    <2>5. faults' \in 0..Faults
      BY <1>1, CoordinatorAssumption DEF AgentQuery, TypeOK
    <2>6. UNCHANGED <<configVars, coordVars, session, link, epoch, pending, busyCmd, holdInbox,
                      agent, unmanaged>>
      BY <1>1 DEF AgentQuery
    <2>. QED
      BY <2>3, <2>4, <2>5, <2>6 DEF TypeOK, configVars, coordVars
  <1>2. CASE AgentStop(e)
    <2>1. inbox[e] # <<>>
      BY <1>2 DEF AgentStop, Ready
    <2>2. PICK c \in Commands : c = Head(inbox[e])
      BY <2>1, HeadTypes
    <2>3. /\ agent' = agent \/ agent' = [agent EXCEPT !.exec[c.id] = "STOPPED"]
          /\ Reply(e, c, IF agent.exec[c.id] = "NONE" THEN "unowned" ELSE "STOPPED",
                   agent.exec, {})
      BY <1>2, <2>2 DEF AgentStop
    <2>4. agent' \in AgentRow
      <3>1. "STOPPED" \in Statuses
        BY DEF Statuses
      <3>. QED
        BY <2>3, <3>1, AgentStepTypes
    <2>5. replies' \in Seq(Replies)
      <3>1. Reply(e, c, "unowned", agent.exec, {}) \/ Reply(e, c, "STOPPED", agent.exec, {})
        BY <2>3
      <3>2. CASE Reply(e, c, "unowned", agent.exec, {})
        BY <3>2, BareReplyTypes
      <3>3. CASE Reply(e, c, "STOPPED", agent.exec, {})
        BY <3>3, BareReplyTypes
      <3>. QED
        BY <3>1, <3>2, <3>3
    <2>6. inbox' \in [1..MaxEpoch -> Seq(Commands)]
      BY <1>2, <2>1, HeadTypes DEF AgentStop
    <2>7. UNCHANGED <<configVars, coordVars, session, link, epoch, pending, busyCmd, holdInbox,
                      envVars>>
      BY <1>2 DEF AgentStop
    <2>. QED
      BY <2>4, <2>5, <2>6, <2>7 DEF TypeOK, AgentRow, configVars, coordVars, envVars
  <1>3. CASE AgentPrepare(e)
    <2>1. inbox[e] # <<>>
      BY <1>3 DEF AgentPrepare, Ready
    <2>2. /\ inbox' \in [1..MaxEpoch -> Seq(Commands)]
          /\ busyCmd' \in [1..MaxEpoch -> Commands]
      BY <1>3, <2>1, HeadTypes DEF AgentPrepare, TypeOK
    <2>3. UNCHANGED <<configVars, coordVars, sessionVars, holdInbox, agent, envVars>>
      BY <1>3 DEF AgentPrepare
    <2>. QED
      BY <2>2, <2>3 DEF TypeOK, configVars, coordVars, sessionVars, envVars
  <1>4. NoCommand \in Commands
    BY DEF NoCommand, Command, Commands
  <1>5. PICK c \in Commands : c = busyCmd[e]
    BY DEF TypeOK
  <1>6. CASE AgentStart(e)
    <2>1. \/ agent' = agent /\ Reply(e, c, "uncertain", agent.exec, {})
          \/ /\ agent' = [agent EXCEPT !.exec[c.id] = "RUNNING"]
             /\ Reply(e, c, "RUNNING", agent.exec, {})
      BY <1>5, <1>6 DEF AgentStart
    <2>2. agent' \in AgentRow
      <3>1. "RUNNING" \in Statuses
        BY DEF Statuses
      <3>. QED
        BY <2>1, <3>1, AgentStepTypes
    <2>3. replies' \in Seq(Replies)
      <3>1. CASE Reply(e, c, "uncertain", agent.exec, {})
        BY <3>1, BareReplyTypes
      <3>2. CASE Reply(e, c, "RUNNING", agent.exec, {})
        BY <3>2, BareReplyTypes
      <3>. QED
        BY <2>1, <3>1, <3>2
    <2>4. busyCmd' \in [1..MaxEpoch -> Commands]
      BY <1>4, <1>6 DEF AgentStart, TypeOK
    <2>5. UNCHANGED <<configVars, coordVars, session, link, epoch, pending, inbox, holdInbox,
                      envVars>>
      BY <1>6 DEF AgentStart
    <2>. QED
      BY <2>2, <2>3, <2>4, <2>5 DEF TypeOK, AgentRow, configVars, coordVars, envVars
  <1>7. CASE AgentQuit(e)
    <2>1. inbox' \in [1..MaxEpoch -> Seq(Commands)]
      BY <1>7 DEF AgentQuit, TypeOK
    <2>. QED
      BY <1>7, <2>1 DEF AgentQuit, TypeOK, configVars, coordVars, sessionVars, envVars
  <1>8. ASSUME NEW outcome \in {"rejected", "uncertain", "spawn"}, AgentStartFails(e, outcome)
        PROVE  TypeOK'
    <2>1. /\ agent' = agent \/ agent' = [agent EXCEPT !.exec[c.id] = "FAILED"]
          /\ \/ Reply(e, c, "uncertain", agent.exec, {})
             \/ Reply(e, c, "rejected", agent.exec, {})
      BY <1>5, <1>8 DEF AgentStartFails
    <2>2. agent' \in AgentRow
      <3>1. "FAILED" \in Statuses
        BY DEF Statuses
      <3>. QED
        BY <2>1, <3>1, AgentStepTypes
    <2>3. replies' \in Seq(Replies)
      <3>1. CASE Reply(e, c, "uncertain", agent.exec, {})
        BY <3>1, BareReplyTypes
      <3>2. CASE Reply(e, c, "rejected", agent.exec, {})
        BY <3>2, BareReplyTypes
      <3>. QED
        BY <2>1, <3>1, <3>2
    <2>4. busyCmd' \in [1..MaxEpoch -> Commands] /\ faults' \in 0..Faults
      BY <1>4, <1>8, FaultsTypes DEF AgentStartFails, TypeOK
    <2>5. UNCHANGED <<configVars, coordVars, session, link, epoch, pending, inbox, holdInbox,
                      unmanaged>>
      BY <1>8 DEF AgentStartFails
    <2>6. UNCHANGED <<desired, snaps, hold, barrier, obs, inFlight, worker, holdCall, session,
                      link, epoch, pending, inbox, holdInbox, unmanaged>>
      BY <2>5 DEF configVars, coordVars
    <2>. QED
      BY <2>2, <2>3, <2>4, <2>6 DEF TypeOK, AgentRow
  <1>. QED
    BY <1>1, <1>2, <1>3, <1>6, <1>7, <1>8

\* What the environment leaves typed.
LEMMA EnvironmentTypes ==
  ASSUME TypeOK, Environment
  PROVE  TypeOK'
  <1>1. CASE LinkBreaks
    <2>1. link' \in BOOLEAN
      BY <1>1 DEF LinkBreaks
    <2>2. UNCHANGED <<configVars, coordVars, session, epoch, pending, replies, agentVars, envVars>>
      BY <1>1 DEF LinkBreaks
    <2>. QED
      BY <2>1, <2>2 DEF TypeOK, configVars, coordVars, agentVars, envVars
  <1>2. CASE AgentRestarts
    <2>1. NoCommand \in Commands
      BY DEF NoCommand, Command, Commands
    <2>2. /\ inbox' \in [1..MaxEpoch -> Seq(Commands)]
          /\ busyCmd' \in [1..MaxEpoch -> Commands] /\ holdInbox' \in Commands
      BY <1>2, <2>1 DEF AgentRestarts, TypeOK
    <2>3. agent' \in AgentRow
      BY <1>2, <2>1, AgentStepTypes DEF AgentRestarts
    <2>. QED
      BY <1>2, <2>2, <2>3 DEF AgentRestarts, TypeOK, AgentRow, configVars, coordVars, envVars
  <1>3. ASSUME NEW i \in Id, ExecutionFails(i) PROVE TypeOK'
    <2>1. agent' \in AgentRow
      BY <1>3 DEF ExecutionFails, TypeOK, AgentRow, Statuses
    <2>2. faults' \in 0..Faults
      BY <1>3, FaultsTypes DEF ExecutionFails
    <2>3. UNCHANGED <<configVars, coordVars, sessionVars, inbox, busyCmd, holdInbox, unmanaged>>
      BY <1>3 DEF ExecutionFails
    <2>. QED
      BY <2>1, <2>2, <2>3 DEF TypeOK, AgentRow, configVars, coordVars, sessionVars
  <1>4. ASSUME NEW kind \in Expiring, ObservationExpires(kind) PROVE TypeOK'
    <2>1. obs' \in Entry
      BY <1>4, ExpireType DEF ObservationExpires, TypeOK
    <2>2. faults' \in 0..Faults
      BY <1>4, FaultsTypes DEF ObservationExpires
    <2>3. UNCHANGED <<configVars, inFlight, worker, holdCall, sessionVars, agentVars, unmanaged>>
      BY <1>4 DEF ObservationExpires
    <2>. QED
      BY <2>1, <2>2, <2>3 DEF TypeOK, configVars, sessionVars, agentVars
  <1>5. ASSUME NEW b \in SUBSET Resource, UnmanagedProcess(b) PROVE TypeOK'
    <2>1. faults' \in 0..Faults /\ unmanaged' \subseteq Resource
      BY <1>5, FaultsTypes DEF UnmanagedProcess
    <2>2. UNCHANGED <<configVars, coordVars, sessionVars, agentVars>>
      BY <1>5 DEF UnmanagedProcess
    <2>. QED
      BY <2>1, <2>2 DEF TypeOK, configVars, coordVars, sessionVars, agentVars
  <1>. QED
    BY <1>1, <1>2, <1>3, <1>4, <1>5 DEF Environment

\* Only reconcile workers change what a worker is doing.
LEMMA OthersLeaveWorkers ==
  ASSUME Operator \/ Server \/ Agent \/ Environment
  PROVE  worker' = worker
  <1>1. CASE Operator
    BY <1>1 DEF Operator, UpdateDesiredWorkload, RetryWorkload, DeleteDesiredWorkload,
       SetMaintenanceHold, coordVars
  <1>2. CASE Server
    BY <1>2 DEF Server, ServerConnect, SessionConnected, Heartbeat, ServerEnds,
       SessionDisconnected, ExecutionsReply, FactsReply, RuntimeReply, ExpireRuntimeResult,
       LateReply, HoldReply, HoldFails, HoldReturns, coordVars
  <1>3. CASE Agent
    BY <1>3 DEF Agent, AgentHello, AgentHold, AgentQuery, AgentStop, AgentPrepare, AgentStart,
       AgentQuit, AgentStartFails, coordVars
  <1>4. CASE Environment
    BY <1>4 DEF Environment, LinkBreaks, AgentRestarts, ExecutionFails, ObservationExpires,
       UnmanagedProcess, coordVars
  <1>. QED
    BY <1>1, <1>2, <1>3, <1>4

\* What is inductive of the types.
CoordTypes == TypeOK /\ WorkersAct

\* It is.
LEMMA TypesStep ==
  ASSUME CoordTypes, [Next]_vars
  PROVE  CoordTypes'
  <1>. TypeOK /\ WorkersAct
    BY DEF CoordTypes
  <1>1. CASE Operator \/ Server \/ Agent \/ Environment
    <2>1. WorkersAct'
      BY <1>1, OthersLeaveWorkers DEF WorkersAct
    <2>2. TypeOK'
      BY <1>1, OperatorTypes, ServerTypes, AgentHoldTypes, CommandGoroutineTypes,
         EnvironmentTypes DEF Agent
    <2>. QED
      BY <2>1, <2>2 DEF CoordTypes
  <1>2. ASSUME NEW r \in Worker, Reconcile(r) PROVE CoordTypes'
    BY <1>2, ReconcileTypes DEF CoordTypes
  <1>3. CASE UNCHANGED vars
    BY <1>3 DEF CoordTypes, TypeOK, WorkersAct, vars, configVars, coordVars, sessionVars,
       agentVars, envVars
  <1>. QED
    BY <1>1, <1>2, <1>3 DEF Next

\* The first state.
LEMMA TypesInit == Init => CoordTypes
  <1>. SUFFICES ASSUME Init PROVE CoordTypes
    OBVIOUS
  <1>1. WorkersAct
    BY DEF Init, WorkersAct, IdleWorker
  <1>. QED
    BY <1>1, InitType DEF CoordTypes

\* Every variable has its type in every state.
THEOREM CoordinatorTypesAlways == Spec => []TypeOK
  <1>1. CoordTypes => TypeOK
    BY DEF CoordTypes
  <1>. QED
    BY <1>1, TypesInit, TypesStep, PTL DEF Spec

(***************************************************************************)
(* In-flight keys.                                                         *)
(***************************************************************************)

\* Every key belongs to the newest session, which the Controller still has; one
\* without a dispatch sequence has its worker; a worker that sent has a sequence.
GuardInv ==
    /\ \A f \in inFlight :
          /\ f.key.epoch = epoch /\ session.state # "none"
          /\ f.seq > 0 \/ \E r \in Worker : worker[r].pc # "idle" /\ worker[r].key = f.key
    /\ \A r \in Worker : worker[r].pc = "sent" => worker[r].seq > 0

\* The first state.
LEMMA GuardInit == Init => GuardInv
  BY DEF Init, GuardInv, IdleWorker

\* A step that adds no key, and leaves the workers and the session, keeps it.
LEMMA GuardKept ==
  ASSUME GuardInv, inFlight' \subseteq inFlight, worker' = worker, epoch' = epoch,
         session.state # "none" => session'.state # "none"
  PROVE  GuardInv'
  BY DEF GuardInv

\* So does a step of something else.
LEMMA GuardStutter ==
  ASSUME GuardInv, UNCHANGED vars
  PROVE  GuardInv'
  <1>1. inFlight' = inFlight /\ worker' = worker /\ epoch' = epoch /\ session' = session
    BY DEF vars, coordVars, sessionVars
  <1>. QED
    BY <1>1, GuardKept

\* Most of the Controller's steps outside the workers are such steps.
LEMMA OthersKeepGuard ==
  ASSUME CoordTypes, GuardInv, Operator \/ Server \/ Agent \/ Environment
  PROVE  GuardInv'
  <1>. TypeOK /\ session \in SessionRow
    BY DEF CoordTypes, TypeOK, SessionRow
  <1>1. worker' = worker
    BY OthersLeaveWorkers
  <1>2. CASE Operator
    <2>1. inFlight' = inFlight /\ epoch' = epoch /\ session' = session
      BY <1>2 DEF Operator, UpdateDesiredWorkload, RetryWorkload, DeleteDesiredWorkload,
         SetMaintenanceHold, coordVars, sessionVars
    <2>. QED
      BY <1>1, <2>1, GuardKept
  <1>3. CASE Agent
    <2>1. inFlight' = inFlight /\ epoch' = epoch /\ session' = session
      BY <1>3 DEF Agent, AgentHello, AgentHold, AgentQuery, AgentStop, AgentPrepare, AgentStart,
         AgentQuit, AgentStartFails, coordVars, sessionVars
    <2>. QED
      BY <1>1, <2>1, GuardKept
  <1>4. CASE Environment
    <2>1. inFlight' = inFlight /\ epoch' = epoch /\ session' = session
      BY <1>4 DEF Environment, LinkBreaks, AgentRestarts, ExecutionFails, ObservationExpires,
         UnmanagedProcess, coordVars, sessionVars
    <2>. QED
      BY <1>1, <2>1, GuardKept
  <1>5. CASE ServerConnect
    <2>1. session.state = "none" /\ inFlight' = inFlight
      BY <1>5 DEF ServerConnect, coordVars
    <2>2. inFlight' = {}
      BY <2>1 DEF GuardInv
    <2>. QED
      BY <1>1, <2>2 DEF GuardInv
  <1>6. CASE SessionDisconnected
    <2>1. inFlight' = {f \in inFlight : f.key.epoch # epoch}
      BY <1>6 DEF SessionDisconnected, Disconnected
    <2>2. inFlight' = {}
      BY <2>1 DEF GuardInv
    <2>. QED
      BY <1>1, <2>2 DEF GuardInv
  <1>7. CASE SessionConnected \/ Heartbeat \/ ServerEnds
    <2>1. inFlight' = inFlight /\ epoch' = epoch
      BY <1>7 DEF SessionConnected, Heartbeat, ServerEnds, coordVars
    <2>2. session.state # "none" => session'.state # "none"
      BY <1>7 DEF SessionConnected, Heartbeat, ServerEnds, SessionRow
    <2>. QED
      BY <1>1, <2>1, <2>2, GuardKept
  <1>8. CASE ExecutionsReply \/ FactsReply
    <2>1. inFlight' \subseteq inFlight /\ epoch' = epoch
      BY <1>8 DEF ExecutionsReply, FactsReply
    <2>2. \E kinds : session' = Got(kinds)
      BY <1>8 DEF ExecutionsReply, FactsReply
    <2>3. session'.state = session.state
      BY <2>2 DEF Got, SessionRow
    <2>. QED
      BY <1>1, <2>1, <2>3, GuardKept
  <1>9. CASE RuntimeReply \/ ExpireRuntimeResult \/ LateReply
    <2>1. inFlight' \subseteq inFlight /\ epoch' = epoch /\ session' = session
      BY <1>9 DEF RuntimeReply, ExpireRuntimeResult, LateReply, RuntimeResult, Without, coordVars
    <2>. QED
      BY <1>1, <2>1, GuardKept
  <1>10. CASE HoldReply \/ HoldFails \/ HoldReturns
    <2>1. inFlight' = inFlight /\ epoch' = epoch
      BY <1>10 DEF HoldReply, HoldFails, HoldReturns, sessionVars
    <2>2. session'.state = session.state
      BY <1>10 DEF HoldReply, HoldFails, HoldReturns, sessionVars, SessionRow
    <2>. QED
      BY <1>1, <2>1, <2>2, GuardKept
  <1>. QED
    BY <1>2, <1>3, <1>4, <1>5, <1>6, <1>7, <1>8, <1>9, <1>10 DEF Server

\* A worker that reserves, gives up or settles its key keeps it.
LEMMA WorkersKeepGuard ==
  ASSUME CoordTypes, GuardInv, NEW r \in Worker, Reconcile(r)
  PROVE  GuardInv'
  <1>. TypeOK /\ worker \in [Worker -> WorkerRow] /\ session \in SessionRow
    BY DEF CoordTypes, TypeOK, WorkerRow, SessionRow
  <1>1. CASE ApplyRestoreBarrier(r)
    BY <1>1, GuardKept DEF ApplyRestoreBarrier, coordVars, sessionVars
  <1>2. ASSUME NEW invalid \in SUBSET Workload, PrepareDispatch(r, invalid)
        PROVE  GuardInv'
    <2>1. PICK act, i :
             /\ inFlight' = inFlight \cup {[key |-> Key(act, i, obs.epoch), seq |-> 0]}
             /\ worker' = [worker EXCEPT ![r] =
                   [pc |-> "reserved", key |-> Key(act, i, obs.epoch), seq |-> 0, seen |-> obs]]
      BY <1>2 DEF PrepareDispatch, MarkInFlight
    <2>2. /\ epoch = obs.epoch /\ session.state # "none" /\ worker[r].pc = "idle"
          /\ epoch' = epoch /\ session' = session
      BY <1>2 DEF PrepareDispatch, SessionMatches, SessionLive, MayPrepare, sessionVars
    <2>3. PICK k : k = Key(act, i, obs.epoch) /\ k.epoch = epoch
      <3>1. Key(act, i, obs.epoch).epoch = epoch
        BY <2>2 DEF Key
      <3>. QED
        BY <3>1
    <2>4. /\ worker'[r].key = k /\ worker'[r].pc = "reserved"
          /\ \A q \in Worker : q # r => worker'[q] = worker[q]
      BY <2>1, <2>3
    <2>5. ASSUME NEW f \in inFlight'
          PROVE  /\ f.key.epoch = epoch /\ session.state # "none"
                 /\ f.seq > 0 \/ \E q \in Worker : worker'[q].pc # "idle" /\ worker'[q].key = f.key
      <3>1. CASE f \in inFlight
        <4>1. /\ f.key.epoch = epoch
              /\ f.seq > 0 \/ \E q \in Worker : worker[q].pc # "idle" /\ worker[q].key = f.key
          BY <3>1 DEF GuardInv
        <4>. QED
          BY <2>2, <2>4, <4>1
      <3>2. CASE f = [key |-> k, seq |-> 0]
        BY <2>2, <2>3, <2>4, <3>2
      <3>. QED
        BY <2>1, <2>3, <3>1, <3>2
    <2>6. \A q \in Worker : worker'[q].pc = "sent" => worker'[q].seq > 0
      BY <2>4 DEF GuardInv
    <2>. QED
      BY <2>2, <2>5, <2>6 DEF GuardInv
  <1>3. ASSUME NEW invalid \in SUBSET Workload, PrepareBlocks(r, invalid)
        PROVE  GuardInv'
    BY <1>3, GuardKept DEF PrepareBlocks, coordVars, sessionVars
  <1>4. CASE Recheck(r)
    <2>1. epoch' = epoch /\ session' = session /\ worker[r].pc = "reserved"
      BY <1>4 DEF Recheck, sessionVars
    <2>2. CASE worker' = [worker EXCEPT ![r].pc = "send"] /\ inFlight' = inFlight
      <3>1. \A q \in Worker : worker'[q].key = worker[q].key /\ (q # r => worker'[q] = worker[q])
        BY <2>2, WorkerTypes
      <3>2. worker'[r].pc = "send"
        BY <2>2 DEF WorkerRow
      <3>. QED
        BY <2>1, <2>2, <3>1, <3>2 DEF GuardInv
    <2>3. CASE worker' = [worker EXCEPT ![r] = IdleWorker] /\ inFlight' = Without(worker[r].key)
      <3>1. /\ worker'[r].pc = "idle"
            /\ \A q \in Worker : q # r => worker'[q] = worker[q]
        BY <2>3 DEF IdleWorker
      <3>. QED
        BY <2>1, <2>3, <3>1 DEF GuardInv, Without
    <2>. QED
      BY <1>4, <2>2, <2>3 DEF Recheck
  <1>5. CASE SendRuntime(r)
    <2>1. /\ epoch' = epoch /\ session'.state = session.state /\ inFlight' = inFlight
          /\ session.seq + 1 \in Nat /\ session.seq + 1 > 0
      BY <1>5 DEF SendRuntime, Send, SessionRow
    <2>2. worker' = [worker EXCEPT ![r].pc = "sent", ![r].seq = session.seq + 1]
      BY <1>5 DEF SendRuntime
    <2>3. /\ \A q \in Worker : worker'[q].key = worker[q].key /\ (q # r => worker'[q] = worker[q])
          /\ worker'[r].pc = "sent" /\ worker'[r].seq = session.seq + 1
      BY <2>1, <2>2, SentWorker
    <2>. QED
      BY <2>1, <2>3 DEF GuardInv
  <1>6. CASE SendFails(r)
    <2>1. /\ epoch' = epoch /\ session'.state = session.state
          /\ inFlight' = {f \in inFlight : f.key.epoch # worker[r].key.epoch}
          /\ worker' = [worker EXCEPT ![r] = IdleWorker]
      BY <1>6 DEF SendFails, Disconnected, SessionRow
    <2>2. /\ worker'[r].pc = "idle"
          /\ \A q \in Worker : q # r => worker'[q] = worker[q]
      BY <2>1 DEF IdleWorker
    <2>. QED
      BY <2>1, <2>2 DEF GuardInv
  <1>7. CASE SetDispatchSequence(r)
    <2>1. PICK k, seq : k = worker[r].key /\ seq = worker[r].seq
      OBVIOUS
    <2>2. /\ epoch' = epoch /\ session' = session
          /\ \/ inFlight' = Without(k)
             \/ k \in Keys /\ inFlight' = Without(k) \cup {[key |-> k, seq |-> seq]}
          /\ worker' = [worker EXCEPT ![r] = IdleWorker]
          /\ seq > 0
      BY <1>7, <2>1 DEF SetDispatchSequence, sessionVars, GuardInv
    <2>3. /\ worker'[r].pc = "idle"
          /\ \A q \in Worker : q # r => worker'[q] = worker[q]
      BY <2>2 DEF IdleWorker
    <2>4. ASSUME NEW f \in inFlight'
          PROVE  /\ f.key.epoch = epoch /\ session.state # "none"
                 /\ f.seq > 0 \/ \E q \in Worker : worker'[q].pc # "idle" /\ worker'[q].key = f.key
      <3>1. CASE f \in Without(k)
        <4>1. f \in inFlight /\ f.key # k
          BY <3>1 DEF Without
        <4>2. /\ f.key.epoch = epoch /\ session.state # "none"
              /\ f.seq > 0 \/ \E q \in Worker : worker[q].pc # "idle" /\ worker[q].key = f.key
          BY <4>1 DEF GuardInv
        <4>. QED
          BY <2>1, <2>3, <4>1, <4>2
      <3>2. CASE k \in Keys /\ f = [key |-> k, seq |-> seq]
        <4>1. PICK g \in inFlight : g.key = k
          BY <3>2 DEF Keys
        <4>2. k.epoch = epoch /\ session.state # "none"
          BY <4>1 DEF GuardInv
        <4>. QED
          BY <2>2, <3>2, <4>2
      <3>. QED
        BY <2>2, <3>1, <3>2
    <2>5. \A q \in Worker : worker'[q].pc = "sent" => worker'[q].seq > 0
      BY <2>3 DEF GuardInv
    <2>. QED
      BY <2>2, <2>4, <2>5 DEF GuardInv
  <1>. QED
    BY <1>1, <1>2, <1>3, <1>4, <1>5, <1>6, <1>7 DEF Reconcile

\* No in-flight key is leaked, for any number of workers, sessions and faults: the
\* pruning when a session ends, and the worker's own bookkeeping, clear them all.
THEOREM NoGuardIsLeaked == Spec => []NoLeakedGuard
  <1>. DEFINE IInv == CoordTypes /\ GuardInv
  <1>1. Init => IInv
    BY TypesInit, GuardInit
  <1>2. IInv /\ [Next]_vars => IInv'
    <2>. SUFFICES ASSUME IInv, [Next]_vars PROVE IInv'
      OBVIOUS
    <2>1. CoordTypes'
      BY TypesStep
    <2>2. ASSUME UNCHANGED vars PROVE GuardInv'
      BY <2>2, GuardStutter
    <2>3. ASSUME Operator \/ Server \/ Agent \/ Environment PROVE GuardInv'
      BY <2>3, OthersKeepGuard
    <2>4. ASSUME NEW r \in Worker, Reconcile(r) PROVE GuardInv'
      BY <2>4, WorkersKeepGuard
    <2>5. GuardInv'
      BY <2>2, <2>3, <2>4 DEF Next
    <2>. QED
      BY <2>1, <2>5
  <1>3. IInv => NoLeakedGuard
    BY DEF GuardInv, NoLeakedGuard
  <1>. QED
    BY <1>1, <1>2, <1>3, PTL DEF Spec

(***************************************************************************)
(* The Maintenance Hold on its way to the Agent.                           *)
(***************************************************************************)

\* What is known of the hold, its revision and the commands that carry it.
CarriesHold(c) == c.seq <= hold.rev /\ (c.seq = hold.rev => c.active = hold.active)

HoldKnown ==
    /\ hold.rev = 0 => ~hold.active
    /\ agent.rev <= hold.rev /\ (agent.rev = hold.rev => agent.hold = hold.active)
    /\ CarriesHold(holdInbox)
    /\ \A e \in 1..MaxEpoch : \A n \in 1..Len(inbox[e]) :
          inbox[e][n].kind = "hello" => CarriesHold(inbox[e][n])
    /\ \A n \in 1..Len(replies) : replies[n].cmd.kind = "hold" =>
          /\ replies[n].cmd.seq <= hold.rev
          /\ link /\ replies[n].cmd.seq = hold.rev => agent.rev = hold.rev
    /\ holdCall.pc # "idle" => holdCall.rev = hold.rev

\* The first command of the newest session is its hello.
HelloAhead == epoch > 0 /\ inbox[epoch] # <<>> /\ Head(inbox[epoch]).kind = "hello"

\* A hello comes first, and before anything of its session is answered.
HelloFirst ==
    /\ \A e \in 1..MaxEpoch : \A n \in 2..Len(inbox[e]) : inbox[e][n].kind # "hello"
    /\ \A e \in 1..MaxEpoch : e > epoch => inbox[e] = <<>> /\ busyCmd[e] = NoCommand
    /\ HelloAhead => /\ session.got = {} /\ ~session.ready /\ replies = <<>>
                     /\ busyCmd[epoch] = NoCommand
    /\ \A e \in 1..MaxEpoch : busyCmd[e].kind \in {"none", "START"}
    /\ session.state # "none" => epoch > 0

\* While the stream of a live session is up, its Agent has the newest revision,
\* or it is still in the hello, or in the command the operator's call waits for.
HoldReaches ==
    link /\ SessionLive =>
       \/ agent.rev = hold.rev
       \/ HelloAhead /\ Head(inbox[epoch]).seq = hold.rev
       \/ holdCall.pc = "waiting" /\ holdInbox # NoCommand /\ holdInbox.seq = hold.rev

\* A worker has the read lock, and looked at the hold under it.
WorkersHold ==
    \A r \in Worker :
       /\ worker[r].pc # "idle" => holdCall.pc = "idle"
       /\ worker[r].pc = "send" /\ worker[r].key.act = "START" => ~hold.active

HoldInv == HoldKnown /\ HelloFirst /\ HoldReaches /\ WorkersHold

\* A step that leaves the hellos where they are.
HellosKept ==
    /\ \A e \in 1..MaxEpoch : \A n \in 1..Len(inbox'[e]) :
          inbox'[e][n].kind = "hello" => n \in 1..Len(inbox[e]) /\ inbox'[e][n] = inbox[e][n]
    /\ HelloAhead' => HelloAhead
    /\ link' /\ HelloAhead => HelloAhead' /\ Head(inbox'[epoch]) = Head(inbox[epoch])
    /\ \A e \in 1..MaxEpoch : e > epoch => inbox'[e] = inbox[e]

\* A step after which no reply carries a hold that did not before.
NoNewHoldReply ==
    \A n \in 1..Len(replies') : replies'[n].cmd.kind = "hold" =>
        \E m \in 1..Len(replies) : replies[m].cmd = replies'[n].cmd

\* The first state.
LEMMA HoldInit == Init => HoldInv
  <1>. SUFFICES ASSUME Init PROVE HoldInv
    OBVIOUS
  <1>1. /\ hold = [active |-> FALSE, rev |-> 0] /\ holdCall = NoHoldCall /\ holdInbox = NoCommand
        /\ replies = <<>> /\ epoch = 0 /\ session = NoSession /\ link = FALSE
        /\ inbox = [e \in 1..MaxEpoch |-> <<>>] /\ busyCmd = [e \in 1..MaxEpoch |-> NoCommand]
        /\ agent.rev = 0 /\ agent.hold = FALSE /\ worker = [r \in Worker |-> IdleWorker]
    BY DEF Init
  <1>2. HoldKnown
    <2>1. \A e \in 1..MaxEpoch : Len(inbox[e]) = 0
      BY <1>1
    <2>2. Len(replies) = 0 /\ holdCall.pc = "idle" /\ hold.rev = 0 /\ ~hold.active
      BY <1>1 DEF NoHoldCall
    <2>3. CarriesHold(holdInbox)
      BY <1>1, <2>2 DEF CarriesHold, NoCommand, Command
    <2>4. \A e \in 1..MaxEpoch : \A n \in 1..Len(inbox[e]) :
             inbox[e][n].kind = "hello" => CarriesHold(inbox[e][n])
      BY <2>1
    <2>5. agent.rev <= hold.rev /\ (agent.rev = hold.rev => agent.hold = hold.active)
      <3>1. hold.rev = 0 /\ hold.active = FALSE
        BY <1>1
      <3>2. agent.hold = hold.active
        BY <1>1, <3>1, Zenon
      <3>. QED
        BY <1>1, <3>1, <3>2
    <2>. QED
      BY <2>2, <2>3, <2>4, <2>5 DEF HoldKnown
  <1>3. HelloFirst
    BY <1>1 DEF HelloFirst, HelloAhead, NoSession, NoCommand, Command
  <1>4. HoldReaches /\ WorkersHold
    BY <1>1 DEF HoldReaches, WorkersHold, IdleWorker
  <1>. QED
    BY <1>2, <1>3, <1>4 DEF HoldInv

\* Commands that are added to the buffer of the newest session are behind its hello.
LEMMA PushKeepsHellos ==
  ASSUME TypeOK, HelloFirst, NEW s \in Seq(Commands), epoch' = epoch,
         \A n \in 1..Len(s) : s[n].kind # "hello",
         inbox' = [inbox EXCEPT ![epoch] = @ \o s]
  PROVE  HellosKept
  <1>1. CASE epoch \notin 1..MaxEpoch
    <2>1. inbox' = inbox
      BY <1>1 DEF TypeOK
    <2>. QED
      BY <2>1 DEF HellosKept, HelloAhead
  <1>2. CASE epoch \in 1..MaxEpoch
    <2>1. PICK b \in Seq(Commands) : b = inbox[epoch]
      BY <1>2 DEF TypeOK
    <2>2. inbox'[epoch] = b \o s /\ \A e \in 1..MaxEpoch : e # epoch => inbox'[e] = inbox[e]
      BY <1>2, <2>1 DEF TypeOK
    <2>3. /\ Len(b) \in Nat /\ Len(s) \in Nat /\ b \o s \in Seq(Commands)
          /\ Len(b \o s) = Len(b) + Len(s)
      BY JoinOf
    <2>4. ASSUME NEW n \in 1..Len(b \o s), (b \o s)[n].kind = "hello"
          PROVE  n \in 1..Len(b) /\ (b \o s)[n] = b[n]
      <3>1. CASE n <= Len(b)
        BY <2>3, <3>1, JoinOf
      <3>2. CASE n > Len(b)
        <4>1. n - Len(b) \in 1..Len(s) /\ n = Len(b) + (n - Len(b))
          BY <2>3, <3>2
        <4>2. (b \o s)[n] = s[n - Len(b)]
          BY <4>1, JoinOf
        <4>. QED
          BY <2>4, <4>1, <4>2
      <3>. QED
        BY <2>3, <3>1, <3>2
    <2>5. /\ b # <<>> => b \o s # <<>> /\ Head(b \o s) = Head(b)
          /\ b \o s # <<>> /\ Head(b \o s).kind = "hello" => b # <<>> /\ Head(b).kind = "hello"
      <3>1. b # <<>> => Len(b) > 0 /\ Head(b) = b[1]
        BY SequenceOf
      <3>2. b \o s # <<>> => Len(b \o s) > 0 /\ Head(b \o s) = (b \o s)[1]
        BY <2>3, SequenceOf
      <3>3. b # <<>> => b \o s # <<>>
        BY <2>3, <3>1
      <3>4. b # <<>> => (b \o s)[1] = b[1]
        BY <2>3, <3>1, JoinOf
      <3>5. ASSUME b \o s # <<>>, Head(b \o s).kind = "hello" PROVE b # <<>>
        <4>1. 1 \in 1..Len(b)
          BY <2>3, <2>4, <3>2, <3>5
        <4>. QED
          BY <4>1
      <3>. QED
        BY <3>1, <3>2, <3>3, <3>4, <3>5
    <2>6. \A e \in 1..MaxEpoch : \A n \in 1..Len(inbox'[e]) :
             inbox'[e][n].kind = "hello" => n \in 1..Len(inbox[e]) /\ inbox'[e][n] = inbox[e][n]
      BY <2>1, <2>2, <2>4
    <2>7. /\ HelloAhead' <=> HelloAhead
          /\ HelloAhead => Head(inbox'[epoch]) = Head(inbox[epoch])
      BY <2>1, <2>2, <2>5 DEF HelloAhead
    <2>8. \A e \in 1..MaxEpoch : e > epoch => inbox'[e] = inbox[e]
      BY <1>2, <2>2
    <2>. QED
      BY <2>6, <2>7, <2>8 DEF HellosKept
  <1>. QED
    BY <1>1, <1>2

\* Taking a command that is no hello leaves no hello behind.
LEMMA PopKeepsHellos ==
  ASSUME TypeOK, HelloFirst, NEW e \in 1..MaxEpoch, epoch' = epoch,
         inbox[e] # <<>>, Head(inbox[e]).kind # "hello",
         inbox' = [inbox EXCEPT ![e] = Tail(@)]
  PROVE  HellosKept /\ (e = epoch => ~HelloAhead)
  <1>1. PICK b \in Seq(Commands) : b = inbox[e]
    BY DEF TypeOK
  <1>2. inbox'[e] = Tail(b) /\ \A d \in 1..MaxEpoch : d # e => inbox'[d] = inbox[d]
    BY <1>1 DEF TypeOK
  <1>3. /\ Tail(b) \in Seq(Commands) /\ Len(b) \in Nat /\ Len(b) > 0 /\ Len(Tail(b)) = Len(b) - 1
        /\ \A n \in 1..Len(b) - 1 : Tail(b)[n] = b[n + 1]
    BY <1>1, SequenceOf
  <1>4. ASSUME NEW n \in 1..Len(Tail(b)) PROVE Tail(b)[n].kind # "hello"
    <2>1. n + 1 \in 2..Len(b) /\ Tail(b)[n] = b[n + 1]
      BY <1>3
    <2>. QED
      BY <1>1, <2>1 DEF HelloFirst
  <1>5. Tail(b) # <<>> => Head(Tail(b)).kind # "hello"
    <2>1. ASSUME Tail(b) # <<>> PROVE Len(Tail(b)) > 0 /\ Head(Tail(b)) = Tail(b)[1]
      BY <1>3, <2>1, SequenceOf
    <2>2. ASSUME Tail(b) # <<>> PROVE Head(Tail(b)).kind # "hello"
      BY <1>3, <1>4, <2>1, <2>2
    <2>. QED
      BY <2>2
  <1>6. \A d \in 1..MaxEpoch : d > epoch => inbox[d] = <<>>
    BY DEF HelloFirst
  <1>7. ~(e > epoch)
    BY <1>6
  <1>8. \A d \in 1..MaxEpoch : d > epoch => inbox'[d] = inbox[d]
    BY <1>2, <1>7
  <1>9. CASE e = epoch
    <2>1. ~HelloAhead /\ ~HelloAhead'
      BY <1>1, <1>2, <1>5, <1>9 DEF HelloAhead
    <2>2. \A d \in 1..MaxEpoch : \A n \in 1..Len(inbox'[d]) :
             inbox'[d][n].kind = "hello" => n \in 1..Len(inbox[d]) /\ inbox'[d][n] = inbox[d][n]
      BY <1>2, <1>4
    <2>. QED
      BY <1>8, <2>1, <2>2 DEF HellosKept
  <1>10. CASE e # epoch
    <2>1. epoch > 0 => epoch \in 1..MaxEpoch
      BY CoordinatorAssumption DEF TypeOK
    <2>2. epoch > 0 => inbox'[epoch] = inbox[epoch]
      BY <1>2, <1>10, <2>1
    <2>3. (HelloAhead' <=> HelloAhead) /\ (HelloAhead => Head(inbox'[epoch]) = Head(inbox[epoch]))
      BY <2>2 DEF HelloAhead
    <2>4. \A d \in 1..MaxEpoch : \A n \in 1..Len(inbox'[d]) :
             inbox'[d][n].kind = "hello" => n \in 1..Len(inbox[d]) /\ inbox'[d][n] = inbox[d][n]
      BY <1>2, <1>4
    <2>. QED
      BY <1>8, <1>10, <2>3, <2>4 DEF HellosKept
  <1>. QED
    BY <1>9, <1>10

\* A step that leaves the hold, its commands and its replies alone keeps what the
\* property rests on, whatever else of the session it changes.
LEMMA HoldKept ==
  ASSUME TypeOK, TypeOK', HoldInv, HellosKept, NoNewHoldReply, WorkersHold',
         hold' = hold, holdInbox' = holdInbox, holdCall' = holdCall, epoch' = epoch,
         link' => link, agent'.rev = agent.rev, agent'.hold = agent.hold,
         HelloAhead => /\ session'.got = {} /\ ~session'.ready /\ replies' = <<>>
                       /\ busyCmd'[epoch] = NoCommand,
         \A e \in 1..MaxEpoch : /\ e > epoch => busyCmd'[e] = busyCmd[e]
                                /\ busyCmd'[e].kind \in {"none", "START"},
         session'.state # "none" => session.state # "none",
         SessionLive' => SessionLive
  PROVE  HoldInv'
  <1>1. HoldKnown'
    <2>1. /\ hold'.rev = 0 => ~hold'.active
          /\ agent'.rev <= hold'.rev /\ (agent'.rev = hold'.rev => agent'.hold = hold'.active)
          /\ CarriesHold(holdInbox)'
          /\ holdCall'.pc # "idle" => holdCall'.rev = hold'.rev
      BY DEF HoldInv, HoldKnown, CarriesHold
    <2>2. \A e \in 1..MaxEpoch : \A n \in 1..Len(inbox'[e]) :
             inbox'[e][n].kind = "hello" =>
                inbox'[e][n].seq <= hold.rev
                /\ (inbox'[e][n].seq = hold.rev => inbox'[e][n].active = hold.active)
      BY DEF HoldInv, HoldKnown, HellosKept, CarriesHold
    <2>3. \A n \in 1..Len(replies') : replies'[n].cmd.kind = "hold" =>
             /\ replies'[n].cmd.seq <= hold.rev
             /\ link' /\ replies'[n].cmd.seq = hold.rev => agent'.rev = hold.rev
      BY DEF HoldInv, HoldKnown, NoNewHoldReply
    <2>. QED
      BY <2>1, <2>2, <2>3 DEF HoldKnown, CarriesHold
  <1>2. HelloFirst'
    <2>1. \A e \in 1..MaxEpoch : \A n \in 2..Len(inbox'[e]) : inbox'[e][n].kind # "hello"
      <3>1. ASSUME NEW e \in 1..MaxEpoch, NEW n \in 2..Len(inbox'[e]),
                   inbox'[e][n].kind = "hello"
            PROVE  FALSE
        <4>1. inbox'[e] \in Seq(Commands) /\ inbox[e] \in Seq(Commands)
          BY DEF TypeOK
        <4>2. n \in 1..Len(inbox'[e])
          BY <4>1
        <4>3. n \in 1..Len(inbox[e]) /\ inbox'[e][n] = inbox[e][n]
          BY <3>1, <4>2 DEF HellosKept
        <4>4. n \in 2..Len(inbox[e])
          BY <4>1, <4>3
        <4>. QED
          BY <3>1, <4>3, <4>4 DEF HoldInv, HelloFirst
      <3>. QED
        BY <3>1
    <2>2. \A e \in 1..MaxEpoch : e > epoch => inbox'[e] = <<>> /\ busyCmd'[e] = NoCommand
      BY DEF HoldInv, HelloFirst, HellosKept
    <2>3. HelloAhead' => /\ session'.got = {} /\ ~session'.ready /\ replies' = <<>>
                         /\ busyCmd'[epoch] = NoCommand
      BY DEF HellosKept
    <2>4. session'.state # "none" => epoch > 0
      BY DEF HoldInv, HelloFirst
    <2>. QED
      BY <2>1, <2>2, <2>3, <2>4 DEF HelloFirst
  <1>3. HoldReaches'
    BY DEF HoldInv, HoldReaches, HellosKept
  <1>. QED
    BY <1>1, <1>2, <1>3 DEF HoldInv

\* Workers and the operator's call keep out of each other's way.
LEMMA WorkersHoldStep ==
  ASSUME CoordTypes, WorkersHold, [Next]_vars
  PROVE  WorkersHold'
  <1>. TypeOK /\ worker \in [Worker -> WorkerRow]
    BY DEF CoordTypes, TypeOK, WorkerRow
  <1>1. CASE Operator
    <2>1. ASSUME NEW active \in BOOLEAN, SetMaintenanceHold(active) PROVE WorkersHold'
      BY <2>1 DEF SetMaintenanceHold, WorkersHold
    <2>2. ASSUME worker' = worker, hold' = hold, holdCall' = holdCall PROVE WorkersHold'
      BY <2>2 DEF WorkersHold
    <2>3. \/ \E active \in BOOLEAN : SetMaintenanceHold(active)
          \/ worker' = worker /\ hold' = hold /\ holdCall' = holdCall
      BY <1>1 DEF Operator, UpdateDesiredWorkload, RetryWorkload, DeleteDesiredWorkload, coordVars
    <2>. QED
      BY <2>1, <2>2, <2>3
  <1>2. CASE Server
    <2>1. worker' = worker /\ hold' = hold
      BY <1>2, OthersLeaveWorkers DEF Server, ServerConnect, SessionConnected, Heartbeat,
         ServerEnds, SessionDisconnected, ExecutionsReply, FactsReply, RuntimeReply,
         ExpireRuntimeResult, LateReply, HoldReply, HoldFails, HoldReturns, configVars
    <2>2. holdCall.pc = "idle" => holdCall'.pc = "idle"
      BY <1>2 DEF Server, ServerConnect, SessionConnected, Heartbeat,
         ServerEnds, SessionDisconnected, ExecutionsReply, FactsReply, RuntimeReply,
         ExpireRuntimeResult, LateReply, HoldReply, HoldFails, HoldReturns, coordVars, NoHoldCall
    <2>. QED
      BY <2>1, <2>2 DEF WorkersHold
  <1>3. CASE Agent
    <2>1. worker' = worker /\ hold' = hold /\ holdCall' = holdCall
      BY <1>3 DEF Agent, AgentHello, AgentHold, AgentQuery, AgentStop, AgentPrepare, AgentStart,
         AgentQuit, AgentStartFails, coordVars, configVars
    <2>. QED
      BY <2>1 DEF WorkersHold
  <1>4. CASE Environment
    <2>1. worker' = worker /\ hold' = hold /\ holdCall' = holdCall
      BY <1>4 DEF Environment, LinkBreaks, AgentRestarts, ExecutionFails, ObservationExpires,
         UnmanagedProcess, coordVars, configVars
    <2>. QED
      BY <2>1 DEF WorkersHold
  <1>5. ASSUME NEW r \in Worker, Reconcile(r) PROVE WorkersHold'
    <2>1. hold' = hold /\ holdCall' = holdCall
      BY <1>5 DEF Reconcile, ApplyRestoreBarrier, PrepareDispatch, PrepareBlocks, Recheck,
         SendRuntime, SendFails, SetDispatchSequence, configVars, coordVars
    <2>2. CASE ApplyRestoreBarrier(r) \/ \E invalid \in SUBSET Workload : PrepareBlocks(r, invalid)
      BY <2>1, <2>2 DEF ApplyRestoreBarrier, PrepareBlocks, coordVars, WorkersHold
    <2>3. ASSUME NEW invalid \in SUBSET Workload, PrepareDispatch(r, invalid)
          PROVE  WorkersHold'
      <3>1. holdCall.pc = "idle"
        BY <2>3 DEF PrepareDispatch, MayPrepare, AuthorityFree
      <3>2. \E row : row.pc = "reserved" /\ worker' = [worker EXCEPT ![r] = row]
        BY <2>3 DEF PrepareDispatch
      <3>3. worker'[r].pc = "reserved" /\ \A q \in Worker : q # r => worker'[q] = worker[q]
        BY <3>2
      <3>. QED
        BY <2>1, <3>1, <3>3 DEF WorkersHold
    <2>4. CASE Recheck(r)
      <3>1. worker[r].pc = "reserved"
        BY <2>4 DEF Recheck
      <3>2. CASE ActionStillCurrent(r) /\ worker' = [worker EXCEPT ![r].pc = "send"]
        <4>1. worker[r].key.act = "START" => ~hold.active
          BY <3>2 DEF ActionStillCurrent
        <4>2. \A q \in Worker : worker'[q].key = worker[q].key /\ (q # r => worker'[q] = worker[q])
          BY <3>2, WorkerTypes
        <4>. QED
          BY <2>1, <3>1, <4>1, <4>2 DEF WorkersHold
      <3>3. CASE worker' = [worker EXCEPT ![r] = IdleWorker]
        BY <2>1, <3>3 DEF WorkersHold, IdleWorker
      <3>. QED
        BY <2>4, <3>2, <3>3 DEF Recheck
    <2>5. CASE SendRuntime(r)
      <3>1. worker[r].pc = "send" /\ session.seq + 1 \in Nat
        BY <2>5 DEF SendRuntime, TypeOK
      <3>2. worker' = [worker EXCEPT ![r].pc = "sent", ![r].seq = session.seq + 1]
        BY <2>5 DEF SendRuntime
      <3>3. /\ \A q \in Worker : q # r => worker'[q] = worker[q]
            /\ worker'[r].pc = "sent"
        BY <3>1, <3>2, SentWorker
      <3>. QED
        BY <2>1, <3>1, <3>3 DEF WorkersHold
    <2>6. CASE SendFails(r) \/ SetDispatchSequence(r)
      <3>1. worker' = [worker EXCEPT ![r] = IdleWorker]
        BY <2>6 DEF SendFails, SetDispatchSequence
      <3>. QED
        BY <2>1, <3>1 DEF WorkersHold, IdleWorker
    <2>. QED
      BY <1>5, <2>2, <2>3, <2>4, <2>5, <2>6 DEF Reconcile
  <1>6. CASE UNCHANGED vars
    BY <1>6 DEF vars, configVars, coordVars, WorkersHold
  <1>. QED
    BY <1>1, <1>2, <1>3, <1>4, <1>5, <1>6 DEF Next

\* What is kept by a step that touches no buffer and no reply.
LEMMA NothingMoved ==
  ASSUME inbox' = inbox, epoch' = epoch, replies' = replies
  PROVE  HellosKept /\ NoNewHoldReply
  BY DEF HellosKept, NoNewHoldReply, HelloAhead

\* A step of which the Agent's gate and the stream know nothing.
LEMMA HoldUntouched ==
  ASSUME TypeOK, TypeOK', HoldInv, WorkersHold', hold' = hold, holdCall' = holdCall,
         inbox' = inbox, busyCmd' = busyCmd, holdInbox' = holdInbox,
         agent'.rev = agent.rev, agent'.hold = agent.hold,
         session' = session, link' = link, epoch' = epoch, replies' = replies
  PROVE  HoldInv'
  <1>1. HoldKnown'
    BY DEF HoldInv, HoldKnown, CarriesHold
  <1>2. HelloFirst' /\ HoldReaches'
    BY DEF HoldInv, HelloFirst, HoldReaches, HelloAhead, SessionLive
  <1>. QED
    BY <1>1, <1>2 DEF HoldInv

\* A worker's send goes to an Agent that has passed its hello.
LEMMA ReadyIsPast ==
  ASSUME HoldInv, session.ready
  PROVE  ~HelloAhead
  BY DEF HoldInv, HelloFirst

\* The command a worker sends is no hello, and stands last.
LEMMA SentKeepsHellos ==
  ASSUME CoordTypes, HoldInv, NEW r \in Worker, worker[r].pc # "idle", epoch' = epoch,
         inbox' = [inbox EXCEPT ![epoch] = Append(@,
                      Command(worker[r].key.act, worker[r].key.id, session.seq + 1))]
  PROVE  HellosKept
  <1>1. TypeOK /\ WorkersAct /\ HelloFirst
    BY DEF CoordTypes, HoldInv
  <1>2. worker[r].key.act \in {"START", "STOP"}
    BY <1>1 DEF WorkersAct
  <1>3. PICK c \in Commands :
           c = Command(worker[r].key.act, worker[r].key.id, session.seq + 1)
    BY <1>1, <1>2, SentTypes
  <1>4. c.kind # "hello"
    BY <1>2, <1>3 DEF Command
  <1>5. inbox' = [inbox EXCEPT ![epoch] = @ \o <<c>>]
    <2>1. inbox' = [inbox EXCEPT ![epoch] = Append(@, c)]
      BY <1>3
    <2>2. CASE epoch \in 1..MaxEpoch
      <3>1. inbox[epoch] \in Seq(Commands)
        BY <1>1, <2>2 DEF TypeOK
      <3>2. Append(inbox[epoch], c) = inbox[epoch] \o <<c>>
        BY <3>1
      <3>. QED
        BY <2>1, <3>2
    <2>3. CASE epoch \notin 1..MaxEpoch
      BY <1>1, <2>1, <2>3 DEF TypeOK
    <2>. QED
      BY <2>2, <2>3
  <1>6. <<c>> \in Seq(Commands) /\ \A n \in 1..Len(<<c>>) : <<c>>[n].kind # "hello"
    BY <1>4
  <1>. QED
    BY <1>1, <1>5, <1>6, PushKeepsHellos

\* What is kept of the Agent's side when only its buffer grows.
LEMMA SendKeepsHold ==
  ASSUME TypeOK, TypeOK', HoldInv, HellosKept, WorkersHold', ~HelloAhead,
         hold' = hold, holdCall' = holdCall, holdInbox' = holdInbox, agent' = agent,
         busyCmd' = busyCmd, link' => link, epoch' = epoch, NoNewHoldReply,
         session'.state # "none" => session.state # "none", SessionLive' => SessionLive
  PROVE  HoldInv'
  <1>1. \A e \in 1..MaxEpoch : busyCmd[e].kind \in {"none", "START"}
    BY DEF HoldInv, HelloFirst
  <1>. QED
    BY <1>1, HoldKept

\* The workers keep it.
LEMMA WorkersKeepHold ==
  ASSUME CoordTypes, CoordTypes', HoldInv, WorkersHold', NEW r \in Worker, Reconcile(r)
  PROVE  HoldInv'
  <1>. TypeOK /\ TypeOK' /\ session \in SessionRow
    BY DEF CoordTypes, TypeOK, SessionRow
  <1>1. CASE \/ ApplyRestoreBarrier(r) \/ Recheck(r) \/ SetDispatchSequence(r)
             \/ \E invalid \in SUBSET Workload : PrepareDispatch(r, invalid) \/ PrepareBlocks(r, invalid)
    <2>1. UNCHANGED <<hold, holdCall, inbox, busyCmd, holdInbox, agent, session, link, epoch, replies>>
      BY <1>1 DEF ApplyRestoreBarrier, Recheck, SetDispatchSequence, PrepareDispatch,
         PrepareBlocks, configVars, coordVars, sessionVars, agentVars
    <2>. QED
      BY <2>1, HoldUntouched
  <1>2. CASE SendRuntime(r)
    <2>1. /\ worker[r].pc # "idle" /\ session.ready /\ epoch' = epoch
          /\ inbox' = [inbox EXCEPT ![epoch] = Append(@,
                Command(worker[r].key.act, worker[r].key.id, session.seq + 1))]
          /\ session' = [session EXCEPT !.seq = session.seq + 1]
          /\ UNCHANGED <<hold, holdCall, link, replies, busyCmd, holdInbox, agent>>
      BY <1>2 DEF SendRuntime, Send, SessionFor, configVars
    <2>2. HellosKept
      BY <2>1, SentKeepsHellos
    <2>3. ~HelloAhead
      BY <2>1, ReadyIsPast
    <2>4. session'.state = session.state /\ session'.revoked = session.revoked
      BY <2>1 DEF SessionRow
    <2>5. NoNewHoldReply /\ (SessionLive' => SessionLive)
      BY <2>1, <2>4 DEF NoNewHoldReply, SessionLive
    <2>. QED
      BY <2>1, <2>2, <2>3, <2>4, <2>5, SendKeepsHold
  <1>3. CASE SendFails(r)
    <2>1. /\ worker[r].pc # "idle" /\ epoch' = epoch
          /\ UNCHANGED <<hold, holdCall, link, replies, busyCmd, holdInbox, agent>>
      BY <1>3 DEF SendFails, configVars
    <2>2. CASE ~SessionFor(r)
      <3>1. session' = session /\ inbox' = inbox
        BY <1>3, <2>2 DEF SendFails
      <3>. QED
        BY <2>1, <3>1, HoldUntouched
    <2>3. CASE SessionFor(r)
      <3>1. /\ session.ready
            /\ session' = [session EXCEPT !.seq = session.seq + 1, !.revoked = TRUE]
            /\ \/ inbox' = inbox
               \/ inbox' = [inbox EXCEPT ![epoch] = Append(@,
                     Command(worker[r].key.act, worker[r].key.id, session.seq + 1))]
        BY <1>3, <2>3 DEF SendFails, SessionFor
      <3>2. HellosKept /\ NoNewHoldReply
        BY <2>1, <3>1, NothingMoved, SentKeepsHellos DEF NoNewHoldReply
      <3>3. ~HelloAhead
        BY <3>1, ReadyIsPast
      <3>4. session'.state = session.state /\ session'.revoked
        BY <3>1 DEF SessionRow
      <3>5. SessionLive' => SessionLive
        BY <3>4 DEF SessionLive
      <3>. QED
        BY <2>1, <3>2, <3>3, <3>4, <3>5, SendKeepsHold
    <2>. QED
      BY <2>2, <2>3
  <1>. QED
    BY <1>1, <1>2, <1>3 DEF Reconcile

\* The call writes the hold under the write lock, and hands it to the session.
LEMMA SetHoldKeeps ==
  ASSUME TypeOK, TypeOK', HoldInv, WorkersHold', NEW active \in BOOLEAN, SetMaintenanceHold(active)
  PROVE  HoldInv'
  <1>1. /\ hold' = [active |-> active, rev |-> hold.rev + 1] /\ hold.rev \in Nat
        /\ agent.rev \in Nat /\ holdCall.pc = "idle"
        /\ UNCHANGED <<inbox, busyCmd, agent, session, link, epoch, replies>>
    BY CoordinatorAssumption DEF SetMaintenanceHold, AuthorityFree, TypeOK, sessionVars
  <1>2. /\ SessionLive => /\ holdCall' = [pc |-> "waiting", active |-> active, rev |-> hold.rev + 1]
                          /\ holdInbox' = HoldCommand("hold", hold')
        /\ ~SessionLive => holdCall' = holdCall /\ holdInbox' = holdInbox
    BY DEF SetMaintenanceHold
  <1>3. /\ hold'.active = active /\ hold'.rev = hold.rev + 1 /\ hold'.rev > hold.rev
        /\ hold'.rev # 0
    BY <1>1
  <1>4. /\ HoldCommand("hold", hold').seq = hold.rev + 1
        /\ HoldCommand("hold", hold').active = active
        /\ HoldCommand("hold", hold').kind = "hold" /\ NoCommand.kind = "none"
    BY <1>3 DEF HoldCommand, Command, NoCommand
  <1>5. HoldKnown'
    <2>1. agent.rev <= hold.rev /\ CarriesHold(holdInbox) /\ holdInbox.seq \in Nat
      BY DEF HoldInv, HoldKnown, TypeOK, Commands
    <2>2. CarriesHold(holdInbox)'
      <3>1. CASE SessionLive
        <4>1. holdInbox' = HoldCommand("hold", hold')
          BY <1>2, <3>1
        <4>2. holdInbox'.seq = hold.rev + 1
          BY <1>4, <4>1
        <4>3. holdInbox'.active = hold'.active
          BY <1>3, <1>4, <4>1, Zenon
        <4>. QED
          BY <1>1, <1>3, <4>2, <4>3 DEF CarriesHold
      <3>2. CASE ~SessionLive
        BY <1>1, <1>2, <1>3, <2>1, <3>2 DEF CarriesHold
      <3>. QED
        BY <3>1, <3>2
    <2>3. ASSUME NEW e \in 1..MaxEpoch, NEW n \in 1..Len(inbox[e]), inbox[e][n].kind = "hello"
          PROVE  inbox[e][n].seq < hold.rev + 1
      <3>1. inbox[e][n] \in Commands
        BY SequenceOf DEF TypeOK
      <3>2. inbox[e][n].seq \in Nat /\ inbox[e][n].seq <= hold.rev
        BY <2>3, <3>1 DEF HoldInv, HoldKnown, CarriesHold, Commands
      <3>. QED
        BY <1>1, <3>2
    <2>4. ASSUME NEW n \in 1..Len(replies), replies[n].cmd.kind = "hold"
          PROVE  replies[n].cmd.seq < hold.rev + 1
      <3>1. replies[n] \in Replies
        BY SequenceOf DEF TypeOK
      <3>2. replies[n].cmd.seq \in Nat /\ replies[n].cmd.seq <= hold.rev
        BY <2>4, <3>1 DEF HoldInv, HoldKnown, Replies, Commands
      <3>. QED
        BY <1>1, <3>2
    <2>5. \A e \in 1..MaxEpoch : \A n \in 1..Len(inbox[e]) :
             inbox[e][n].kind = "hello" => /\ inbox[e][n].seq <= hold'.rev
                                           /\ inbox[e][n].seq # hold'.rev
      <3>1. ASSUME NEW e \in 1..MaxEpoch, NEW n \in 1..Len(inbox[e]), inbox[e][n].kind = "hello"
            PROVE  inbox[e][n].seq <= hold'.rev /\ inbox[e][n].seq # hold'.rev
        <4>1. inbox[e][n] \in Commands
          BY SequenceOf DEF TypeOK
        <4>2. inbox[e][n].seq \in Nat
          BY <4>1 DEF Commands
        <4>. QED
          BY <1>1, <1>3, <2>3, <3>1, <4>2
      <3>. QED
        BY <3>1
    <2>6. \A n \in 1..Len(replies) : replies[n].cmd.kind = "hold" =>
             /\ replies[n].cmd.seq <= hold'.rev
             /\ replies[n].cmd.seq # hold'.rev
      <3>1. ASSUME NEW n \in 1..Len(replies), replies[n].cmd.kind = "hold"
            PROVE  replies[n].cmd.seq <= hold'.rev /\ replies[n].cmd.seq # hold'.rev
        <4>1. replies[n] \in Replies
          BY SequenceOf DEF TypeOK
        <4>2. replies[n].cmd.seq \in Nat
          BY <4>1 DEF Replies, Commands
        <4>. QED
          BY <1>1, <1>3, <2>4, <3>1, <4>2
      <3>. QED
        BY <3>1
    <2>7. agent.rev <= hold'.rev /\ agent.rev # hold'.rev
      BY <1>1, <1>3, <2>1
    <2>8. holdCall'.pc # "idle" => holdCall'.rev = hold'.rev
      BY <1>1, <1>2, <1>3
    <2>. QED
      BY <1>1, <1>3, <2>2, <2>5, <2>6, <2>7, <2>8 DEF HoldKnown, CarriesHold
  <1>6. HelloFirst'
    BY <1>1 DEF HoldInv, HelloFirst, HelloAhead
  <1>7. HoldReaches'
    <2>1. SessionLive' => SessionLive
      BY <1>1 DEF SessionLive
    <2>. QED
      BY <1>2, <1>3, <1>4, <2>1 DEF HoldReaches
  <1>. QED
    BY <1>5, <1>6, <1>7 DEF HoldInv

\* The other writes of the operator do not touch it.
LEMMA OperatorKeepsHold ==
  ASSUME CoordTypes, CoordTypes', HoldInv, WorkersHold', Operator
  PROVE  HoldInv'
  <1>. TypeOK /\ TypeOK'
    BY DEF CoordTypes
  <1>1. CASE \/ \E w \in Workload, run \in BOOLEAN : UpdateDesiredWorkload(w, run)
             \/ \E w \in Workload : RetryWorkload(w) \/ DeleteDesiredWorkload(w)
    <2>1. UNCHANGED <<hold, holdCall, inbox, busyCmd, holdInbox, agent, session, link, epoch, replies>>
      BY <1>1 DEF UpdateDesiredWorkload, RetryWorkload, DeleteDesiredWorkload, coordVars,
         sessionVars, agentVars
    <2>. QED
      BY <2>1, HoldUntouched
  <1>2. CASE \E active \in BOOLEAN : SetMaintenanceHold(active)
    BY <1>2, SetHoldKeeps
  <1>. QED
    BY <1>1, <1>2 DEF Operator

\* The call ends: with the Agent's confirmation, or with the session revoked.
LEMMA HoldCallKeeps ==
  ASSUME TypeOK, TypeOK', HoldInv, WorkersHold', HoldReply \/ HoldFails \/ HoldReturns
  PROVE  HoldInv'
  <1>. session \in SessionRow
    BY DEF TypeOK, SessionRow
  <1>1. UNCHANGED <<hold, link, epoch, inbox, busyCmd, holdInbox, agent>>
    BY DEF HoldReply, HoldFails, HoldReturns, configVars, sessionVars, agentVars
  <1>2. CASE HoldReply
    <2>1. PICK m : Take(m) /\ m.cmd.kind = "hold"
                   /\ holdCall' = IF holdCall.pc = "waiting" /\ m.cmd.seq = holdCall.rev
                                  THEN [holdCall EXCEPT !.pc = "confirmed"] ELSE holdCall
      BY <1>2 DEF HoldReply
    <2>2. /\ m = replies[1] /\ Len(replies) > 0 /\ Len(replies) \in Nat /\ replies # <<>>
          /\ \A n \in 1..Len(replies') : replies'[n] = replies[n + 1] /\ n + 1 \in 1..Len(replies)
      <3>1. /\ m = replies[1] /\ Len(replies) > 0 /\ replies # <<>>
            /\ \A n \in 1..Len(replies') : replies'[n] = replies[n + 1] /\ n + 1 \in 1..Len(replies)
        BY <2>1, TakeTypes
      <3>2. Len(replies) \in Nat
        BY DEF TypeOK
      <3>. QED
        BY <3>1, <3>2
    <2>3. session' = session
      BY <1>2 DEF HoldReply
    <2>4. holdCall'.rev = holdCall.rev /\ (holdCall'.pc # "idle" => holdCall.pc # "idle")
      BY <2>1 DEF TypeOK
    <2>5. HoldKnown'
      <3>1. \A n \in 1..Len(replies') : replies'[n].cmd.kind = "hold" =>
               /\ replies'[n].cmd.seq <= hold.rev
               /\ link /\ replies'[n].cmd.seq = hold.rev => agent.rev = hold.rev
        BY <2>2 DEF HoldInv, HoldKnown
      <3>2. /\ hold.rev = 0 => ~hold.active
            /\ agent.rev <= hold.rev /\ (agent.rev = hold.rev => agent.hold = hold.active)
            /\ CarriesHold(holdInbox)
            /\ \A e \in 1..MaxEpoch : \A n \in 1..Len(inbox[e]) :
                  inbox[e][n].kind = "hello" => CarriesHold(inbox[e][n])
            /\ holdCall'.pc # "idle" => holdCall'.rev = hold.rev
        BY <2>4 DEF HoldInv, HoldKnown
      <3>. QED
        BY <1>1, <3>1, <3>2 DEF HoldKnown, CarriesHold
    <2>6. HelloFirst'
      BY <1>1, <2>2, <2>3 DEF HoldInv, HelloFirst, HelloAhead
    <2>7. HoldReaches'
      <3>1. CASE holdCall' = holdCall
        BY <1>1, <2>3, <3>1 DEF HoldInv, HoldReaches, HelloAhead, SessionLive
      <3>2. CASE holdCall.pc = "waiting" /\ m.cmd.seq = holdCall.rev
        <4>1. m.cmd.seq = hold.rev
          BY <3>2 DEF HoldInv, HoldKnown
        <4>2. link => agent.rev = hold.rev
          <5>1. 1 \in 1..Len(replies) /\ replies[1].cmd.kind = "hold" /\ replies[1].cmd.seq = hold.rev
            BY <2>1, <2>2, <4>1
          <5>. QED
            BY <5>1 DEF HoldInv, HoldKnown
        <4>. QED
          BY <1>1, <4>2 DEF HoldReaches
      <3>. QED
        BY <2>1, <3>1, <3>2
    <2>. QED
      BY <2>5, <2>6, <2>7 DEF HoldInv
  <1>3. CASE HoldFails
    <2>1. /\ replies' = replies /\ holdCall'.pc = "idle" /\ ~SessionLive'
          /\ session'.state = session.state /\ session'.got = session.got
          /\ session'.ready = session.ready
      BY <1>3 DEF HoldFails, NoHoldCall, SessionLive, SessionRow
    <2>2. HoldKnown'
      BY <1>1, <2>1 DEF HoldInv, HoldKnown, CarriesHold
    <2>3. HelloFirst'
      BY <1>1, <2>1 DEF HoldInv, HelloFirst, HelloAhead
    <2>4. HoldReaches'
      BY <2>1 DEF HoldReaches
    <2>. QED
      BY <2>2, <2>3, <2>4 DEF HoldInv
  <1>4. CASE HoldReturns
    <2>1. /\ replies' = replies /\ holdCall'.pc = "idle" /\ session' = session
          /\ holdCall.pc = "confirmed"
      BY <1>4 DEF HoldReturns, NoHoldCall, sessionVars
    <2>2. HoldKnown'
      BY <1>1, <2>1 DEF HoldInv, HoldKnown, CarriesHold
    <2>3. HelloFirst'
      BY <1>1, <2>1 DEF HoldInv, HelloFirst, HelloAhead
    <2>4. HoldReaches'
      BY <1>1, <2>1 DEF HoldInv, HoldReaches, HelloAhead, SessionLive
    <2>. QED
      BY <2>2, <2>3, <2>4 DEF HoldInv
  <1>. QED
    BY <1>2, <1>3, <1>4

\* The queries the stream loop sends stand behind the hello.
LEMMA QueriesKeepHellos ==
  ASSUME TypeOK, HelloFirst, NEW ks, epoch' = epoch,
         \/ inbox' = [inbox EXCEPT ![epoch] = @ \o Absent(ks)]
         \/ inbox' = inbox
  PROVE  HellosKept
  <1>1. CASE inbox' = [inbox EXCEPT ![epoch] = @ \o Absent(ks)]
    <2>1. /\ Absent(ks) \in Seq(Commands)
          /\ \A n \in 1..Len(Absent(ks)) : Absent(ks)[n].kind \in Queries
      BY AbsentType
    <2>2. \A n \in 1..Len(Absent(ks)) : Absent(ks)[n].kind # "hello"
      BY <2>1 DEF Queries
    <2>. QED
      BY <1>1, <2>1, <2>2, PushKeepsHellos
  <1>2. CASE inbox' = inbox
    BY <1>2 DEF HellosKept, HelloAhead
  <1>. QED
    BY <1>1, <1>2

\* A reply was taken: the hello was passed, and no new one carries a hold.
LEMMA TakeKeeps ==
  ASSUME TypeOK, HoldInv, NEW m, Take(m)
  PROVE  ~HelloAhead /\ NoNewHoldReply /\ session.state = "open"
  <1>1. /\ replies # <<>>
        /\ \A n \in 1..Len(replies') : replies'[n] = replies[n + 1] /\ n + 1 \in 1..Len(replies)
    BY TakeTypes
  <1>. QED
    BY <1>1 DEF HoldInv, HelloFirst, NoNewHoldReply, Take

\* The stream loop sends queries and takes their answers.
LEMMA LoopKeepsHold ==
  ASSUME TypeOK, TypeOK', HoldInv, WorkersHold',
         \/ SessionConnected \/ Heartbeat \/ ExecutionsReply \/ FactsReply \/ RuntimeReply
         \/ LateReply
  PROVE  HoldInv'
  <1>. session \in SessionRow /\ HelloFirst
    BY DEF TypeOK, SessionRow, HoldInv
  <1>0. \A e \in 1..MaxEpoch : busyCmd[e].kind \in {"none", "START"}
    BY DEF HoldInv, HelloFirst
  <1>1. CASE SessionConnected
    <2>1. /\ session' = [session EXCEPT !.state = "open"] /\ session.state = "hello"
          /\ inbox' = [inbox EXCEPT ![epoch] = @ \o Absent({"executions"})]
          /\ UNCHANGED <<hold, holdCall, link, epoch, replies, busyCmd, holdInbox, agent>>
      BY <1>1 DEF SessionConnected, configVars
    <2>2. HellosKept /\ NoNewHoldReply
      BY <2>1, QueriesKeepHellos DEF NoNewHoldReply
    <2>3. /\ session'.got = session.got /\ session'.ready = session.ready
          /\ session'.revoked = session.revoked
      BY <2>1 DEF SessionRow
    <2>4. HelloAhead => /\ session'.got = {} /\ ~session'.ready /\ replies' = <<>>
                        /\ busyCmd'[epoch] = NoCommand
      BY <2>1, <2>3 DEF HelloFirst
    <2>5. SessionLive' => SessionLive
      BY <2>1, <2>3 DEF SessionLive
    <2>. QED
      BY <1>0, <2>1, <2>2, <2>4, <2>5, HoldKept
  <1>2. CASE Heartbeat
    <2>1. /\ session' = session /\ session.ready /\ session.state = "open"
          /\ inbox' = [inbox EXCEPT ![epoch] = @ \o Absent(Refreshed)]
          /\ UNCHANGED <<hold, holdCall, link, epoch, replies, busyCmd, holdInbox, agent>>
      BY <1>2 DEF Heartbeat, configVars, coordVars
    <2>2. HellosKept /\ NoNewHoldReply
      BY <2>1, QueriesKeepHellos DEF NoNewHoldReply
    <2>3. ~HelloAhead /\ (SessionLive' => SessionLive)
      BY <2>1, ReadyIsPast DEF SessionLive
    <2>. QED
      BY <2>1, <2>2, <2>3, SendKeepsHold
  <1>3. CASE ExecutionsReply
    <2>1. PICK m : Take(m)
      BY <1>3 DEF ExecutionsReply
    <2>2. /\ session' = Got({"executions"})
          /\ UNCHANGED <<hold, holdCall, link, epoch, busyCmd, holdInbox, agent>>
          /\ \/ inbox' = [inbox EXCEPT ![epoch] = @ \o Absent({"facts"})]
             \/ inbox' = [inbox EXCEPT ![epoch] = @ \o <<>>]
      BY <1>3 DEF ExecutionsReply, configVars
    <2>3. HellosKept
      <3>1. CASE inbox' = [inbox EXCEPT ![epoch] = @ \o Absent({"facts"})]
        BY <2>2, <3>1, QueriesKeepHellos
      <3>2. CASE inbox' = [inbox EXCEPT ![epoch] = @ \o <<>>]
        <4>1. <<>> \in Seq(Commands) /\ Len(<<>>) = 0
          OBVIOUS
        <4>2. PICK s : s \in Seq(Commands) /\ s = <<>> /\ Len(s) = 0
          BY <4>1
        <4>3. inbox' = [inbox EXCEPT ![epoch] = @ \o s] /\ epoch' = epoch
          BY <2>2, <3>2, <4>2
        <4>4. \A n \in 1..Len(s) : s[n].kind # "hello"
          BY <4>2
        <4>. QED
          BY <4>2, <4>3, <4>4, PushKeepsHellos
      <3>. QED
        BY <2>2, <3>1, <3>2
    <2>4. session'.state = session.state /\ session'.revoked = session.revoked
      BY <2>2 DEF Got, SessionRow
    <2>5. SessionLive' => SessionLive
      BY <2>4 DEF SessionLive
    <2>. QED
      BY <2>1, <2>2, <2>3, <2>4, <2>5, TakeKeeps, SendKeepsHold
  <1>4. CASE FactsReply
    <2>1. PICK m : Take(m)
      BY <1>4 DEF FactsReply
    <2>2. /\ \E kinds : session' = Got(kinds)
          /\ UNCHANGED <<hold, holdCall, link, epoch, inbox, busyCmd, holdInbox, agent>>
      BY <1>4 DEF FactsReply, configVars, agentVars
    <2>3. session'.state = session.state /\ session'.revoked = session.revoked
      BY <2>2 DEF Got, SessionRow
    <2>4. HellosKept /\ (SessionLive' => SessionLive)
      BY <2>2, <2>3, QueriesKeepHellos DEF SessionLive
    <2>. QED
      BY <2>1, <2>2, <2>3, <2>4, TakeKeeps, SendKeepsHold
  <1>5. CASE RuntimeReply \/ LateReply
    <2>1. PICK m : Take(m)
      BY <1>5 DEF RuntimeReply, LateReply
    <2>2. UNCHANGED <<hold, holdCall, link, epoch, session, inbox, busyCmd, holdInbox, agent>>
      BY <1>5 DEF RuntimeReply, LateReply, configVars, coordVars, agentVars
    <2>3. HellosKept /\ (SessionLive' => SessionLive)
      BY <2>2, QueriesKeepHellos DEF SessionLive
    <2>. QED
      BY <2>1, <2>2, <2>3, TakeKeeps, SendKeepsHold
  <1>. QED
    BY <1>1, <1>2, <1>3, <1>4, <1>5

\* Sessions begin with a hello that carries the hold, and end.
LEMMA SessionsKeepHold ==
  ASSUME TypeOK, TypeOK', HoldInv, WorkersHold',
         ServerConnect \/ ServerEnds \/ SessionDisconnected \/ LinkBreaks
  PROVE  HoldInv'
  <1>. session \in SessionRow
    BY DEF TypeOK, SessionRow
  <1>0. \A e \in 1..MaxEpoch : busyCmd[e].kind \in {"none", "START"}
    BY DEF HoldInv, HelloFirst
  <1>1. CASE ServerConnect
    <2>1. /\ epoch' = epoch + 1 /\ epoch + 1 \in 1..MaxEpoch /\ replies' = <<>>
          /\ inbox' = [inbox EXCEPT ![epoch + 1] = <<HoldCommand("hello", hold)>>]
          /\ session' = [NoSession EXCEPT !.state = "hello"] /\ holdCall.pc = "idle"
          /\ holdInbox' = NoCommand
          /\ UNCHANGED <<hold, holdCall, busyCmd, agent>>
      BY <1>1, CoordinatorAssumption DEF ServerConnect, ConnectOnce, TypeOK, configVars, coordVars
    <2>2. PICK c : /\ c = HoldCommand("hello", hold)
                   /\ c.kind = "hello" /\ c.seq = hold.rev /\ c.active = hold.active
      <3>1. HoldCommand("hello", hold).kind = "hello" /\ HoldCommand("hello", hold).seq = hold.rev
        BY DEF HoldCommand, Command
      <3>2. HoldCommand("hello", hold).active = hold.active
        BY DEF HoldCommand, Command
      <3>. QED
        BY <3>1, <3>2, Zenon
    <2>3. /\ inbox'[epoch + 1] = <<c>>
          /\ \A e \in 1..MaxEpoch : e # epoch + 1 => inbox'[e] = inbox[e]
      BY <2>1, <2>2 DEF TypeOK
    <2>4. HoldKnown'
      <3>1. \A e \in 1..MaxEpoch : \A n \in 1..Len(inbox'[e]) :
               inbox'[e][n].kind = "hello" =>
                  inbox'[e][n].seq <= hold.rev
                  /\ (inbox'[e][n].seq = hold.rev => inbox'[e][n].active = hold.active)
        <4>1. ASSUME NEW e \in 1..MaxEpoch, NEW n \in 1..Len(inbox'[e]), inbox'[e][n].kind = "hello"
              PROVE  inbox'[e][n].seq <= hold.rev
                     /\ (inbox'[e][n].seq = hold.rev => inbox'[e][n].active = hold.active)
          <5>1. CASE e = epoch + 1
            <6>1. inbox'[e][n] = c /\ hold.rev \in Int
              <7>1. inbox'[e] = <<c>>
                BY <2>3, <5>1
              <7>2. n = 1
                BY <7>1
              <7>3. hold.rev \in Int
                BY DEF TypeOK
              <7>. QED
                BY <7>1, <7>2, <7>3
            <6>2. c.seq <= hold.rev
              BY <2>2, <6>1
            <6>3. c.active = hold.active
              BY <2>2, Zenon
            <6>. QED
              BY <6>1, <6>2, <6>3
          <5>2. CASE e # epoch + 1
            BY <2>3, <4>1, <5>2 DEF HoldInv, HoldKnown, CarriesHold
          <5>. QED
            BY <5>1, <5>2
        <4>. QED
          BY <4>1
      <3>2. CarriesHold(holdInbox)'
        <4>1. hold.rev = 0 => hold.active = FALSE
          BY DEF HoldInv, HoldKnown, TypeOK
        <4>2. holdInbox'.seq = 0 /\ holdInbox'.active = FALSE
          BY <2>1 DEF NoCommand, Command
        <4>3. hold.rev \in Int /\ hold.rev >= 0
          BY DEF TypeOK
        <4>4. hold.rev = 0 => holdInbox'.active = hold.active
          BY <4>1, <4>2, Zenon
        <4>. QED
          BY <2>1, <4>2, <4>3, <4>4 DEF CarriesHold
      <3>3. /\ hold.rev = 0 => ~hold.active
            /\ agent.rev <= hold.rev /\ (agent.rev = hold.rev => agent.hold = hold.active)
        BY DEF HoldInv, HoldKnown
      <3>4. Len(replies') = 0
        BY <2>1
      <3>. QED
        BY <2>1, <3>1, <3>2, <3>3, <3>4 DEF HoldKnown, CarriesHold
    <2>5. HelloFirst'
      <3>1. \A e \in 1..MaxEpoch : \A n \in 2..Len(inbox'[e]) : inbox'[e][n].kind # "hello"
        BY <2>3 DEF HoldInv, HelloFirst
      <3>2. \A e \in 1..MaxEpoch : e > epoch + 1 => inbox'[e] = <<>> /\ busyCmd[e] = NoCommand
        <4>1. epoch \in Nat
          BY CoordinatorAssumption DEF TypeOK
        <4>2. \A e \in 1..MaxEpoch : e > epoch + 1 => e > epoch /\ e # epoch + 1
          BY <4>1
        <4>. QED
          BY <2>3, <4>2 DEF HoldInv, HelloFirst
      <3>3. busyCmd[epoch + 1] = NoCommand
        <4>1. epoch + 1 > epoch
          BY CoordinatorAssumption DEF TypeOK
        <4>. QED
          BY <2>1, <4>1 DEF HoldInv, HelloFirst
      <3>4. session'.got = {} /\ ~session'.ready
        BY <2>1 DEF NoSession
      <3>. QED
        BY <1>0, <2>1, <3>1, <3>2, <3>3, <3>4 DEF HelloFirst
    <2>6. HoldReaches'
      <3>1. HelloAhead' /\ Head(inbox'[epoch']).seq = hold'.rev
        BY <2>1, <2>2, <2>3 DEF HelloAhead
      <3>. QED
        BY <3>1 DEF HoldReaches
    <2>. QED
      BY <2>4, <2>5, <2>6 DEF HoldInv
  <1>2. CASE ServerEnds
    <2>1. /\ session' = [session EXCEPT !.state = "closing", !.revoked = TRUE]
          /\ link' = FALSE /\ session.state = "open"
          /\ UNCHANGED <<hold, holdCall, epoch, replies, inbox, busyCmd, holdInbox, agent>>
      BY <1>2 DEF ServerEnds, configVars, coordVars, agentVars
    <2>2. session'.got = session.got /\ session'.ready = session.ready /\ session'.revoked
      BY <2>1 DEF SessionRow
    <2>3. HellosKept /\ NoNewHoldReply /\ ~SessionLive'
      BY <2>1, <2>2, NothingMoved DEF SessionLive
    <2>4. HelloAhead => /\ session'.got = {} /\ ~session'.ready /\ replies' = <<>>
                        /\ busyCmd'[epoch] = NoCommand
      BY <2>1, <2>2 DEF HoldInv, HelloFirst
    <2>. QED
      BY <1>0, <2>1, <2>3, <2>4, HoldKept
  <1>3. CASE SessionDisconnected
    <2>1. /\ session' = NoSession /\ replies' = <<>>
          /\ UNCHANGED <<hold, holdCall, link, epoch, inbox, busyCmd, holdInbox, agent>>
      BY <1>3 DEF SessionDisconnected, configVars, agentVars
    <2>2. HellosKept
      BY <2>1 DEF HellosKept, HelloAhead
    <2>3. NoNewHoldReply
      <3>1. Len(replies') = 0
        BY <2>1
      <3>. QED
        BY <3>1 DEF NoNewHoldReply
    <2>4. session'.got = {} /\ ~session'.ready /\ session'.state = "none" /\ ~SessionLive'
      BY <2>1 DEF NoSession, SessionLive
    <2>5. HelloAhead => busyCmd[epoch] = NoCommand
      BY DEF HoldInv, HelloFirst
    <2>. QED
      BY <1>0, <2>1, <2>2, <2>3, <2>4, <2>5, HoldKept
  <1>4. CASE LinkBreaks
    <2>1. /\ link' = FALSE /\ session' = session
          /\ UNCHANGED <<hold, holdCall, epoch, replies, inbox, busyCmd, holdInbox, agent>>
      BY <1>4 DEF LinkBreaks, configVars, coordVars, agentVars
    <2>2. HellosKept /\ NoNewHoldReply /\ (SessionLive' => SessionLive)
      BY <2>1, NothingMoved DEF SessionLive
    <2>3. HelloAhead => /\ session'.got = {} /\ ~session'.ready /\ replies' = <<>>
                        /\ busyCmd'[epoch] = NoCommand
      BY <2>1 DEF HoldInv, HelloFirst
    <2>. QED
      BY <1>0, <2>1, <2>2, <2>3, HoldKept
  <1>. QED
    BY <1>1, <1>2, <1>3, <1>4

\* What the Agent's answer to a command that is no hold adds.
LEMMA ReplyKeeps ==
  ASSUME TypeOK, NEW e, NEW c \in Commands, c.kind # "hold", NEW outcome, NEW busy,
         Reply(e, c, outcome, agent.exec, busy)
  PROVE  NoNewHoldReply /\ (e # epoch => replies' = replies)
  <1>1. CASE replies' = replies
    BY <1>1 DEF NoNewHoldReply
  <1>2. ASSUME replies' = Append(replies, [cmd |-> c, outcome |-> outcome,
                                           execs |-> agent.exec, busy |-> busy])
        PROVE  NoNewHoldReply
    <2>1. PICK x : x.cmd = c /\ replies' = Append(replies, x)
      BY <1>2
    <2>2. /\ Len(replies') = Len(replies) + 1 /\ Len(replies) \in Nat
          /\ replies'[Len(replies) + 1] = x
          /\ \A n \in 1..Len(replies) : replies'[n] = replies[n]
      BY <2>1 DEF TypeOK
    <2>3. ASSUME NEW n \in 1..Len(replies'), replies'[n].cmd.kind = "hold"
          PROVE  \E m \in 1..Len(replies) : replies[m].cmd = replies'[n].cmd
      <3>1. n # Len(replies) + 1
        BY <2>1, <2>2, <2>3
      <3>2. n \in 1..Len(replies)
        BY <2>2, <3>1
      <3>. QED
        BY <2>2, <3>2
    <2>. QED
      BY <2>3 DEF NoNewHoldReply
  <1>3. e # epoch => replies' = replies
    BY DEF Reply, Connected
  <1>. QED
    BY <1>1, <1>2, <1>3 DEF Reply, Connected

\* A command goroutine takes no hello, and answers no hold.
LEMMA GoroutineKeepsHold ==
  ASSUME TypeOK, TypeOK', HoldInv, WorkersHold', NEW e \in 1..MaxEpoch,
         \/ AgentQuery(e, "ok") \/ AgentQuery(e, "error")
         \/ AgentStop(e) \/ AgentPrepare(e) \/ AgentStart(e) \/ AgentQuit(e)
         \/ \E outcome \in {"rejected", "uncertain", "spawn"} : AgentStartFails(e, outcome)
  PROVE  HoldInv'
  <1>. HelloFirst /\ epoch \in Nat
    BY CoordinatorAssumption DEF HoldInv, TypeOK
  <1>0. /\ \A d \in 1..MaxEpoch : busyCmd[d].kind \in {"none", "START"}
        /\ \A d \in 1..MaxEpoch : d > epoch => inbox[d] = <<>> /\ busyCmd[d] = NoCommand
        /\ HelloAhead => /\ session.got = {} /\ ~session.ready /\ replies = <<>>
                         /\ busyCmd[epoch] = NoCommand
        /\ NoCommand.kind = "none"
    BY DEF HelloFirst, NoCommand, Command
  <1>1. UNCHANGED <<hold, holdCall, link, epoch, session, holdInbox>>
    BY DEF AgentQuery, AgentStop, AgentPrepare, AgentStart, AgentQuit, AgentStartFails,
       configVars, coordVars, sessionVars
  <1>2. agent'.rev = agent.rev /\ agent'.hold = agent.hold
    <2>1. agent \in AgentRow
      BY DEF TypeOK, AgentRow
    <2>2. \/ agent' = agent
          \/ \E i, status : agent' = [agent EXCEPT !.exec[i] = status]
      BY DEF AgentQuery, AgentStop, AgentPrepare, AgentStart, AgentQuit, AgentStartFails
    <2>. QED
      BY <2>1, <2>2 DEF AgentRow
  <1>3. CASE AgentQuery(e, "ok") \/ AgentQuery(e, "error") \/ AgentStop(e)
    <2>1. /\ inbox[e] # <<>> /\ Head(inbox[e]).kind \in {"executions", "facts", "STOP"}
          /\ inbox' = [inbox EXCEPT ![e] = Tail(@)] /\ busyCmd' = busyCmd
      BY <1>3 DEF AgentQuery, AgentStop, Ready, Queries
    <2>2. PICK c \in Commands : c = Head(inbox[e])
      BY <2>1, HeadTypes
    <2>3. \E outcome, busy : Reply(e, c, outcome, agent.exec, busy)
      BY <1>3, <2>2 DEF AgentQuery, AgentStop
    <2>4. NoNewHoldReply /\ (e # epoch => replies' = replies)
      <3>1. c.kind # "hold"
        BY <2>1, <2>2
      <3>. QED
        BY <2>3, <3>1, ReplyKeeps
    <2>5. HellosKept /\ (e = epoch => ~HelloAhead)
      BY <1>1, <2>1, PopKeepsHellos
    <2>6. HelloAhead => /\ session'.got = {} /\ ~session'.ready /\ replies' = <<>>
                        /\ busyCmd'[epoch] = NoCommand
      BY <1>0, <1>1, <2>1, <2>4, <2>5
    <2>7. SessionLive' => SessionLive
      BY <1>1 DEF SessionLive
    <2>. QED
      BY <1>0, <1>1, <1>2, <2>1, <2>4, <2>5, <2>6, <2>7, HoldKept
  <1>4. CASE AgentPrepare(e)
    <2>1. /\ inbox[e] # <<>> /\ Head(inbox[e]).kind = "START"
          /\ inbox' = [inbox EXCEPT ![e] = Tail(@)]
          /\ busyCmd' = [busyCmd EXCEPT ![e] = Head(inbox[e])] /\ replies' = replies
      BY <1>4 DEF AgentPrepare, Ready, sessionVars
    <2>2. HellosKept /\ (e = epoch => ~HelloAhead)
      BY <1>1, <2>1, PopKeepsHellos
    <2>3. busyCmd'[e].kind = "START" /\ \A d \in 1..MaxEpoch : d # e => busyCmd'[d] = busyCmd[d]
      BY <2>1 DEF TypeOK
    <2>4. \A d \in 1..MaxEpoch : /\ d > epoch => busyCmd'[d] = busyCmd[d]
                                 /\ busyCmd'[d].kind \in {"none", "START"}
      BY <1>0, <2>1, <2>3
    <2>5. HelloAhead => /\ session'.got = {} /\ ~session'.ready /\ replies' = <<>>
                        /\ busyCmd'[epoch] = NoCommand
      <3>1. HelloAhead => epoch \in 1..MaxEpoch
        BY CoordinatorAssumption DEF HelloAhead, TypeOK
      <3>. QED
        BY <1>0, <1>1, <2>1, <2>2, <2>3, <3>1
    <2>6. NoNewHoldReply /\ (SessionLive' => SessionLive)
      BY <1>1, <2>1 DEF SessionLive, NoNewHoldReply
    <2>. QED
      BY <1>1, <1>2, <2>2, <2>4, <2>5, <2>6, HoldKept
  <1>5. CASE AgentStart(e) \/ \E outcome \in {"rejected", "uncertain", "spawn"} : AgentStartFails(e, outcome)
    <2>1. /\ busyCmd[e] # NoCommand /\ inbox' = inbox
          /\ busyCmd' = [busyCmd EXCEPT ![e] = NoCommand]
      BY <1>5 DEF AgentStart, AgentStartFails
    <2>2. PICK c \in Commands : c = busyCmd[e]
      BY DEF TypeOK
    <2>3. \E outcome, busy : Reply(e, c, outcome, agent.exec, busy)
      BY <1>5, <2>2 DEF AgentStart, AgentStartFails
    <2>4. NoNewHoldReply /\ (e # epoch => replies' = replies)
      <3>1. c.kind # "hold"
        BY <1>0, <2>2
      <3>. QED
        BY <2>3, <3>1, ReplyKeeps
    <2>5. HellosKept /\ (e = epoch => ~HelloAhead)
      BY <1>0, <1>1, <2>1 DEF HellosKept, HelloAhead
    <2>6. \A d \in 1..MaxEpoch : /\ d # e => busyCmd'[d] = busyCmd[d]
                                 /\ d > epoch => busyCmd'[d] = busyCmd[d]
                                 /\ busyCmd'[d].kind \in {"none", "START"}
      BY <1>0, <2>1 DEF TypeOK
    <2>7. HelloAhead => /\ session'.got = {} /\ ~session'.ready /\ replies' = <<>>
                        /\ busyCmd'[epoch] = NoCommand
      <3>1. HelloAhead => epoch \in 1..MaxEpoch
        BY CoordinatorAssumption DEF HelloAhead, TypeOK
      <3>. QED
        BY <1>0, <1>1, <2>4, <2>5, <2>6, <3>1
    <2>8. SessionLive' => SessionLive
      BY <1>1 DEF SessionLive
    <2>. QED
      BY <1>1, <1>2, <2>4, <2>5, <2>6, <2>7, <2>8, HoldKept
  <1>6. CASE AgentQuit(e)
    <2>1. /\ ~(link /\ e = epoch) /\ inbox[e] # <<>> /\ replies' = replies
          /\ inbox' = [inbox EXCEPT ![e] = <<>>] /\ busyCmd' = busyCmd
      BY <1>6 DEF AgentQuit, Connected, sessionVars
    <2>2. inbox'[e] = <<>> /\ \A d \in 1..MaxEpoch : d # e => inbox'[d] = inbox[d]
      BY <2>1 DEF TypeOK
    <2>3. ~(e > epoch)
      BY <1>0, <2>1
    <2>4. HellosKept
      <3>1. \A d \in 1..MaxEpoch : \A n \in 1..Len(inbox'[d]) :
               inbox'[d][n].kind = "hello" => n \in 1..Len(inbox[d]) /\ inbox'[d][n] = inbox[d][n]
        BY <2>2
      <3>2. epoch > 0 => epoch \in 1..MaxEpoch
        BY CoordinatorAssumption DEF TypeOK
      <3>3. epoch > 0 /\ e # epoch => inbox'[epoch] = inbox[epoch]
        BY <2>2, <3>2
      <3>4. HelloAhead' => HelloAhead
        BY <1>1, <2>2, <3>3 DEF HelloAhead
      <3>5. link' /\ HelloAhead => HelloAhead' /\ Head(inbox'[epoch]) = Head(inbox[epoch])
        BY <1>1, <2>1, <3>3 DEF HelloAhead
      <3>6. \A d \in 1..MaxEpoch : d > epoch => inbox'[d] = inbox[d]
        BY <2>2, <2>3
      <3>. QED
        BY <3>1, <3>4, <3>5, <3>6 DEF HellosKept
    <2>5. HelloAhead => /\ session'.got = {} /\ ~session'.ready /\ replies' = <<>>
                        /\ busyCmd'[epoch] = NoCommand
      BY <1>0, <1>1, <2>1
    <2>6. NoNewHoldReply /\ (SessionLive' => SessionLive)
      BY <1>1, <2>1 DEF SessionLive, NoNewHoldReply
    <2>. QED
      BY <1>0, <1>1, <1>2, <2>1, <2>4, <2>5, <2>6, HoldKept
  <1>. QED
    BY <1>3, <1>4, <1>5, <1>6

\* A hold that reaches the Agent brings it no further back.
LEMMA AppliedHold ==
  ASSUME TypeOK, HoldInv, NEW c \in Commands, CarriesHold(c), agent' = ApplyHold(c)
  PROVE  /\ agent'.rev <= hold.rev /\ (agent'.rev = hold.rev => agent'.hold = hold.active)
         /\ agent.rev = hold.rev \/ c.seq = hold.rev => agent'.rev = hold.rev
  <1>1. /\ agent.rev <= hold.rev /\ (agent.rev = hold.rev => agent.hold = hold.active)
        /\ c.seq <= hold.rev /\ (c.seq = hold.rev => c.active = hold.active)
    BY DEF HoldInv, HoldKnown, CarriesHold
  <1>2. agent.rev \in Int /\ hold.rev \in Int /\ c.seq \in Int
    BY DEF TypeOK, Commands
  <1>3. CASE c.seq < agent.rev
    <2>1. agent' = agent
      BY <1>3 DEF ApplyHold
    <2>. QED
      BY <1>1, <1>2, <1>3, <2>1
  <1>4. CASE ~(c.seq < agent.rev)
    <2>1. agent'.rev = c.seq /\ agent'.hold = c.active
      BY <1>4 DEF ApplyHold
    <2>. QED
      BY <1>1, <1>2, <1>4, <2>1
  <1>. QED
    BY <1>3, <1>4

\* The hello is the first thing the Agent handles.
LEMMA HelloKeepsHold ==
  ASSUME TypeOK, TypeOK', HoldInv, WorkersHold', AgentHello
  PROVE  HoldInv'
  <1>1. /\ epoch \in 1..MaxEpoch /\ inbox[epoch] # <<>> /\ Head(inbox[epoch]).kind = "hello"
        /\ inbox' = [inbox EXCEPT ![epoch] = Tail(@)] /\ agent' = ApplyHold(Head(inbox[epoch]))
        /\ UNCHANGED <<hold, holdCall, link, epoch, session, replies, holdInbox, busyCmd>>
    BY CoordinatorAssumption DEF AgentHello, Ready, TypeOK, configVars, coordVars, sessionVars
  <1>2. PICK b \in Seq(Commands) : b = inbox[epoch]
    BY <1>1 DEF TypeOK
  <1>3. /\ Len(b) \in Nat /\ Len(b) > 0 /\ Head(b) = b[1] /\ Head(b) \in Commands
        /\ Tail(b) \in Seq(Commands) /\ Len(Tail(b)) = Len(b) - 1
        /\ \A n \in 1..Len(b) - 1 : Tail(b)[n] = b[n + 1]
    BY <1>1, <1>2, SequenceOf
  <1>4. inbox'[epoch] = Tail(b) /\ \A e \in 1..MaxEpoch : e # epoch => inbox'[e] = inbox[e]
    BY <1>1, <1>2 DEF TypeOK
  <1>5. ASSUME NEW n \in 1..Len(Tail(b)) PROVE Tail(b)[n].kind # "hello"
    <2>1. n + 1 \in 2..Len(b) /\ Tail(b)[n] = b[n + 1]
      BY <1>3
    <2>. QED
      BY <1>1, <1>2, <2>1 DEF HoldInv, HelloFirst
  <1>6. CarriesHold(Head(b))
    <2>1. 1 \in 1..Len(b)
      BY <1>3
    <2>. QED
      BY <1>1, <1>2, <1>3, <2>1 DEF HoldInv, HoldKnown
  <1>7. /\ agent'.rev <= hold.rev /\ (agent'.rev = hold.rev => agent'.hold = hold.active)
        /\ agent.rev = hold.rev \/ Head(b).seq = hold.rev => agent'.rev = hold.rev
    BY <1>1, <1>2, <1>3, <1>6, AppliedHold
  <1>8. HoldKnown'
    <2>1. \A e \in 1..MaxEpoch : \A n \in 1..Len(inbox'[e]) :
             inbox'[e][n].kind = "hello" => CarriesHold(inbox'[e][n])
      BY <1>4, <1>5 DEF HoldInv, HoldKnown
    <2>2. \A n \in 1..Len(replies) : replies[n].cmd.kind = "hold" =>
             /\ replies[n].cmd.seq <= hold.rev
             /\ link /\ replies[n].cmd.seq = hold.rev => agent'.rev = hold.rev
      BY <1>7 DEF HoldInv, HoldKnown
    <2>3. /\ hold.rev = 0 => ~hold.active
          /\ CarriesHold(holdInbox)
          /\ holdCall.pc # "idle" => holdCall.rev = hold.rev
      BY DEF HoldInv, HoldKnown
    <2>. QED
      BY <1>1, <1>7, <2>1, <2>2, <2>3 DEF HoldKnown, CarriesHold
  <1>9. HelloFirst'
    <2>1. ~HelloAhead'
      <3>1. ASSUME Tail(b) # <<>> PROVE Len(Tail(b)) > 0 /\ Head(Tail(b)) = Tail(b)[1]
        BY <1>3, <3>1, SequenceOf
      <3>2. ASSUME Tail(b) # <<>> PROVE Head(Tail(b)).kind # "hello"
        BY <1>3, <1>5, <3>1, <3>2
      <3>. QED
        BY <1>1, <1>4, <3>2 DEF HelloAhead
    <2>2. \A e \in 1..MaxEpoch : \A n \in 2..Len(inbox'[e]) : inbox'[e][n].kind # "hello"
      <3>1. \A n \in 2..Len(Tail(b)) : n \in 1..Len(Tail(b))
        BY <1>3
      <3>. QED
        BY <1>4, <1>5, <3>1 DEF HoldInv, HelloFirst
    <2>3. \A e \in 1..MaxEpoch : e > epoch => inbox'[e] = <<>> /\ busyCmd[e] = NoCommand
      BY <1>1, <1>4 DEF HoldInv, HelloFirst
    <2>. QED
      BY <1>1, <2>1, <2>2, <2>3 DEF HoldInv, HelloFirst
  <1>10. HoldReaches'
    BY <1>1, <1>2, <1>7 DEF HoldInv, HoldReaches, HelloAhead, SessionLive
  <1>. QED
    BY <1>8, <1>9, <1>10 DEF HoldInv

\* A hold is applied after the hello, and its answer says so.
LEMMA HoldKeepsHold ==
  ASSUME TypeOK, TypeOK', HoldInv, WorkersHold', AgentHold
  PROVE  HoldInv'
  <1>1. /\ holdInbox # NoCommand /\ ~Ready(epoch, "hello") /\ agent' = ApplyHold(holdInbox)
        /\ Reply(epoch, holdInbox, "ok", agent.exec, {}) /\ holdInbox' = NoCommand
        /\ UNCHANGED <<hold, holdCall, link, epoch, session, inbox, busyCmd>>
    BY DEF AgentHold, configVars, coordVars
  <1>2. PICK c \in Commands : c = holdInbox
    BY DEF TypeOK
  <1>3. CarriesHold(c)
    BY <1>2 DEF HoldInv, HoldKnown
  <1>4. /\ agent'.rev <= hold.rev /\ (agent'.rev = hold.rev => agent'.hold = hold.active)
        /\ agent.rev = hold.rev \/ c.seq = hold.rev => agent'.rev = hold.rev
    BY <1>1, <1>2, <1>3, AppliedHold
  <1>5. ~HelloAhead
    BY <1>1 DEF HoldInv, HelloFirst, HelloAhead, Ready
  <1>6. HoldKnown'
    <2>1. \A n \in 1..Len(replies') : replies'[n].cmd.kind = "hold" =>
             /\ replies'[n].cmd.seq <= hold.rev
             /\ link /\ replies'[n].cmd.seq = hold.rev => agent'.rev = hold.rev
      <3>1. CASE replies' = replies
        BY <1>4, <3>1 DEF HoldInv, HoldKnown
      <3>2. CASE replies' = Append(replies, [cmd |-> holdInbox, outcome |-> "ok",
                                             execs |-> agent.exec, busy |-> {}])
        <4>1. PICK x : x.cmd = c /\ replies' = Append(replies, x)
          BY <1>2, <3>2
        <4>2. /\ Len(replies') = Len(replies) + 1 /\ Len(replies) \in Nat
              /\ replies'[Len(replies) + 1] = x
              /\ \A n \in 1..Len(replies) : replies'[n] = replies[n]
          BY <4>1 DEF TypeOK
        <4>3. ASSUME NEW n \in 1..Len(replies'), replies'[n].cmd.kind = "hold"
              PROVE  /\ replies'[n].cmd.seq <= hold.rev
                     /\ link /\ replies'[n].cmd.seq = hold.rev => agent'.rev = hold.rev
          <5>1. CASE n = Len(replies) + 1
            BY <1>3, <1>4, <4>1, <4>2, <5>1 DEF CarriesHold
          <5>2. CASE n # Len(replies) + 1
            <6>1. n \in 1..Len(replies) /\ replies'[n] = replies[n]
              BY <4>2, <5>2
            <6>. QED
              BY <1>4, <4>3, <6>1 DEF HoldInv, HoldKnown
          <5>. QED
            BY <5>1, <5>2
        <4>. QED
          BY <4>3
      <3>. QED
        BY <1>1, <3>1, <3>2 DEF Reply
    <2>2. CarriesHold(holdInbox)'
      <3>1. hold.rev = 0 => hold.active = FALSE
        BY DEF HoldInv, HoldKnown, TypeOK
      <3>2. holdInbox'.seq = 0 /\ holdInbox'.active = FALSE
        BY <1>1 DEF NoCommand, Command
      <3>3. hold.rev \in Int /\ hold.rev >= 0
        BY DEF TypeOK
      <3>4. hold.rev = 0 => holdInbox'.active = hold.active
        BY <3>1, <3>2, Zenon
      <3>. QED
        BY <1>1, <3>2, <3>3, <3>4 DEF CarriesHold
    <2>3. /\ hold.rev = 0 => ~hold.active
          /\ \A e \in 1..MaxEpoch : \A n \in 1..Len(inbox[e]) :
                inbox[e][n].kind = "hello" => CarriesHold(inbox[e][n])
          /\ holdCall.pc # "idle" => holdCall.rev = hold.rev
      BY DEF HoldInv, HoldKnown
    <2>. QED
      BY <1>1, <1>4, <2>1, <2>2, <2>3 DEF HoldKnown, CarriesHold
  <1>7. HelloFirst'
    <2>1. ~HelloAhead'
      BY <1>1, <1>5 DEF HelloAhead
    <2>. QED
      BY <1>1, <2>1 DEF HoldInv, HelloFirst
  <1>8. HoldReaches'
    <2>1. link /\ SessionLive => agent.rev = hold.rev \/ c.seq = hold.rev
      BY <1>2, <1>5 DEF HoldInv, HoldReaches
    <2>. QED
      BY <1>1, <1>4, <2>1 DEF HoldReaches, SessionLive
  <1>. QED
    BY <1>6, <1>7, <1>8 DEF HoldInv

\* The Agent starts anew, without a stream.
LEMMA RestartKeepsHold ==
  ASSUME TypeOK, TypeOK', HoldInv, WorkersHold', AgentRestarts
  PROVE  HoldInv'
  <1>1. /\ link' = FALSE /\ agent'.rev = 0 /\ agent'.hold = FALSE
        /\ inbox' = [e \in 1..MaxEpoch |-> <<>>] /\ busyCmd' = [e \in 1..MaxEpoch |-> NoCommand]
        /\ holdInbox' = NoCommand
        /\ UNCHANGED <<hold, holdCall, epoch, session, replies>>
    BY DEF AgentRestarts, TypeOK, configVars, coordVars
  <1>2. hold.rev \in Int /\ hold.rev >= 0 /\ (hold.rev = 0 => hold.active = FALSE)
    BY DEF HoldInv, HoldKnown, TypeOK
  <1>3. \A e \in 1..MaxEpoch : Len(inbox'[e]) = 0 /\ inbox'[e] = <<>> /\ busyCmd'[e] = NoCommand
    BY <1>1
  <1>4. HoldKnown'
    <2>1. agent'.rev <= hold.rev /\ (agent'.rev = hold.rev => agent'.hold = hold.active)
      <3>1. hold.rev = 0 => agent'.hold = hold.active
        BY <1>1, <1>2, Zenon
      <3>. QED
        BY <1>1, <1>2, <3>1
    <2>2. CarriesHold(holdInbox)'
      <3>1. holdInbox'.seq = 0 /\ holdInbox'.active = FALSE
        BY <1>1 DEF NoCommand, Command
      <3>2. hold.rev = 0 => holdInbox'.active = hold.active
        BY <1>2, <3>1, Zenon
      <3>. QED
        BY <1>1, <1>2, <3>1, <3>2 DEF CarriesHold
    <2>3. \A e \in 1..MaxEpoch : \A n \in 1..Len(inbox'[e]) :
             inbox'[e][n].kind = "hello" => CarriesHold(inbox'[e][n])
      BY <1>3
    <2>4. /\ hold.rev = 0 => ~hold.active
          /\ \A n \in 1..Len(replies) : replies[n].cmd.kind = "hold" =>
                replies[n].cmd.seq <= hold.rev
          /\ holdCall.pc # "idle" => holdCall.rev = hold.rev
      BY DEF HoldInv, HoldKnown
    <2>. QED
      BY <1>1, <2>1, <2>2, <2>3, <2>4 DEF HoldKnown, CarriesHold
  <1>5. HelloFirst'
    <2>1. ~HelloAhead'
      <3>1. epoch > 0 => epoch \in 1..MaxEpoch
        BY CoordinatorAssumption DEF TypeOK
      <3>. QED
        BY <1>1, <1>3, <3>1 DEF HelloAhead
    <2>2. NoCommand.kind = "none"
      BY DEF NoCommand, Command
    <2>3. \A e \in 1..MaxEpoch : \A n \in 2..Len(inbox'[e]) : inbox'[e][n].kind # "hello"
      BY <1>3
    <2>. QED
      BY <1>1, <1>3, <2>1, <2>2, <2>3 DEF HoldInv, HelloFirst
  <1>6. HoldReaches'
    BY <1>1 DEF HoldReaches
  <1>. QED
    BY <1>4, <1>5, <1>6 DEF HoldInv

\* What is left of the Controller's steps and of the environment's does not touch it.
LEMMA RestKeepsHold ==
  ASSUME TypeOK, TypeOK', HoldInv, WorkersHold',
         \/ ExpireRuntimeResult \/ \E i \in Id : ExecutionFails(i)
         \/ \E kind \in Expiring : ObservationExpires(kind)
         \/ \E b \in SUBSET Resource : UnmanagedProcess(b)
         \/ UNCHANGED vars
  PROVE  HoldInv'
  <1>1. UNCHANGED <<hold, holdCall, inbox, busyCmd, holdInbox, session, link, epoch, replies>>
    BY DEF ExpireRuntimeResult, ExecutionFails, ObservationExpires, UnmanagedProcess, vars,
       configVars, coordVars, sessionVars, agentVars
  <1>2. agent'.rev = agent.rev /\ agent'.hold = agent.hold
    <2>1. agent \in AgentRow
      BY DEF TypeOK, AgentRow
    <2>2. \/ agent' = agent
          \/ \E i : agent' = [agent EXCEPT !.exec[i] = "FAILED"]
      BY DEF ExpireRuntimeResult, ExecutionFails, ObservationExpires, UnmanagedProcess, vars,
         agentVars
    <2>. QED
      BY <2>1, <2>2 DEF AgentRow
  <1>. QED
    BY <1>1, <1>2, HoldUntouched

\* What is inductive of the way of the hold.
LEMMA HoldStep ==
  ASSUME CoordTypes, HoldInv, [Next]_vars
  PROVE  HoldInv'
  <1>1. CoordTypes' /\ TypeOK /\ TypeOK'
    BY TypesStep DEF CoordTypes
  <1>2. WorkersHold'
    BY WorkersHoldStep DEF HoldInv
  <1>3. CASE Operator
    BY <1>1, <1>2, <1>3, OperatorKeepsHold
  <1>4. ASSUME NEW r \in Worker, Reconcile(r) PROVE HoldInv'
    BY <1>1, <1>2, <1>4, WorkersKeepHold
  <1>5. CASE Server
    <2>1. CASE ServerConnect \/ ServerEnds \/ SessionDisconnected
      BY <1>1, <1>2, <2>1, SessionsKeepHold
    <2>2. CASE \/ SessionConnected \/ Heartbeat \/ ExecutionsReply \/ FactsReply \/ RuntimeReply
               \/ LateReply
      BY <1>1, <1>2, <2>2, LoopKeepsHold
    <2>3. CASE HoldReply \/ HoldFails \/ HoldReturns
      BY <1>1, <1>2, <2>3, HoldCallKeeps
    <2>4. CASE ExpireRuntimeResult
      BY <1>1, <1>2, <2>4, RestKeepsHold
    <2>. QED
      BY <1>5, <2>1, <2>2, <2>3, <2>4 DEF Server
  <1>6. CASE Agent
    BY <1>1, <1>2, <1>6, HelloKeepsHold, HoldKeepsHold, GoroutineKeepsHold DEF Agent
  <1>7. CASE Environment
    <2>1. CASE LinkBreaks
      BY <1>1, <1>2, <2>1, SessionsKeepHold
    <2>2. CASE AgentRestarts
      BY <1>1, <1>2, <2>2, RestartKeepsHold
    <2>3. CASE \/ \E i \in Id : ExecutionFails(i)
               \/ \E kind \in Expiring : ObservationExpires(kind)
               \/ \E b \in SUBSET Resource : UnmanagedProcess(b)
      BY <1>1, <1>2, <2>3, RestKeepsHold
    <2>. QED
      BY <1>7, <2>1, <2>2, <2>3 DEF Environment
  <1>8. CASE UNCHANGED vars
    BY <1>1, <1>2, <1>8, RestKeepsHold
  <1>. QED
    BY <1>3, <1>4, <1>5, <1>6, <1>7, <1>8 DEF Next

\* A step that puts a START behind what session e still has to do.
SendsStart(e) == Len(inbox'[e]) > Len(inbox[e]) /\ Last(inbox'[e]).kind = "START"

\* Queries are none.
LEMMA QueriesSendNoStart ==
  ASSUME TypeOK, NEW ks, NEW e \in 1..MaxEpoch,
         inbox' = [inbox EXCEPT ![epoch] = @ \o Absent(ks)]
  PROVE  ~SendsStart(e)
  <1>1. PICK b \in Seq(Commands), s \in Seq(Commands) :
           /\ b = inbox[e] /\ s = Absent(ks)
           /\ \A n \in 1..Len(s) : s[n].kind \in Queries
    <2>1. inbox[e] \in Seq(Commands)
      BY DEF TypeOK
    <2>2. /\ Absent(ks) \in Seq(Commands)
          /\ \A n \in 1..Len(Absent(ks)) : Absent(ks)[n].kind \in Queries
      BY AbsentType
    <2>. QED
      BY <2>1, <2>2
  <1>2. inbox'[e] = b \/ inbox'[e] = b \o s
    BY <1>1 DEF TypeOK
  <1>3. ASSUME SendsStart(e) PROVE FALSE
    <2>0. Len(b) \in Nat
      OBVIOUS
    <2>1. inbox'[e] = b \o s
      <3>1. Len(inbox'[e]) > Len(b)
        BY <1>1, <1>3 DEF SendsStart
      <3>2. ASSUME inbox'[e] = b PROVE FALSE
        BY <2>0, <3>1, <3>2
      <3>. QED
        BY <1>2, <3>2
    <2>2. /\ Len(b) \in Nat /\ Len(s) \in Nat /\ Len(b \o s) = Len(b) + Len(s)
      BY JoinOf
    <2>3. Len(s) \in 1..Len(s)
      BY <1>1, <1>3, <2>1, <2>2 DEF SendsStart
    <2>4. Last(b \o s) = s[Len(s)]
      BY <2>2, <2>3, JoinOf DEF Last
    <2>. QED
      BY <1>1, <1>3, <2>1, <2>3, <2>4 DEF SendsStart, Queries
  <1>. QED
    BY <1>3

\* Only a worker's send puts one there.
LEMMA OnlyWorkersSendStarts ==
  ASSUME TypeOK, TypeOK', Operator \/ Server \/ Agent \/ Environment, NEW e \in 1..MaxEpoch
  PROVE  ~SendsStart(e)
  <1>. Len(inbox[e]) \in Nat /\ Len(inbox'[e]) \in Nat
    BY DEF TypeOK
  <1>1. ASSUME inbox'[e] = inbox[e] PROVE ~SendsStart(e)
    BY <1>1 DEF SendsStart
  <1>2. ASSUME inbox'[e] = <<>> PROVE ~SendsStart(e)
    <2>1. Len(inbox'[e]) = 0
      BY <1>2
    <2>. QED
      BY <2>1 DEF SendsStart
  <1>3. CASE Operator
    <2>1. inbox' = inbox
      BY <1>3 DEF Operator, UpdateDesiredWorkload, RetryWorkload, DeleteDesiredWorkload,
         SetMaintenanceHold, agentVars
    <2>. QED
      BY <1>1, <2>1
  <1>4. CASE ServerConnect
    <2>1. inbox' = [inbox EXCEPT ![epoch + 1] = <<HoldCommand("hello", hold)>>]
      BY <1>4 DEF ServerConnect, ConnectOnce
    <2>2. CASE e = epoch + 1
      <3>1. PICK c : inbox'[e] = <<c>> /\ c.kind = "hello"
        <4>1. HoldCommand("hello", hold).kind = "hello"
          BY DEF HoldCommand, Command
        <4>. QED
          BY <2>1, <2>2, <4>1 DEF TypeOK
      <3>2. Last(inbox'[e]) = c
        BY <3>1 DEF Last
      <3>. QED
        BY <3>1, <3>2 DEF SendsStart
    <2>3. CASE e # epoch + 1
      BY <1>1, <2>1, <2>3 DEF TypeOK
    <2>. QED
      BY <2>2, <2>3
  <1>5. CASE SessionConnected \/ Heartbeat
    <2>1. \E ks : inbox' = [inbox EXCEPT ![epoch] = @ \o Absent(ks)]
      BY <1>5 DEF SessionConnected, Heartbeat
    <2>. QED
      BY <2>1, QueriesSendNoStart
  <1>6. CASE ExecutionsReply
    <2>1. \/ inbox' = [inbox EXCEPT ![epoch] = @ \o Absent({"facts"})]
          \/ inbox' = [inbox EXCEPT ![epoch] = @ \o <<>>]
      BY <1>6 DEF ExecutionsReply
    <2>2. CASE inbox' = [inbox EXCEPT ![epoch] = @ \o <<>>]
      <3>1. inbox[e] \o <<>> = inbox[e]
        BY DEF TypeOK
      <3>2. inbox'[e] = inbox[e]
        BY <2>2, <3>1 DEF TypeOK
      <3>. QED
        BY <1>1, <3>2
    <2>. QED
      BY <2>1, <2>2, QueriesSendNoStart
  <1>7. ASSUME Server PROVE \/ inbox' = inbox \/ ServerConnect \/ SessionConnected \/ Heartbeat
                            \/ ExecutionsReply
    BY <1>7 DEF Server, ServerEnds, SessionDisconnected, FactsReply, RuntimeReply,
       ExpireRuntimeResult, LateReply, HoldReply, HoldFails, HoldReturns, agentVars
  <1>8. CASE Agent
    <2>1. \/ inbox' = inbox
          \/ \E d : inbox[d] # <<>> /\ inbox' = [inbox EXCEPT ![d] = Tail(@)]
          \/ \E d : inbox' = [inbox EXCEPT ![d] = <<>>]
      BY <1>8 DEF Agent, AgentHello, AgentHold, AgentQuery, AgentStop, AgentPrepare, AgentStart,
         AgentQuit, AgentStartFails, Ready
    <2>2. ASSUME NEW d, inbox[d] # <<>>, inbox' = [inbox EXCEPT ![d] = Tail(@)]
          PROVE  ~SendsStart(e)
      <3>1. CASE d = e
        <4>1. inbox'[e] = Tail(inbox[e]) /\ inbox[e] \in Seq(Commands) /\ inbox[e] # <<>>
          BY <2>2, <3>1 DEF TypeOK
        <4>2. Len(inbox'[e]) = Len(inbox[e]) - 1
          BY <4>1, SequenceOf
        <4>. QED
          BY <4>2 DEF SendsStart
      <3>2. CASE d # e
        BY <1>1, <2>2, <3>2 DEF TypeOK
      <3>. QED
        BY <3>1, <3>2
    <2>3. ASSUME NEW d, inbox' = [inbox EXCEPT ![d] = <<>>] PROVE ~SendsStart(e)
      <3>1. inbox'[e] = <<>> \/ inbox'[e] = inbox[e]
        BY <2>3 DEF TypeOK
      <3>. QED
        BY <1>1, <1>2, <3>1
    <2>. QED
      BY <1>1, <2>1, <2>2, <2>3
  <1>9. CASE Environment
    <2>1. inbox' = inbox \/ inbox' = [d \in 1..MaxEpoch |-> <<>>]
      BY <1>9 DEF Environment, LinkBreaks, AgentRestarts, ExecutionFails, ObservationExpires,
         UnmanagedProcess, agentVars, TypeOK
    <2>. QED
      BY <1>1, <1>2, <2>1
  <1>. QED
    BY <1>1, <1>3, <1>4, <1>5, <1>6, <1>7, <1>8, <1>9

\* A START that a worker sends follows the hold.
LEMMA StartFollows ==
  ASSUME CoordTypes, HoldInv, NEW r \in Worker, worker[r].pc = "send", SessionFor(r), link,
         NEW e \in 1..MaxEpoch, SendsStart(e),
         inbox' = [inbox EXCEPT ![epoch] = Append(@,
                      Command(worker[r].key.act, worker[r].key.id, session.seq + 1))]
  PROVE  ~hold.active /\ ~agent.hold /\ agent.rev = hold.rev
  <1>. TypeOK /\ WorkersAct
    BY DEF CoordTypes
  <1>1. worker[r].key.act \in {"START", "STOP"}
    BY DEF WorkersAct
  <1>2. PICK c \in Commands :
           c = Command(worker[r].key.act, worker[r].key.id, session.seq + 1)
    BY <1>1, SentTypes
  <1>3. c.kind = worker[r].key.act
    BY <1>2 DEF Command
  <1>4. PICK b \in Seq(Commands) : b = inbox[e]
    BY DEF TypeOK
  <1>5. /\ Len(b) \in Nat /\ Len(Append(b, c)) = Len(b) + 1 /\ Append(b, c)[Len(b) + 1] = c
    BY SequenceOf
  <1>6. inbox'[e] = Append(b, c)
    <2>1. CASE e = epoch
      BY <1>2, <1>4, <2>1 DEF TypeOK
    <2>2. CASE e # epoch
      <3>1. inbox'[e] = b
        BY <1>4, <2>2 DEF TypeOK
      <3>2. Len(inbox'[e]) > Len(b)
        BY <1>4 DEF SendsStart
      <3>. QED
        BY <1>5, <3>1, <3>2
    <2>. QED
      BY <2>1, <2>2
  <1>7. Last(Append(b, c)) = c
    BY <1>5 DEF Last
  <1>8. c.kind = "START"
    BY <1>6, <1>7 DEF SendsStart
  <1>9. ~hold.active /\ holdCall.pc = "idle"
    BY <1>3, <1>8 DEF HoldInv, WorkersHold
  <1>10. SessionLive /\ ~HelloAhead
    BY ReadyIsPast DEF SessionFor
  <1>11. agent.rev = hold.rev
    BY <1>9, <1>10 DEF HoldInv, HoldReaches
  <1>12. agent.hold = hold.active
    BY <1>11 DEF HoldInv, HoldKnown
  <1>. QED
    BY <1>9, <1>11, <1>12

\* Of the workers' steps only the sends put one there.
LEMMA WorkersSendStarts ==
  ASSUME CoordTypes, HoldInv, NEW r \in Worker, Reconcile(r),
         NEW e \in 1..MaxEpoch, SendsStart(e)
  PROVE  ~hold.active /\ ~agent.hold /\ agent.rev = hold.rev
  <1>1. inbox' # inbox
    <2>1. Len(inbox[e]) \in Nat
      BY DEF CoordTypes, TypeOK
    <2>. QED
      BY <2>1 DEF SendsStart
  <1>2. SendRuntime(r) \/ SendFails(r)
    BY <1>1 DEF Reconcile, ApplyRestoreBarrier, Recheck, SetDispatchSequence, PrepareDispatch,
       PrepareBlocks, agentVars
  <1>3. /\ worker[r].pc = "send" /\ SessionFor(r) /\ link
        /\ inbox' = [inbox EXCEPT ![epoch] = Append(@,
              Command(worker[r].key.act, worker[r].key.id, session.seq + 1))]
    BY <1>1, <1>2 DEF SendRuntime, SendFails, Send
  <1>. QED
    BY <1>3, StartFollows

\* Every START follows the hold, for any number of workers, sessions and holds: the
\* sender has looked at the hold under the read lock that the operator's call excludes,
\* and the Agent handled the newest revision before its session was ready.
THEOREM StartsAlwaysFollowHold == Spec => StartsFollowHold
  <1>. DEFINE IInv == CoordTypes /\ HoldInv
  <1>1. Init => IInv
    BY TypesInit, HoldInit
  <1>2. IInv /\ [Next]_vars => IInv'
    BY TypesStep, HoldStep
  <1>3. IInv /\ [Next]_vars =>
           [\A e \in 1..MaxEpoch :
               Len(inbox'[e]) > Len(inbox[e]) /\ Last(inbox'[e]).kind = "START"
               => ~hold.active /\ ~agent.hold /\ agent.rev = hold.rev]_vars
    <2>. SUFFICES ASSUME IInv, Next, NEW e \in 1..MaxEpoch, SendsStart(e)
                  PROVE  ~hold.active /\ ~agent.hold /\ agent.rev = hold.rev
      BY DEF SendsStart
    <2>1. TypeOK /\ TypeOK'
      <3>1. CoordTypes'
        BY TypesStep
      <3>. QED
        BY <3>1 DEF CoordTypes
    <2>2. ~(Operator \/ Server \/ Agent \/ Environment)
      BY <2>1, OnlyWorkersSendStarts
    <2>3. PICK r \in Worker : Reconcile(r)
      BY <2>2 DEF Next
    <2>. QED
      BY <2>3, WorkersSendStarts
  <1>. QED
    BY <1>1, <1>2, <1>3, PTL DEF Spec, StartsFollowHold

(***************************************************************************)
(* One session in which no hold is set and no list of executions gets too  *)
(* old: the instance the run coordinator_session explores, here for any    *)
(* workloads, resources, reconcile workers and faults.  The Agent of the   *)
(* session is the only one there is: what it carries out has gone through  *)
(* one first-in, first-out path, from the inbox over the command that is   *)
(* being prepared to the replies the stream loop has not taken.            *)
(***************************************************************************)
OneQuietSession == MaxEpoch = 1 /\ MaxHold = 0 /\ "executions" \notin Expiring

\* A list of executions asked for since the last dispatch.
Late(c, seq) == c.kind = "executions" /\ c.seq = seq

\* A queue of commands without a runtime command, and also without such a list.
NoRuntime(q) == \A n \in 1..Len(q) : ~IsRuntime(q[n])
NoLateList(q, seq) == \A n \in 1..Len(q) : ~Late(q[n], seq)

\* One runtime command at most, and the lists asked for after it behind it.
InOrder(q, seq) ==
    \A m, n \in 1..Len(q) : IsRuntime(q[m]) =>
        /\ IsRuntime(q[n]) => m = n
        /\ Late(q[n], seq) => m < n

\* A command that joins the queue.
LEMMA JoinsInOrder ==
  ASSUME NEW q \in Seq(Commands), NEW c \in Commands, NEW seq \in Nat, InOrder(q, seq),
         IsRuntime(c) => NoRuntime(q) /\ NoLateList(q, seq)
  PROVE  InOrder(Append(q, c), seq)
  <1>. DEFINE p == Append(q, c)
  <1>1. /\ p \in Seq(Commands) /\ Len(p) = Len(q) + 1 /\ p[Len(q) + 1] = c
        /\ \A n \in 1..Len(q) : p[n] = q[n]
        /\ Len(q) \in Nat
    BY SequenceOf
  <1>. HIDE DEF p
  <1>2. ASSUME NEW m \in 1..Len(p), NEW n \in 1..Len(p), IsRuntime(p[m])
        PROVE  (IsRuntime(p[n]) => m = n) /\ (Late(p[n], seq) => m < n)
    <2>1. CASE m = Len(q) + 1
      <3>1. CASE n = Len(q) + 1
        <4>1. ~Late(c, seq)
          BY <1>1, <1>2, <2>1 DEF Late, IsRuntime
        <4>. QED
          BY <1>1, <2>1, <3>1, <4>1
      <3>2. CASE n # Len(q) + 1
        <4>1. n \in 1..Len(q)
          BY <1>1, <3>2
        <4>2. ~IsRuntime(q[n]) /\ ~Late(q[n], seq)
          BY <1>1, <1>2, <2>1, <4>1 DEF NoRuntime, NoLateList
        <4>. QED
          BY <1>1, <4>1, <4>2
      <3>. QED
        BY <3>1, <3>2
    <2>2. CASE m # Len(q) + 1
      <3>1. m \in 1..Len(q) /\ IsRuntime(q[m])
        BY <1>1, <1>2, <2>2
      <3>2. CASE n = Len(q) + 1
        <4>1. ~IsRuntime(c)
          BY <3>1 DEF NoRuntime
        <4>. QED
          BY <1>1, <3>1, <3>2, <4>1
      <3>3. CASE n # Len(q) + 1
        <4>1. n \in 1..Len(q)
          BY <1>1, <3>3
        <4>2. p[n] = q[n]
          BY <1>1, <4>1
        <4>. QED
          BY <3>1, <4>1, <4>2 DEF InOrder
      <3>. QED
        BY <3>2, <3>3
    <2>. QED
      BY <2>1, <2>2
  <1>. QED
    BY <1>2 DEF InOrder, p

\* The first command leaves it.
LEMMA LeavesInOrder ==
  ASSUME NEW q \in Seq(Commands), q # <<>>, NEW seq \in Nat, InOrder(q, seq)
  PROVE  /\ InOrder(Tail(q), seq)
         /\ NoRuntime(q) => NoRuntime(Tail(q))
         /\ NoLateList(q, seq) => NoLateList(Tail(q), seq)
         /\ IsRuntime(Head(q)) \/ Late(Head(q), seq) => NoRuntime(Tail(q))
  <1>. DEFINE p == Tail(q)
  <1>1. /\ Len(q) \in Nat /\ Len(q) > 0 /\ Len(p) = Len(q) - 1 /\ Head(q) = q[1]
        /\ \A n \in 1..Len(q) - 1 : p[n] = q[n + 1]
    BY SequenceOf
  <1>. HIDE DEF p
  <1>2. \A n \in 1..Len(p) : n + 1 \in 1..Len(q) /\ p[n] = q[n + 1]
    BY <1>1
  <1>3. InOrder(p, seq)
    <2>1. ASSUME NEW m \in 1..Len(p), NEW n \in 1..Len(p), IsRuntime(p[m])
          PROVE  (IsRuntime(p[n]) => m = n) /\ (Late(p[n], seq) => m < n)
      <3>1. m + 1 \in 1..Len(q) /\ n + 1 \in 1..Len(q) /\ p[m] = q[m + 1] /\ p[n] = q[n + 1]
        BY <1>2
      <3>2. (IsRuntime(p[n]) => m + 1 = n + 1) /\ (Late(p[n], seq) => m + 1 < n + 1)
        BY <2>1, <3>1 DEF InOrder
      <3>. QED
        BY <3>2
    <2>. QED
      BY <2>1 DEF InOrder
  <1>4. (NoRuntime(q) => NoRuntime(p)) /\ (NoLateList(q, seq) => NoLateList(p, seq))
    BY <1>2 DEF NoRuntime, NoLateList
  <1>5. ASSUME IsRuntime(Head(q)) \/ Late(Head(q), seq), NEW n \in 1..Len(p)
        PROVE  ~IsRuntime(p[n])
    <2>1. n + 1 \in 1..Len(q) /\ p[n] = q[n + 1] /\ 1 \in 1..Len(q) /\ Head(q) = q[1]
      BY <1>1, <1>2
    <2>2. ~(n + 1 = 1) /\ ~(n + 1 < 1)
      OBVIOUS
    <2>. QED
      BY <1>5, <2>1, <2>2 DEF InOrder
  <1>. QED
    BY <1>3, <1>4, <1>5 DEF NoRuntime, p

\* Queries join it.
LEMMA QueriesInOrder ==
  ASSUME NEW q \in Seq(Commands), NEW t \in Seq(Commands), NEW seq \in Nat, InOrder(q, seq),
         \A n \in 1..Len(t) : t[n].kind \in Queries
  PROVE  InOrder(q \o t, seq) /\ (NoRuntime(q) => NoRuntime(q \o t))
  <1>. DEFINE p == q \o t
  <1>1. /\ Len(p) = Len(q) + Len(t) /\ Len(q) \in Nat /\ Len(t) \in Nat
        /\ \A n \in 1..Len(q) : p[n] = q[n]
        /\ \A n \in 1..Len(t) : p[Len(q) + n] = t[n]
    BY JoinOf
  <1>. HIDE DEF p
  <1>2. ASSUME NEW n \in 1..Len(p), n \notin 1..Len(q)
        PROVE  ~IsRuntime(p[n]) /\ Len(q) < n
    <2>1. n - Len(q) \in 1..Len(t) /\ Len(q) + (n - Len(q)) = n
      BY <1>1, <1>2
    <2>2. PICK k \in 1..Len(t) : Len(q) + k = n
      BY <2>1
    <2>3. p[n] = t[k]
      BY <1>1, <2>2
    <2>4. ~IsRuntime(t[k])
      BY DEF IsRuntime, Queries
    <2>. QED
      BY <1>1, <1>2, <2>3, <2>4
  <1>3. ASSUME NEW m \in 1..Len(p), NEW n \in 1..Len(p), IsRuntime(p[m])
        PROVE  (IsRuntime(p[n]) => m = n) /\ (Late(p[n], seq) => m < n)
    <2>1. m \in 1..Len(q) /\ p[m] = q[m]
      BY <1>1, <1>2, <1>3
    <2>2. CASE n \in 1..Len(q)
      <3>1. p[n] = q[n]
        BY <1>1, <2>2
      <3>. QED
        BY <1>3, <2>1, <2>2, <3>1 DEF InOrder
    <2>3. CASE n \notin 1..Len(q)
      BY <1>1, <1>2, <2>1, <2>3
    <2>. QED
      BY <2>2, <2>3
  <1>4. NoRuntime(q) => NoRuntime(p)
    BY <1>1, <1>2 DEF NoRuntime
  <1>. QED
    BY <1>3, <1>4 DEF InOrder, p

\* With a later sequence number than those of its lists none of them is late.
LEMMA NewDispatch ==
  ASSUME NEW q \in Seq(Commands), NEW seq \in Nat, NoRuntime(q),
         \A n \in 1..Len(q) : q[n].kind = "executions" => q[n].seq <= seq
  PROVE  InOrder(q, seq + 1) /\ NoLateList(q, seq + 1)
  <1>1. ASSUME NEW n \in 1..Len(q) PROVE ~Late(q[n], seq + 1)
    BY <1>1 DEF Late, Commands
  <1>. QED
    BY <1>1 DEF InOrder, NoRuntime, NoLateList

\* Its lists were asked for at sequence numbers of the session so far.
ListsAsked(q, seq) == \A n \in 1..Len(q) : q[n].kind = "executions" => q[n].seq <= seq

\* The commands of the replies.
Answered == [n \in 1..Len(replies) |-> replies[n].cmd]

\* The path of the commands as a whole: the replies are before the command that is
\* being prepared, and that one before the inbox.
PathInOrder ==
    /\ InOrder(Answered, session.seq) /\ ListsAsked(Answered, session.seq)
    /\ InOrder(inbox[1], session.seq) /\ ListsAsked(inbox[1], session.seq)
    /\ \/ NoRuntime(inbox[1]) /\ busyCmd[1] = NoCommand
       \/ NoRuntime(Answered) /\ NoLateList(Answered, session.seq)
    /\ NoRuntime(inbox[1]) \/ busyCmd[1] = NoCommand
    /\ busyCmd[1] = NoCommand \/ busyCmd[1].kind = "START"

\* Runtime commands between the dispatch and the stream loop's look at the reply.
Underway ==
    {c \in {busyCmd[1]} \cup {inbox[1][n] : n \in 1..Len(inbox[1])}
                       \cup {replies[n].cmd : n \in 1..Len(replies)} : IsRuntime(c)}

\* What steps do to the path.
Asked(t) ==
    /\ t \in Seq(Commands) /\ inbox'[1] = inbox[1] \o t
    /\ \A n \in 1..Len(t) : /\ t[n].kind \in Queries
                            /\ t[n].kind = "executions" => t[n].seq = session.seq
Took == replies # <<>> /\ replies' = Tail(replies)
Gave(c) == \E m \in Replies : m.cmd = c /\ replies' = Append(replies, m)
Left == inbox[1] # <<>> /\ inbox'[1] = Tail(inbox[1])

PathStep ==
    \/ UNCHANGED busyCmd /\ (UNCHANGED replies \/ Took) /\ \E t : Asked(t)
    \/ UNCHANGED <<busyCmd, replies>> /\ Left
    \/ UNCHANGED busyCmd /\ Left /\ busyCmd[1] = NoCommand /\ Gave(Head(inbox[1]))
    \/ /\ UNCHANGED replies /\ Left /\ busyCmd[1] = NoCommand
       /\ busyCmd'[1] = Head(inbox[1]) /\ Head(inbox[1]).kind = "START"
    \/ UNCHANGED inbox /\ busyCmd[1] # NoCommand /\ busyCmd'[1] = NoCommand /\ Gave(busyCmd[1])

\* The first session's queues.
LEMMA PathTypes ==
  ASSUME TypeOK, MaxEpoch = 1
  PROVE  /\ inbox[1] \in Seq(Commands) /\ busyCmd[1] \in Commands /\ session.seq \in Nat
         /\ Answered \in Seq(Commands) /\ Len(Answered) = Len(replies)
         /\ \A n \in 1..Len(replies) : Answered[n] = replies[n].cmd
         /\ epoch \in {0, 1} /\ DOMAIN inbox = {1} /\ DOMAIN busyCmd = {1}
  <1>1. replies \in Seq(Replies) /\ Len(replies) \in Nat
    BY DEF TypeOK
  <1>2. \A n \in 1..Len(replies) : replies[n].cmd \in Commands
    <2>1. \A n \in 1..Len(replies) : replies[n] \in Replies
      BY <1>1
    <2>2. \A m \in Replies : m.cmd \in Commands
      BY DEF Replies
    <2>. QED
      BY <2>1, <2>2
  <1>3. inbox[1] \in Seq(Commands) /\ busyCmd[1] \in Commands /\ epoch \in {0, 1}
    BY DEF TypeOK
  <1>4. DOMAIN inbox = {1} /\ DOMAIN busyCmd = {1} /\ session.seq \in Nat
    BY DEF TypeOK
  <1>5. Answered \in Seq(Commands) /\ Len(Answered) = Len(replies)
    BY <1>1, <1>2 DEF Answered
  <1>. QED
    BY <1>3, <1>4, <1>5 DEF Answered

\* What is taken is taken from the answers.
LEMMA TookOf ==
  ASSUME TypeOK, TypeOK', MaxEpoch = 1, Took
  PROVE  /\ Answered # <<>> /\ Answered' = Tail(Answered) /\ Head(Answered) = replies[1].cmd
         /\ \A n \in 1..Len(replies') : n + 1 \in 1..Len(replies) /\ replies'[n] = replies[n + 1]
  <1>1. /\ replies \in Seq(Replies) /\ Len(replies) \in Nat /\ Len(replies) > 0
        /\ Len(replies') = Len(replies) - 1
        /\ \A n \in 1..Len(replies) - 1 : replies'[n] = replies[n + 1]
    <2>1. replies \in Seq(Replies) /\ replies # <<>> /\ replies' = Tail(replies)
      BY DEF TypeOK, Took
    <2>. QED
      BY <2>1, SequenceOf
  <1>2. Answered \in Seq(Commands) /\ Len(Answered) = Len(replies)
        /\ \A n \in 1..Len(replies) : Answered[n] = replies[n].cmd
    BY PathTypes
  <1>3. PICK t : t = Tail(Answered)
    OBVIOUS
  <1>4. /\ Answered # <<>> /\ Head(Answered) = Answered[1] /\ t \in Seq(Commands)
        /\ Len(t) = Len(replies) - 1
        /\ \A n \in 1..Len(replies) - 1 : t[n] = Answered[n + 1]
    <2>1. Answered # <<>>
      BY <1>1, <1>2
    <2>. QED
      BY <1>2, <1>3, <2>1, SequenceOf
  <1>5. t = Answered'
    <2>1. t = [n \in 1..Len(t) |-> t[n]] /\ Len(t) = Len(replies')
      BY <1>1, <1>4
    <2>2. \A n \in 1..Len(replies') : t[n] = replies'[n].cmd
      BY <1>1, <1>2, <1>4
    <2>. QED
      BY <2>1, <2>2 DEF Answered
  <1>6. \A n \in 1..Len(replies') : n + 1 \in 1..Len(replies) /\ replies'[n] = replies[n + 1]
    BY <1>1
  <1>7. Head(Answered) = replies[1].cmd
    BY <1>1, <1>2, <1>4
  <1>. QED
    BY <1>3, <1>4, <1>5, <1>6, <1>7

\* What is given joins them.
LEMMA GaveOf ==
  ASSUME TypeOK, TypeOK', MaxEpoch = 1, NEW m \in Replies, replies' = Append(replies, m)
  PROVE  /\ Answered' = Append(Answered, m.cmd) /\ m.cmd \in Commands
         /\ Len(replies') = Len(replies) + 1 /\ replies'[Len(replies) + 1] = m
         /\ \A n \in 1..Len(replies) : replies'[n] = replies[n] /\ n \in 1..Len(replies')
         /\ \A n \in 1..Len(replies') : n = Len(replies) + 1 \/ n \in 1..Len(replies)
         /\ Len(replies) \in Nat
  <1>1. /\ replies \in Seq(Replies) /\ Len(replies) \in Nat
        /\ Len(replies') = Len(replies) + 1 /\ replies'[Len(replies) + 1] = m
        /\ \A n \in 1..Len(replies) : replies'[n] = replies[n]
    <2>1. replies \in Seq(Replies)
      BY DEF TypeOK
    <2>. QED
      BY <2>1, SequenceOf
  <1>2. m.cmd \in Commands
    BY DEF Replies
  <1>3. Answered \in Seq(Commands) /\ Len(Answered) = Len(replies)
        /\ \A n \in 1..Len(replies) : Answered[n] = replies[n].cmd
    BY PathTypes
  <1>4. PICK a : a = Append(Answered, m.cmd)
    OBVIOUS
  <1>5. /\ a \in Seq(Commands) /\ Len(a) = Len(replies) + 1 /\ a[Len(replies) + 1] = m.cmd
        /\ \A n \in 1..Len(replies) : a[n] = Answered[n]
    BY <1>2, <1>3, <1>4, SequenceOf
  <1>6. \A n \in 1..Len(replies') : n = Len(replies) + 1 \/ n \in 1..Len(replies)
    BY <1>1
  <1>7. \A n \in 1..Len(replies') : a[n] = replies'[n].cmd
    BY <1>1, <1>3, <1>5, <1>6
  <1>8. a = [n \in 1..Len(a) |-> a[n]] /\ Len(a) = Len(replies')
    BY <1>1, <1>5
  <1>9. a = Answered'
    BY <1>7, <1>8 DEF Answered
  <1>10. \A n \in 1..Len(replies) : n \in 1..Len(replies')
    BY <1>1
  <1>. QED
    BY <1>1, <1>2, <1>4, <1>6, <1>9, <1>10

\* The path holds no runtime command.
LEMMA NothingUnderway ==
  ASSUME TypeOK, MaxEpoch = 1, PathInOrder
  PROVE  Underway = {} <=> NoRuntime(inbox[1]) /\ NoRuntime(Answered) /\ busyCmd[1] = NoCommand
  <1>1. /\ inbox[1] \in Seq(Commands) /\ busyCmd[1] \in Commands
        /\ Len(Answered) = Len(replies) /\ Answered \in Seq(Commands)
        /\ \A n \in 1..Len(replies) : Answered[n] = replies[n].cmd
    BY PathTypes
  <1>2. ASSUME NoRuntime(inbox[1]), NoRuntime(Answered), busyCmd[1] = NoCommand,
               NEW c \in Underway
        PROVE  FALSE
    <2>1. ~IsRuntime(busyCmd[1])
      BY <1>2 DEF NoCommand, Command, IsRuntime
    <2>. QED
      BY <1>1, <1>2, <2>1 DEF Underway, NoRuntime
  <1>3. ASSUME Underway = {} PROVE NoRuntime(inbox[1])
    BY <1>1, <1>3 DEF Underway, NoRuntime
  <1>4. ASSUME Underway = {} PROVE NoRuntime(Answered)
    BY <1>1, <1>4 DEF Underway, NoRuntime
  <1>5. ASSUME Underway = {} PROVE busyCmd[1] = NoCommand
    <2>1. ~IsRuntime(busyCmd[1])
      BY <1>1, <1>5 DEF Underway
    <2>. QED
      BY <2>1 DEF PathInOrder, IsRuntime
  <1>. QED
    BY <1>2, <1>3, <1>4, <1>5

\* What the steps of the path leave underway.
LEMMA PathLeaves ==
  ASSUME TypeOK, TypeOK', MaxEpoch = 1, PathInOrder, PathStep
  PROVE  Underway' \subseteq Underway
  <1>1. /\ inbox[1] \in Seq(Commands) /\ busyCmd[1] \in Commands
        /\ replies \in Seq(Replies)
    BY PathTypes DEF TypeOK
  <1>2. UNCHANGED inbox \/ (\E t : Asked(t)) \/ Left
    BY DEF PathStep
  <1>3. ASSUME NEW c, IsRuntime(c), NEW n \in 1..Len(inbox'[1]), inbox'[1][n] = c
        PROVE  \E m \in 1..Len(inbox[1]) : inbox[1][m] = c
    <2>1. CASE UNCHANGED inbox
      BY <1>3, <2>1
    <2>2. ASSUME NEW t, Asked(t) PROVE \E m \in 1..Len(inbox[1]) : inbox[1][m] = c
      <3>1. /\ t \in Seq(Commands) /\ inbox'[1] = inbox[1] \o t
            /\ \A k \in 1..Len(t) : t[k].kind \in Queries
        BY <2>2 DEF Asked
      <3>2. PICK q : q = inbox[1]
        OBVIOUS
      <3>3. /\ Len(inbox'[1]) = Len(q) + Len(t) /\ Len(q) \in Nat /\ Len(t) \in Nat
            /\ \A k \in 1..Len(q) : inbox'[1][k] = q[k]
            /\ \A k \in 1..Len(t) : inbox'[1][Len(q) + k] = t[k]
        <4>1. q \in Seq(Commands) /\ Len(q) \in Nat /\ Len(t) \in Nat
          BY <1>1, <3>1, <3>2
        <4>2. /\ Len(q \o t) = Len(q) + Len(t)
              /\ \A k \in 1..Len(q) : (q \o t)[k] = q[k]
              /\ \A k \in 1..Len(t) : (q \o t)[Len(q) + k] = t[k]
          BY <3>1, <4>1, JoinOf
        <4>. QED
          BY <3>1, <3>2, <4>1, <4>2
      <3>4. n \in 1..Len(q)
        <4>1. ASSUME n \notin 1..Len(q) PROVE FALSE
          <5>1. n - Len(q) \in 1..Len(t) /\ Len(q) + (n - Len(q)) = n
            BY <3>3, <4>1
          <5>2. PICK k \in 1..Len(t) : Len(q) + k = n
            BY <5>1
          <5>3. c = t[k]
            BY <1>3, <3>3, <5>2
          <5>. QED
            BY <1>3, <3>1, <5>3 DEF IsRuntime, Queries
        <4>. QED
          BY <4>1
      <3>. QED
        BY <1>3, <3>2, <3>3, <3>4
    <2>3. CASE Left
      <3>1. /\ Len(inbox'[1]) = Len(inbox[1]) - 1 /\ Len(inbox[1]) \in Nat
            /\ \A k \in 1..Len(inbox[1]) - 1 : inbox'[1][k] = inbox[1][k + 1]
        BY <1>1, <2>3, SequenceOf DEF Left
      <3>2. n + 1 \in 1..Len(inbox[1]) /\ inbox'[1][n] = inbox[1][n + 1]
        BY <3>1
      <3>. QED
        BY <1>3, <3>2
    <2>. QED
      BY <1>2, <2>1, <2>2, <2>3
  <1>4. ASSUME NEW c, IsRuntime(c), c = busyCmd'[1] PROVE c \in Underway
    <2>1. CASE busyCmd'[1] = busyCmd[1]
      BY <1>4, <2>1 DEF Underway
    <2>2. CASE busyCmd'[1] = NoCommand
      BY <1>4, <2>2 DEF NoCommand, Command, IsRuntime
    <2>3. CASE Left /\ busyCmd'[1] = Head(inbox[1])
      <3>1. Len(inbox[1]) \in Nat /\ Len(inbox[1]) > 0 /\ Head(inbox[1]) = inbox[1][1]
        BY <1>1, <2>3, SequenceOf DEF Left
      <3>2. 1 \in 1..Len(inbox[1]) /\ inbox[1][1] = c
        BY <1>4, <2>3, <3>1
      <3>. QED
        BY <1>4, <3>2 DEF Underway
    <2>. QED
      BY <2>1, <2>2, <2>3 DEF PathStep
  <1>5. ASSUME NEW c, IsRuntime(c), NEW n \in 1..Len(replies'), replies'[n].cmd = c
        PROVE  c \in Underway
    <2>1. CASE UNCHANGED replies
      BY <1>5, <2>1 DEF Underway
    <2>2. CASE Took
      BY <1>5, <2>2, TookOf DEF Underway
    <2>3. ASSUME NEW d \in Commands, Gave(d), IsRuntime(d) => d \in Underway
          PROVE  c \in Underway
      <3>1. PICK m \in Replies : m.cmd = d /\ replies' = Append(replies, m)
        BY <2>3 DEF Gave
      <3>2. /\ n = Len(replies) + 1 \/ n \in 1..Len(replies)
            /\ replies'[Len(replies) + 1] = m
            /\ \A k \in 1..Len(replies) : replies'[k] = replies[k]
        BY <3>1, GaveOf
      <3>3. CASE n = Len(replies) + 1
        BY <1>5, <2>3, <3>1, <3>2, <3>3
      <3>4. CASE n \in 1..Len(replies)
        BY <1>5, <3>2, <3>4 DEF Underway
      <3>. QED
        BY <3>2, <3>3, <3>4
    <2>4. CASE Left /\ Gave(Head(inbox[1]))
      <3>1. Len(inbox[1]) \in Nat /\ Len(inbox[1]) > 0 /\ Head(inbox[1]) = inbox[1][1]
            /\ Head(inbox[1]) \in Commands
        BY <1>1, <2>4, SequenceOf DEF Left
      <3>2. 1 \in 1..Len(inbox[1])
        BY <3>1
      <3>3. IsRuntime(Head(inbox[1])) => Head(inbox[1]) \in Underway
        BY <3>1, <3>2 DEF Underway
      <3>. QED
        BY <2>3, <2>4, <3>1, <3>3
    <2>5. CASE Gave(busyCmd[1])
      <3>1. IsRuntime(busyCmd[1]) => busyCmd[1] \in Underway
        BY <1>1 DEF Underway
      <3>. QED
        BY <1>1, <2>3, <2>5, <3>1
    <2>. QED
      BY <2>1, <2>2, <2>4, <2>5 DEF PathStep
  <1>6. ASSUME NEW c \in Underway' PROVE c \in Underway
    <2>1. /\ IsRuntime(c)
          /\ \/ c = busyCmd'[1]
             \/ \E n \in 1..Len(inbox'[1]) : inbox'[1][n] = c
             \/ \E n \in 1..Len(replies') : replies'[n].cmd = c
      BY <1>6 DEF Underway
    <2>2. CASE \E n \in 1..Len(inbox'[1]) : inbox'[1][n] = c
      <3>1. \E m \in 1..Len(inbox[1]) : inbox[1][m] = c
        BY <1>3, <2>1, <2>2
      <3>. QED
        BY <2>1, <3>1 DEF Underway
    <2>. QED
      BY <1>4, <1>5, <2>1, <2>2
  <1>. QED
    BY <1>6

\* They keep its order.
LEMMA PathKept ==
  ASSUME TypeOK, TypeOK', MaxEpoch = 1, PathInOrder, PathStep, session'.seq = session.seq
  PROVE  PathInOrder'
  <1>. DEFINE seq == session.seq
  <1>1. /\ inbox[1] \in Seq(Commands) /\ busyCmd[1] \in Commands
        /\ Answered \in Seq(Commands) /\ seq \in Nat
    BY PathTypes
  <1>2. InOrder(inbox[1], seq) /\ ListsAsked(inbox[1], seq)
        /\ InOrder(Answered, seq) /\ ListsAsked(Answered, seq)
    BY DEF PathInOrder
  <1>. HIDE DEF seq
  <1>3. ASSUME NEW q \in Seq(Commands), q # <<>>, ListsAsked(q, seq)
        PROVE  /\ ListsAsked(Tail(q), seq)
               /\ Head(q) \in Commands
               /\ Head(q).kind = "executions" => Head(q).seq <= seq
               /\ NoRuntime(q) => ~IsRuntime(Head(q))
               /\ NoLateList(q, seq) => ~Late(Head(q), seq)
    <2>1. PICK p : p = Tail(q)
      OBVIOUS
    <2>2. /\ Len(q) \in Nat /\ Len(q) > 0 /\ Len(p) = Len(q) - 1 /\ Head(q) = q[1]
          /\ \A n \in 1..Len(q) - 1 : p[n] = q[n + 1]
          /\ Head(q) \in Commands
      BY <1>3, <2>1, SequenceOf
    <2>3. \A n \in 1..Len(p) : n + 1 \in 1..Len(q) /\ p[n] = q[n + 1]
      BY <2>2
    <2>4. ListsAsked(p, seq)
      BY <1>3, <2>3 DEF ListsAsked
    <2>5. 1 \in 1..Len(q)
      BY <2>2
    <2>. QED
      BY <1>3, <2>1, <2>2, <2>4, <2>5 DEF ListsAsked, NoRuntime, NoLateList
  <1>4. ASSUME Left
        PROVE  /\ InOrder(inbox'[1], seq) /\ ListsAsked(inbox'[1], seq)
               /\ NoRuntime(inbox[1]) => NoRuntime(inbox'[1])
               /\ IsRuntime(Head(inbox[1])) \/ Late(Head(inbox[1]), seq) => NoRuntime(inbox'[1])
               /\ Head(inbox[1]) \in Commands
               /\ Head(inbox[1]).kind = "executions" => Head(inbox[1]).seq <= seq
               /\ NoRuntime(inbox[1]) => ~IsRuntime(Head(inbox[1]))
    BY <1>1, <1>2, <1>3, <1>4, LeavesInOrder DEF Left
  <1>5. ASSUME NEW t, Asked(t)
        PROVE  /\ InOrder(inbox'[1], seq) /\ ListsAsked(inbox'[1], seq)
               /\ NoRuntime(inbox[1]) => NoRuntime(inbox'[1])
    <2>1. /\ t \in Seq(Commands) /\ inbox'[1] = inbox[1] \o t
          /\ \A k \in 1..Len(t) : t[k].kind \in Queries
          /\ \A k \in 1..Len(t) : t[k].kind = "executions" => t[k].seq = seq
      BY <1>5 DEF Asked, seq
    <2>2. PICK q : q = inbox[1]
      OBVIOUS
    <2>3. PICK p : p = q \o t
      OBVIOUS
    <2>4. q \in Seq(Commands) /\ InOrder(q, seq) /\ ListsAsked(q, seq)
      BY <1>1, <1>2, <2>2
    <2>5. InOrder(p, seq) /\ (NoRuntime(q) => NoRuntime(p))
      BY <1>1, <2>1, <2>3, <2>4, QueriesInOrder
    <2>6. /\ Len(p) = Len(q) + Len(t) /\ Len(q) \in Nat /\ Len(t) \in Nat
          /\ \A k \in 1..Len(q) : p[k] = q[k]
          /\ \A k \in 1..Len(t) : p[Len(q) + k] = t[k]
      BY <2>1, <2>3, <2>4, JoinOf
    <2>7. ASSUME NEW n \in 1..Len(p), p[n].kind = "executions"
          PROVE  p[n].seq <= seq
      <3>1. CASE n \in 1..Len(q)
        BY <2>4, <2>6, <2>7, <3>1 DEF ListsAsked
      <3>2. CASE n \notin 1..Len(q)
        <4>1. n - Len(q) \in 1..Len(t) /\ Len(q) + (n - Len(q)) = n
          BY <2>6, <3>2
        <4>2. PICK k \in 1..Len(t) : Len(q) + k = n
          BY <4>1
        <4>3. p[n] = t[k]
          BY <2>6, <4>2
        <4>. QED
          BY <1>1, <2>1, <2>7, <4>3
      <3>. QED
        BY <3>1, <3>2
    <2>. QED
      BY <2>1, <2>2, <2>3, <2>5, <2>7 DEF ListsAsked
  <1>6. ASSUME Took
        PROVE  /\ InOrder(Answered', seq) /\ ListsAsked(Answered', seq)
               /\ NoRuntime(Answered) => NoRuntime(Answered')
               /\ NoLateList(Answered, seq) => NoLateList(Answered', seq)
    <2>1. Answered # <<>> /\ Answered' = Tail(Answered)
      BY <1>6, TookOf
    <2>2. PICK q : q = Answered
      OBVIOUS
    <2>3. q \in Seq(Commands) /\ q # <<>> /\ InOrder(q, seq) /\ ListsAsked(q, seq)
      BY <1>1, <1>2, <2>1, <2>2
    <2>4. /\ InOrder(Tail(q), seq) /\ ListsAsked(Tail(q), seq)
          /\ NoRuntime(q) => NoRuntime(Tail(q))
          /\ NoLateList(q, seq) => NoLateList(Tail(q), seq)
      BY <1>1, <1>3, <2>3, LeavesInOrder
    <2>. QED
      BY <2>1, <2>2, <2>4
  <1>7. ASSUME NEW c \in Commands, Gave(c), IsRuntime(c) => NoRuntime(Answered) /\ NoLateList(Answered, seq),
               c.kind = "executions" => c.seq <= seq
        PROVE  InOrder(Answered', seq) /\ ListsAsked(Answered', seq)
    <2>1. PICK m \in Replies : m.cmd = c /\ replies' = Append(replies, m)
      BY <1>7 DEF Gave
    <2>2. Answered' = Append(Answered, c)
      BY <2>1, GaveOf
    <2>3. PICK q : q = Answered
      OBVIOUS
    <2>4. q \in Seq(Commands) /\ InOrder(q, seq) /\ ListsAsked(q, seq)
      BY <1>1, <1>2, <2>3
    <2>5. PICK p : p = Append(q, c)
      OBVIOUS
    <2>6. InOrder(p, seq)
      BY <1>1, <1>7, <2>3, <2>4, <2>5, JoinsInOrder
    <2>7. /\ Len(p) = Len(q) + 1 /\ p[Len(q) + 1] = c /\ Len(q) \in Nat
          /\ \A n \in 1..Len(q) : p[n] = q[n]
      BY <2>4, <2>5, SequenceOf
    <2>8. \A n \in 1..Len(p) : n \in 1..Len(q) \/ n = Len(q) + 1
      BY <2>7
    <2>9. ListsAsked(p, seq)
      BY <1>7, <2>4, <2>7, <2>8 DEF ListsAsked
    <2>. QED
      BY <2>2, <2>3, <2>5, <2>6, <2>9
  <1>8. ASSUME NEW c \in Commands, Gave(c), ~IsRuntime(c), NoRuntime(Answered)
        PROVE  NoRuntime(Answered') /\ (NoLateList(Answered, seq) /\ ~Late(c, seq) => NoLateList(Answered', seq))
    <2>1. PICK m \in Replies : m.cmd = c /\ replies' = Append(replies, m)
      BY <1>8 DEF Gave
    <2>2. PICK q : q = Answered
      OBVIOUS
    <2>3. PICK p : p = Append(q, c)
      OBVIOUS
    <2>4. Answered' = p /\ q \in Seq(Commands)
      BY <1>1, <2>1, <2>2, <2>3, GaveOf
    <2>5. /\ Len(p) = Len(q) + 1 /\ p[Len(q) + 1] = c /\ Len(q) \in Nat
          /\ \A n \in 1..Len(q) : p[n] = q[n]
      BY <2>3, <2>4, SequenceOf
    <2>6. \A n \in 1..Len(p) : n \in 1..Len(q) \/ n = Len(q) + 1
      BY <2>5
    <2>. QED
      BY <1>8, <2>2, <2>4, <2>5, <2>6 DEF NoRuntime, NoLateList
  <1>9. /\ \/ NoRuntime(inbox[1]) /\ busyCmd[1] = NoCommand
           \/ NoRuntime(Answered) /\ NoLateList(Answered, seq)
        /\ NoRuntime(inbox[1]) \/ busyCmd[1] = NoCommand
        /\ busyCmd[1] = NoCommand \/ busyCmd[1].kind = "START"
    BY DEF PathInOrder, seq
  <1>10. SUFFICES /\ InOrder(Answered', seq) /\ ListsAsked(Answered', seq)
                  /\ InOrder(inbox'[1], seq) /\ ListsAsked(inbox'[1], seq)
                  /\ \/ NoRuntime(inbox'[1]) /\ busyCmd'[1] = NoCommand
                     \/ NoRuntime(Answered') /\ NoLateList(Answered', seq)
                  /\ NoRuntime(inbox'[1]) \/ busyCmd'[1] = NoCommand
                  /\ busyCmd'[1] = NoCommand \/ busyCmd'[1].kind = "START"
    BY DEF PathInOrder, seq
  <1>11. CASE UNCHANGED busyCmd /\ (UNCHANGED replies \/ Took) /\ \E t : Asked(t)
    <2>1. /\ InOrder(Answered', seq) /\ ListsAsked(Answered', seq)
          /\ NoRuntime(Answered) => NoRuntime(Answered')
          /\ NoLateList(Answered, seq) => NoLateList(Answered', seq)
      <3>1. CASE UNCHANGED replies
        BY <1>2, <3>1 DEF Answered
      <3>2. CASE Took
        BY <1>6, <3>2
      <3>. QED
        BY <1>11, <3>1, <3>2
    <2>. QED
      BY <1>5, <1>9, <1>11, <2>1
  <1>12. CASE UNCHANGED <<busyCmd, replies>> /\ Left
    <2>1. Answered' = Answered
      BY <1>12 DEF Answered
    <2>. QED
      BY <1>2, <1>4, <1>9, <1>12, <2>1
  <1>13. CASE UNCHANGED busyCmd /\ Left /\ busyCmd[1] = NoCommand /\ Gave(Head(inbox[1]))
    <2>1. PICK c \in Commands : c = Head(inbox[1])
      BY <1>4, <1>13
    <2>2. /\ InOrder(inbox'[1], seq) /\ ListsAsked(inbox'[1], seq)
          /\ NoRuntime(inbox[1]) => NoRuntime(inbox'[1]) /\ ~IsRuntime(c)
          /\ IsRuntime(c) \/ Late(c, seq) => NoRuntime(inbox'[1])
          /\ c.kind = "executions" => c.seq <= seq
      BY <1>4, <1>13, <2>1
    <2>3. IsRuntime(c) => NoRuntime(Answered) /\ NoLateList(Answered, seq)
      BY <1>9, <2>2
    <2>4. InOrder(Answered', seq) /\ ListsAsked(Answered', seq)
      BY <1>7, <1>13, <2>1, <2>2, <2>3
    <2>5. NoRuntime(inbox'[1]) \/ (NoRuntime(Answered') /\ NoLateList(Answered', seq))
      <3>1. CASE NoRuntime(inbox[1]) \/ IsRuntime(c) \/ Late(c, seq)
        BY <2>2, <3>1
      <3>2. CASE ~NoRuntime(inbox[1]) /\ ~IsRuntime(c) /\ ~Late(c, seq)
        <4>1. NoRuntime(Answered) /\ NoLateList(Answered, seq)
          BY <1>9, <3>2
        <4>2. Gave(c)
          BY <1>13, <2>1
        <4>. QED
          BY <1>8, <3>2, <4>1, <4>2
      <3>. QED
        BY <3>1, <3>2
    <2>. QED
      BY <1>13, <2>2, <2>4, <2>5
  <1>14. CASE /\ UNCHANGED replies /\ Left /\ busyCmd[1] = NoCommand
              /\ busyCmd'[1] = Head(inbox[1]) /\ Head(inbox[1]).kind = "START"
    <2>1. Answered' = Answered /\ IsRuntime(Head(inbox[1]))
      BY <1>14 DEF Answered, IsRuntime
    <2>. QED
      BY <1>2, <1>4, <1>9, <1>14, <2>1
  <1>15. CASE /\ UNCHANGED inbox /\ busyCmd[1] # NoCommand /\ busyCmd'[1] = NoCommand
              /\ Gave(busyCmd[1])
    <2>1. NoRuntime(inbox[1]) /\ NoRuntime(Answered) /\ NoLateList(Answered, seq)
      BY <1>9, <1>15
    <2>2. busyCmd[1].kind # "executions"
      BY <1>9, <1>15
    <2>3. InOrder(Answered', seq) /\ ListsAsked(Answered', seq)
      BY <1>1, <1>7, <1>15, <2>1, <2>2
    <2>. QED
      BY <1>2, <1>15, <2>1, <2>3
  <1>. QED
    BY <1>11, <1>12, <1>13, <1>14, <1>15 DEF PathStep

\* A runtime command, or a list asked for after it, is the last on the path.
LEMMA TookLast ==
  ASSUME TypeOK, TypeOK', MaxEpoch = 1, PathInOrder, session'.seq = session.seq, Took,
         UNCHANGED busyCmd, NEW t, Asked(t),
         IsRuntime(replies[1].cmd) \/ Late(replies[1].cmd, session.seq)
  PROVE  Underway' = {}
  <1>1. PathStep
    BY DEF PathStep
  <1>2. PathInOrder'
    BY <1>1, PathKept
  <1>3. /\ Answered # <<>> /\ Answered' = Tail(Answered) /\ Head(Answered) = replies[1].cmd
        /\ Answered \in Seq(Commands) /\ inbox[1] \in Seq(Commands) /\ session.seq \in Nat
    BY TookOf, PathTypes
  <1>4. PICK q : q = Answered
    OBVIOUS
  <1>5. /\ q \in Seq(Commands) /\ q # <<>> /\ InOrder(q, session.seq)
        /\ IsRuntime(Head(q)) \/ Late(Head(q), session.seq)
    BY <1>3, <1>4 DEF PathInOrder
  <1>6. NoRuntime(Tail(q)) /\ ~(NoRuntime(q) /\ NoLateList(q, session.seq))
    <2>1. NoRuntime(Tail(q))
      BY <1>3, <1>5, LeavesInOrder
    <2>2. 1 \in 1..Len(q) /\ Head(q) = q[1]
      BY <1>5, SequenceOf
    <2>. QED
      BY <1>5, <2>1, <2>2 DEF NoRuntime, NoLateList
  <1>7. NoRuntime(inbox[1]) /\ busyCmd[1] = NoCommand
    BY <1>4, <1>6 DEF PathInOrder
  <1>8. NoRuntime(inbox'[1])
    <2>1. /\ t \in Seq(Commands) /\ inbox'[1] = inbox[1] \o t
          /\ \A k \in 1..Len(t) : t[k].kind \in Queries
      BY DEF Asked
    <2>2. PICK p : p = inbox[1]
      OBVIOUS
    <2>3. p \in Seq(Commands) /\ InOrder(p, session.seq) /\ NoRuntime(p)
      BY <1>3, <1>7, <2>2 DEF PathInOrder
    <2>4. NoRuntime(p \o t)
      BY <1>3, <2>1, <2>3, QueriesInOrder
    <2>. QED
      BY <2>1, <2>2, <2>4
  <1>9. NoRuntime(Answered')
    BY <1>3, <1>4, <1>6
  <1>10. ASSUME NEW c \in Underway' PROVE FALSE
    <2>1. ~IsRuntime(busyCmd'[1])
      BY <1>7 DEF NoCommand, Command, IsRuntime
    <2>2. \A n \in 1..Len(inbox'[1]) : ~IsRuntime(inbox'[1][n])
      BY <1>8 DEF NoRuntime
    <2>3. Len(Answered') = Len(replies') /\ \A n \in 1..Len(replies') : Answered'[n] = replies'[n].cmd
      <3>1. replies' \in Seq(Replies) /\ Len(replies') \in Nat
        BY DEF TypeOK
      <3>. QED
        BY <3>1 DEF Answered
    <2>4. \A n \in 1..Len(replies') : ~IsRuntime(replies'[n].cmd)
      BY <1>9, <2>3 DEF NoRuntime
    <2>. QED
      BY <1>10, <2>1, <2>2, <2>4 DEF Underway
  <1>. QED
    BY <1>10

(***************************************************************************)
(* What holds of the session, its keys, its workers and what is known.     *)
(***************************************************************************)

\* The one session there is never ends, and no hold is set.
SessionQuiet ==
    /\ session.state \in {"none", "hello", "open"} /\ ~session.revoked
    /\ (epoch = 0 <=> session.state = "none") /\ (link <=> epoch = 1)
    /\ holdCall.pc = "idle" /\ holdInbox = NoCommand
    /\ session.state # "open" => obs = NoEntry
    /\ session.state = "open" => obs.epoch = 1 /\ obs.connected
    /\ \A r \in Worker : worker[r].pc # "idle" => session.ready /\ worker[r].key.epoch = 1

\* Nothing is dispatched before the first list of executions.
FreshFirst ==
    "executions" \notin obs.fresh =>
       /\ inFlight = {} /\ Underway = {} /\ \A c \in pending : ~IsRuntime(c)
       /\ \A r \in Worker : worker[r].pc = "idle"

\* What is underway is the last dispatch, no list after it has come in, and its
\* key is in flight.
PathKeys ==
    /\ obs.seq <= session.seq
    /\ \A c \in Underway :
          /\ c.seq = session.seq /\ obs.seq < session.seq
          /\ \E f \in inFlight : f.key = Key(c.kind, c.id, 1)

\* No other execution runs on what i claims.
Clear(i) == \A j \in Id \ {i} : Overlap(i[1], j[1]) => agent.exec[j] # "RUNNING"

\* One key at most, of a workload there is, which still may or must do as it says.
OneKey ==
    \A f \in inFlight :
       /\ f.key.epoch = 1 /\ f.key.act \in {"START", "STOP"} /\ f.key.id \in snaps
       /\ desired[f.key.id[1]].exists
       /\ \/ f.seq = session.seq
          \/ f.seq = 0 /\ \E r \in Worker : worker[r].pc # "idle" /\ worker[r].key = f.key
       /\ f.key.act = "STOP" => ~RequestStillCurrent(f.key.id)
       /\ f.key.act = "START" => Clear(f.key.id)
       /\ \A g \in inFlight : f = g

\* A status that the action leaves, or that the other one would have to change.
Agrees(act, status) == IF act = "START" THEN HoldsResources(status) ELSE ~HoldsResources(status)

Lists(n) == replies[n].cmd.kind = "executions"

\* All that is or will be known of the execution says that the action is done.
Confirmed(k) ==
    /\ Agrees(k.act, obs.execs[k.id]) /\ Agrees(k.act, agent.exec[k.id])
    /\ \A n \in 1..Len(replies) : Lists(n) => Agrees(k.act, replies[n].execs[k.id])

\* No plan asks for the action any more.
Finished(k) ==
    /\ k.act \in {"START", "STOP"} /\ k.id \in snaps
    /\ k.act = "START" => \/ ~RequestStillCurrent(k.id)
                          \/ desired[k.id[1]].blocked = k.id[2]
                          \/ Confirmed(k)
    /\ k.act = "STOP" => /\ ~RequestStillCurrent(k.id) /\ Confirmed(k)
                         /\ Key("START", k.id, 1) \notin Keys

\* The worker's key is in flight without a dispatch sequence, and no other worker's.
Holds(r) ==
    /\ [key |-> worker[r].key, seq |-> 0] \in inFlight
    /\ \A q \in Worker \ {r} : worker[q].pc # "idle" => worker[q].key # worker[r].key

\* A worker has its key, or comes too late for a key that was resolved.
WorkersQuiet ==
    \A r \in Worker :
       /\ worker[r].pc \in {"reserved", "send"} => Holds(r) /\ Underway = {}
       /\ worker[r].pc = "sent" =>
             \/ Holds(r) /\ worker[r].seq = session.seq /\ session.seq > 0
             \/ worker[r].key \notin Keys /\ Finished(worker[r].key)

\* A START of j that was dispatched, and may have been carried out since the last list.
StartOut(j) ==
    /\ obs.seq < session.seq
    /\ \E f \in inFlight :
          /\ f.key = Key("START", j, 1)
          /\ \A r \in Worker : worker[r].pc \in {"reserved", "send"} => worker[r].key # f.key

\* The Controller knows of every live execution, or of the START that made it.
SeenLive ==
    "executions" \in obs.fresh =>
       \A j \in Id : agent.exec[j] = "RUNNING" => obs.execs[j] = "RUNNING" \/ StartOut(j)

\* So does every list on its way, or the answer to the START is behind it.
ListsLive ==
    \A n \in 1..Len(replies) : Lists(n) =>
       \A j \in Id : agent.exec[j] = "RUNNING" =>
          \/ replies[n].execs[j] = "RUNNING"
          \/ \E m \in 1..Len(replies) :
                n < m /\ replies[m].cmd.kind = "START" /\ replies[m].cmd.id = j

\* An outcome on its way is still so, and the lists behind it say the same.
OutcomesTrue ==
    \A n \in 1..Len(replies) :
       /\ replies[n].outcome = "rejected" =>
             replies[n].cmd.kind = "START" /\ agent.exec[replies[n].cmd.id] # "RUNNING"
       /\ replies[n].outcome = "RUNNING" => replies[n].cmd.kind = "START"
       /\ replies[n].outcome = "STOPPED" => replies[n].cmd.kind = "STOP"
       /\ replies[n].outcome \in {"RUNNING", "STOPPED"} =>
             /\ Agrees(replies[n].cmd.kind, agent.exec[replies[n].cmd.id])
             /\ \A l \in 1..Len(replies) :
                   n < l /\ Lists(l) => Agrees(replies[n].cmd.kind, replies[l].execs[replies[n].cmd.id])

\* Snapshots are of generations there have been, live executions have one unless
\* they come from the discarded history.
SnapsKnown ==
    /\ \A i \in snaps : 1 <= i[2] /\ i[2] <= desired[i[1]].gen
    /\ \A i \in Id : agent.exec[i] = "RUNNING" /\ i[2] > 0 => i \in snaps

\* The barrier and the executions of deleted workloads, as far as they are in the state.
BarrierStands ==
    /\ barrier # "NONE" => inFlight = {}
    /\ \A w \in Workload : agent.exec[<<w, 0>>] = "RUNNING" => barrier # "NONE"
DeletedDead ==
    \A w \in Workload : ~desired[w].exists =>
       \A i \in Id : i[1] = w /\ i[2] > 0 => agent.exec[i] # "RUNNING"

DispatchQuiet ==
    /\ FreshFirst /\ PathKeys /\ OneKey /\ WorkersQuiet
    /\ SeenLive /\ ListsLive /\ OutcomesTrue
    /\ SnapsKnown /\ BarrierStands /\ DeletedDead /\ NoOverlap

QuietInv == SessionQuiet /\ PathInOrder /\ DispatchQuiet

\* The hold of a Host on which none is ever set.
LEMMA QuietHold ==
  ASSUME OneQuietSession, TypeOK, HoldInv
  PROVE  /\ hold.rev = 0 /\ hold.active = FALSE /\ agent.rev = 0 /\ agent.hold = FALSE
         /\ \A n \in 1..Len(inbox[1]) : inbox[1][n].kind = "hello" =>
               inbox[1][n].seq = 0 /\ inbox[1][n].active = FALSE
  <1>1. hold.rev = 0 /\ hold.active \in BOOLEAN /\ agent.rev \in Nat /\ agent.hold \in BOOLEAN
    BY DEF OneQuietSession, TypeOK
  <1>2. hold.active = FALSE
    BY <1>1 DEF HoldInv, HoldKnown
  <1>3. agent.rev = 0 /\ agent.hold = FALSE
    BY <1>1, <1>2 DEF HoldInv, HoldKnown
  <1>4. ASSUME NEW n \in 1..Len(inbox[1]), inbox[1][n].kind = "hello"
        PROVE  inbox[1][n].seq = 0 /\ inbox[1][n].active = FALSE
    <2>1. inbox[1] \in Seq(Commands)
      BY PathTypes DEF OneQuietSession
    <2>2. inbox[1][n] \in Commands
      BY <2>1
    <2>3. CarriesHold(inbox[1][n])
      BY <1>4 DEF HoldInv, HoldKnown, OneQuietSession
    <2>4. inbox[1][n].seq \in Nat /\ inbox[1][n].active \in BOOLEAN
      BY <2>2 DEF Commands
    <2>5. inbox[1][n].seq = 0
      BY <1>1, <2>3, <2>4 DEF CarriesHold
    <2>. QED
      BY <1>1, <1>2, <2>3, <2>5 DEF CarriesHold
  <1>. QED
    BY <1>1, <1>2, <1>3, <1>4

\* With a list of executions the session is open.
LEMMA FreshIsOpen ==
  ASSUME OneQuietSession, TypeOK, SessionQuiet, "executions" \in obs.fresh
  PROVE  /\ session.state = "open" /\ epoch = 1 /\ link = TRUE /\ SessionLive
         /\ obs.epoch = 1 /\ obs.connected = TRUE /\ IsCurrent(obs, epoch)
  <1>1. session.state = "open"
    BY DEF SessionQuiet, NoEntry, NewEntry
  <1>2. epoch = 1
    BY <1>1, PathTypes DEF SessionQuiet, OneQuietSession
  <1>3. link \in BOOLEAN /\ obs.connected \in BOOLEAN
    BY DEF TypeOK, Entry
  <1>. QED
    BY <1>1, <1>2, <1>3 DEF SessionQuiet, SessionLive, IsCurrent

\* A worker that is not idle.
LEMMA WorkerIsOpen ==
  ASSUME OneQuietSession, TypeOK, SessionQuiet, FreshFirst, NEW r \in Worker, worker[r].pc # "idle"
  PROVE  /\ "executions" \in obs.fresh /\ SessionFor(r)
         /\ worker[r].key.epoch = 1
  <1>1. "executions" \in obs.fresh
    BY DEF FreshFirst
  <1>2. session.ready /\ worker[r].key.epoch = 1
    BY DEF SessionQuiet
  <1>. QED
    BY <1>1, <1>2, FreshIsOpen DEF SessionFor

\* Steps of other instances.
LEMMA NeverHappens ==
  ASSUME OneQuietSession, TypeOK, HoldInv, SessionQuiet, FreshFirst
  PROVE  /\ ~(\E active \in BOOLEAN : SetMaintenanceHold(active))
         /\ ~(\E r \in Worker : SendFails(r))
         /\ ~ServerEnds /\ ~SessionDisconnected /\ ~HoldFails /\ ~HoldReturns
         /\ ~AgentHold /\ ~(\E e \in 1..MaxEpoch : AgentQuit(e))
         /\ ~LinkBreaks /\ ~AgentRestarts
  <1>1. ~(\E active \in BOOLEAN : SetMaintenanceHold(active))
    BY QuietHold DEF SetMaintenanceHold, OneQuietSession
  <1>2. ASSUME NEW r \in Worker, SendFails(r) PROVE FALSE
    <2>1. worker[r].pc = "send" /\ (SessionFor(r) => epoch < MaxEpoch)
      BY <1>2 DEF SendFails
    <2>2. "executions" \in obs.fresh /\ SessionFor(r)
      BY <2>1, WorkerIsOpen
    <2>3. epoch = 1
      BY <2>2, FreshIsOpen
    <2>. QED
      BY <2>1, <2>2, <2>3 DEF OneQuietSession
  <1>3. ~ServerEnds /\ ~SessionDisconnected
    <2>1. session.state = "open" => link
      BY PathTypes DEF SessionQuiet, OneQuietSession
    <2>. QED
      BY <2>1 DEF SessionQuiet, ServerEnds, SessionDisconnected
  <1>4. ~HoldFails /\ ~HoldReturns /\ ~AgentHold
    BY DEF SessionQuiet, HoldFails, HoldReturns, AgentHold
  <1>5. ASSUME NEW e \in 1..MaxEpoch, AgentQuit(e) PROVE FALSE
    <2>1. e = 1 /\ inbox[e] # <<>> /\ ~Connected(e)
      BY <1>5 DEF AgentQuit, OneQuietSession
    <2>2. epoch \in {0, 1} /\ (e > epoch => inbox[e] = <<>>)
      BY <1>5, PathTypes DEF HoldInv, HelloFirst, OneQuietSession
    <2>3. epoch = 1
      BY <2>1, <2>2
    <2>. QED
      BY <2>1, <2>3 DEF Connected, SessionQuiet
  <1>6. ~LinkBreaks /\ ~AgentRestarts
    <2>1. epoch \in {0, 1} /\ MaxEpoch = 1
      BY PathTypes DEF OneQuietSession
    <2>2. link => epoch = 1
      BY DEF SessionQuiet
    <2>. QED
      BY <2>1, <2>2 DEF LinkBreaks, AgentRestarts
  <1>. QED
    BY <1>1, <1>2, <1>3, <1>4, <1>5, <1>6

\* Steps that leave the session alone.
LEMMA SessionUntouched ==
  ASSUME SessionQuiet, UNCHANGED <<epoch, link, holdCall, holdInbox>>,
         session'.state = session.state, session'.revoked = session.revoked,
         session.ready => session'.ready,
         obs' = obs \/ session.state = "open", obs'.epoch = obs.epoch, obs'.connected = obs.connected,
         \A r \in Worker : worker'[r].pc # "idle" =>
            \/ worker[r].pc # "idle" /\ worker'[r].key = worker[r].key
            \/ session.ready /\ worker'[r].key.epoch = 1
  PROVE  SessionQuiet'
  <1>1. \A r \in Worker : worker'[r].pc # "idle" => session'.ready /\ worker'[r].key.epoch = 1
    BY DEF SessionQuiet
  <1>. QED
    BY <1>1 DEF SessionQuiet

\* What workers do to what is kept of them.
LEMMA WorkerUpdates ==
  ASSUME TypeOK, NEW r \in Worker
  PROVE  /\ worker' = [worker EXCEPT ![r] = IdleWorker] =>
               worker'[r].pc = "idle" /\ \A q \in Worker : q # r => worker'[q] = worker[q]
         /\ worker' = [worker EXCEPT ![r].pc = "send"] =>
               /\ worker'[r].pc = "send" /\ worker'[r].key = worker[r].key
               /\ \A q \in Worker : q # r => worker'[q] = worker[q]
         /\ worker' = [worker EXCEPT ![r].pc = "sent", ![r].seq = session.seq + 1] =>
               /\ worker'[r].pc = "sent" /\ worker'[r].key = worker[r].key
               /\ worker'[r].seq = session.seq + 1
               /\ \A q \in Worker : q # r => worker'[q] = worker[q]
  <1>1. worker \in [Worker -> WorkerRow]
    BY DEF TypeOK, WorkerRow
  <1>2. session.seq + 1 \in Nat
    BY DEF TypeOK
  <1>3. ASSUME worker' = [worker EXCEPT ![r] = IdleWorker]
        PROVE  worker'[r].pc = "idle" /\ \A q \in Worker : q # r => worker'[q] = worker[q]
    BY <1>1, <1>3 DEF IdleWorker
  <1>4. ASSUME worker' = [worker EXCEPT ![r].pc = "send"]
        PROVE  /\ worker'[r].pc = "send" /\ worker'[r].key = worker[r].key
               /\ \A q \in Worker : q # r => worker'[q] = worker[q]
    BY <1>1, <1>4 DEF WorkerRow
  <1>5. ASSUME worker' = [worker EXCEPT ![r].pc = "sent", ![r].seq = session.seq + 1]
        PROVE  /\ worker'[r].pc = "sent" /\ worker'[r].key = worker[r].key
               /\ worker'[r].seq = session.seq + 1
               /\ \A q \in Worker : q # r => worker'[q] = worker[q]
    BY <1>1, <1>2, <1>5 DEF WorkerRow
  <1>. QED
    BY <1>3, <1>4, <1>5

\* Steps of the reconcile workers.
LEMMA WorkersKeepSession ==
  ASSUME OneQuietSession, TypeOK, HoldInv, SessionQuiet, FreshFirst, NEW r \in Worker, Reconcile(r)
  PROVE  SessionQuiet'
  <1>. DEFINE Key1(q) == \/ worker[q].pc # "idle" /\ worker'[q].key = worker[q].key
                         \/ session.ready /\ worker'[q].key.epoch = 1
  <1>0. \A q \in Worker : worker' = [worker EXCEPT ![r] = IdleWorker] /\ worker'[q].pc # "idle" =>
           worker[q].pc # "idle" /\ worker'[q].key = worker[q].key
    BY WorkerUpdates
  <1>1. CASE ApplyRestoreBarrier(r) \/ \E invalid \in SUBSET Workload : PrepareBlocks(r, invalid)
    <2>1. UNCHANGED <<coordVars, sessionVars, agentVars>>
      BY <1>1 DEF ApplyRestoreBarrier, PrepareBlocks
    <2>. QED
      BY <2>1, SessionUntouched DEF coordVars, sessionVars, agentVars
  <1>2. ASSUME NEW invalid \in SUBSET Workload, PrepareDispatch(r, invalid) PROVE SessionQuiet'
    <2>1. UNCHANGED <<obs, holdCall, sessionVars, agentVars>> /\ SessionMatches
      BY <1>2 DEF PrepareDispatch
    <2>2. PICK w, i :
             worker' = [worker EXCEPT ![r] =
                          [pc |-> "reserved", key |-> Key(PlanOf(w).act, i, obs.epoch),
                           seq |-> 0, seen |-> obs]]
      BY <1>2 DEF PrepareDispatch
    <2>3. session.ready /\ obs.epoch = 1
      <3>1. session.ready /\ epoch = obs.epoch /\ session.state \in {"hello", "open"}
        BY <2>1 DEF SessionMatches, SessionLive
      <3>2. epoch \in {0, 1} /\ (epoch = 0 => session.state = "none")
        BY PathTypes DEF SessionQuiet, OneQuietSession
      <3>. QED
        BY <3>1, <3>2
    <2>4. \A q \in Worker : worker'[q].pc # "idle" => Key1(q)
      BY <2>2, <2>3, WorkerTypes DEF Key
    <2>. QED
      BY <2>1, <2>4, SessionUntouched DEF sessionVars, agentVars
  <1>3. CASE Recheck(r)
    <2>1. UNCHANGED <<obs, holdCall, sessionVars, agentVars>>
      BY <1>3 DEF Recheck
    <2>2. \/ worker' = [worker EXCEPT ![r].pc = "send"] /\ worker[r].pc # "idle"
          \/ worker' = [worker EXCEPT ![r] = IdleWorker]
      BY <1>3 DEF Recheck
    <2>3. \A q \in Worker : worker'[q].pc # "idle" => Key1(q)
      BY <1>0, <2>2, WorkerUpdates
    <2>. QED
      BY <2>1, <2>3, SessionUntouched DEF sessionVars, agentVars
  <1>4. CASE SendRuntime(r)
    <2>1. /\ UNCHANGED <<obs, holdCall, link, epoch, holdInbox>>
          /\ session' = [session EXCEPT !.seq = session.seq + 1]
          /\ worker[r].pc = "send"
          /\ worker' = [worker EXCEPT ![r].pc = "sent", ![r].seq = session.seq + 1]
      BY <1>4 DEF SendRuntime, Send
    <2>2. \A q \in Worker : worker'[q].pc # "idle" => Key1(q)
      BY <2>1, WorkerUpdates
    <2>3. /\ session'.state = session.state /\ session'.revoked = session.revoked
          /\ session'.ready = session.ready
      BY <2>1 DEF TypeOK
    <2>. QED
      BY <2>1, <2>2, <2>3, SessionUntouched
  <1>5. CASE SetDispatchSequence(r)
    <2>1. /\ UNCHANGED <<obs, holdCall, sessionVars, agentVars>>
          /\ worker' = [worker EXCEPT ![r] = IdleWorker]
      BY <1>5 DEF SetDispatchSequence
    <2>. QED
      BY <1>0, <2>1, SessionUntouched DEF sessionVars, agentVars
  <1>. QED
    BY <1>1, <1>2, <1>3, <1>4, <1>5, NeverHappens DEF Reconcile

\* What the facts change in the entry.
LEMMA FactsKeep ==
  ASSUME TypeOK, FactsReply
  PROVE  /\ obs'.epoch = obs.epoch /\ obs'.connected = obs.connected
         /\ obs'.execs = obs.execs /\ obs'.seq = obs.seq
         /\ "executions" \in obs'.fresh <=> "executions" \in obs.fresh
  <1>. DEFINE Like(p, o) == /\ p \in Entry /\ p.epoch = o.epoch /\ p.connected = o.connected
                            /\ p.execs = o.execs /\ p.seq = o.seq
                            /\ "executions" \in p.fresh <=> "executions" \in o.fresh
  <1>0. obs \in Entry /\ epoch \in Nat
    BY CoordinatorAssumption DEF TypeOK
  <1>1. ASSUME NEW o \in Entry, NEW b \in SUBSET Resource
        PROVE  /\ Like(SetInventory(o, epoch), o) /\ Like(SetAgentState(o, epoch), o)
               /\ Like(MarkReady(o, epoch), o) /\ Like(SetUnmanagedProcesses(o, epoch, b), o)
    <2>1. Like(SetInventory(o, epoch), o)
      BY <1>0, EntryTypes DEF SetInventory, Entry
    <2>2. Like(SetAgentState(o, epoch), o)
      BY <1>0, EntryTypes DEF SetAgentState, Entry
    <2>3. Like(MarkReady(o, epoch), o)
      BY <1>0, EntryTypes DEF MarkReady, Entry
    <2>4. Like(SetUnmanagedProcesses(o, epoch, b), o)
      BY <1>0, ProcessesType DEF SetUnmanagedProcesses, Entry
    <2>. QED
      BY <2>1, <2>2, <2>3, <2>4
  <1>2. PICK known : known = SetInventory(SetAgentState(obs, epoch), epoch) /\ Like(known, obs)
    <2>1. PICK o : o = SetAgentState(obs, epoch)
      OBVIOUS
    <2>2. Like(o, obs)
      BY <1>0, <1>1, <2>1
    <2>. QED
      BY <1>1, <2>1, <2>2
  <1>3. \/ obs' = MarkReady(known, epoch)
        \/ \E m \in Range(replies) :
              Take(m) /\ obs' = MarkReady(SetUnmanagedProcesses(known, epoch, m.busy), epoch)
    BY <1>2 DEF FactsReply
  <1>4. CASE obs' = MarkReady(known, epoch)
    BY <1>1, <1>2, <1>4
  <1>5. ASSUME NEW m, Take(m), obs' = MarkReady(SetUnmanagedProcesses(known, epoch, m.busy), epoch)
        PROVE  Like(obs', obs)
    <2>1. m.busy \in SUBSET Resource
      BY <1>5, TakeTypes
    <2>2. PICK o : o = SetUnmanagedProcesses(known, epoch, m.busy)
      OBVIOUS
    <2>3. Like(o, known)
      BY <1>1, <1>2, <2>1, <2>2
    <2>4. Like(obs', o)
      BY <1>1, <1>5, <2>2, <2>3
    <2>. QED
      BY <1>2, <2>3, <2>4
  <1>. QED
    BY <1>3, <1>4, <1>5

\* Steps of the server.
LEMMA ServerKeepsSession ==
  ASSUME OneQuietSession, TypeOK, HoldInv, SessionQuiet, FreshFirst, Server
  PROVE  SessionQuiet'
  <1>. obs \in Entry /\ epoch \in Nat /\ epoch \in {0, 1}
    BY PathTypes DEF TypeOK, OneQuietSession
  <1>1. CASE ServerConnect
    <2>1. /\ session.state = "none" /\ epoch' = epoch + 1 /\ link' = TRUE
          /\ session' = [NoSession EXCEPT !.state = "hello"] /\ holdInbox' = NoCommand
          /\ UNCHANGED <<obs, worker, holdCall>>
      BY <1>1 DEF ServerConnect, ConnectOnce, coordVars
    <2>2. epoch = 0 /\ obs = NoEntry
      BY <2>1 DEF SessionQuiet
    <2>3. \A r \in Worker : worker[r].pc = "idle"
      BY <2>1, FreshIsOpen DEF FreshFirst
    <2>4. session'.state = "hello" /\ session'.revoked = FALSE
      BY <2>1 DEF NoSession
    <2>. QED
      BY <2>1, <2>2, <2>3, <2>4 DEF SessionQuiet
  <1>2. CASE SessionConnected
    <2>1. /\ session.state = "hello" /\ obs' = Connect(obs, epoch)
          /\ session' = [session EXCEPT !.state = "open"]
          /\ UNCHANGED <<worker, holdCall, link, epoch, holdInbox>>
      BY <1>2 DEF SessionConnected
    <2>2. epoch = 1 /\ obs = NoEntry
      BY <2>1 DEF SessionQuiet
    <2>3. obs'.epoch = 1 /\ obs'.connected = TRUE
      BY <2>1, <2>2 DEF Connect, NoEntry, NewEntry
    <2>4. session'.state = "open" /\ session'.revoked = session.revoked /\ session'.ready = session.ready
      BY <2>1 DEF TypeOK
    <2>. QED
      BY <2>1, <2>2, <2>3, <2>4 DEF SessionQuiet
  <1>3. CASE Heartbeat \/ ExpireRuntimeResult \/ LateReply \/ HoldReply \/ RuntimeReply
    <2>1. UNCHANGED <<worker, session, link, epoch, holdInbox>>
      BY <1>3 DEF Heartbeat, ExpireRuntimeResult, LateReply, HoldReply, RuntimeReply, coordVars, agentVars
    <2>2. holdCall' = holdCall
      BY <1>3 DEF Heartbeat, ExpireRuntimeResult, LateReply, HoldReply, RuntimeReply, coordVars, SessionQuiet
    <2>3. /\ obs' = obs \/ session.state = "open"
          /\ obs'.epoch = obs.epoch /\ obs'.connected = obs.connected
      <3>1. CASE Heartbeat \/ LateReply \/ HoldReply
        BY <3>1 DEF Heartbeat, LateReply, HoldReply, coordVars
      <3>2. ASSUME NEW c, NEW outcome, RuntimeResult(c, outcome)
            PROVE  /\ obs' = obs \/ session.state = "open"
                   /\ obs'.epoch = obs.epoch /\ obs'.connected = obs.connected
        <4>1. obs' = obs \/ ("executions" \in obs.fresh /\ obs' = UpsertExecution(obs, epoch, c.id, outcome, c.seq))
          BY <3>2 DEF RuntimeResult
        <4>2. UpsertExecution(obs, epoch, c.id, outcome, c.seq).epoch = obs.epoch
              /\ UpsertExecution(obs, epoch, c.id, outcome, c.seq).connected = obs.connected
          BY DEF UpsertExecution, Entry
        <4>. QED
          BY <4>1, <4>2, FreshIsOpen
      <3>. QED
        BY <1>3, <3>1, <3>2 DEF ExpireRuntimeResult, RuntimeReply
    <2>. QED
      BY <2>1, <2>2, <2>3, SessionUntouched
  <1>4. ASSUME NEW kinds, session' = Got(kinds)
        PROVE  /\ session'.state = session.state /\ session'.revoked = session.revoked
               /\ session.ready => session'.ready
    BY <1>4 DEF Got, TypeOK
  <1>5. CASE ExecutionsReply
    <2>1. UNCHANGED <<worker, holdCall, link, epoch, holdInbox>> /\ session.state = "open"
      BY <1>5 DEF ExecutionsReply, Take
    <2>2. PICK m \in Range(replies) :
             /\ Take(m) /\ session' = Got({"executions"})
             /\ obs' = MarkReady(SetExecutions(obs, epoch, m.execs, m.cmd.seq), epoch)
      BY <1>5 DEF ExecutionsReply
    <2>3. m.execs \in [Id -> Statuses] /\ m.cmd.seq \in Nat
      BY <2>2, TakeTypes
    <2>4. PICK p \in Entry : p = SetExecutions(obs, epoch, m.execs, m.cmd.seq)
                             /\ p.epoch = obs.epoch /\ p.connected = obs.connected
      <3>1. SetExecutions(obs, epoch, m.execs, m.cmd.seq) \in Entry
        BY <2>3, ExecutionsType
      <3>2. /\ SetExecutions(obs, epoch, m.execs, m.cmd.seq).epoch = obs.epoch
            /\ SetExecutions(obs, epoch, m.execs, m.cmd.seq).connected = obs.connected
        BY DEF SetExecutions, Entry
      <3>. QED
        BY <3>1, <3>2
    <2>5. obs'.epoch = obs.epoch /\ obs'.connected = obs.connected
      BY <2>2, <2>4 DEF MarkReady, Entry
    <2>. QED
      BY <1>4, <2>1, <2>2, <2>5, SessionUntouched
  <1>6. CASE FactsReply
    <2>1. UNCHANGED <<worker, holdCall, link, epoch, holdInbox>> /\ session.state = "open"
      BY <1>6 DEF FactsReply, Take, agentVars
    <2>2. \E kinds : session' = Got(kinds)
      BY <1>6 DEF FactsReply
    <2>3. obs'.epoch = obs.epoch /\ obs'.connected = obs.connected
      BY <1>6, FactsKeep
    <2>. QED
      BY <1>4, <2>1, <2>2, <2>3, SessionUntouched
  <1>. QED
    BY <1>1, <1>2, <1>3, <1>5, <1>6, NeverHappens DEF Server

\* Steps of the others.
LEMMA OthersKeepSession ==
  ASSUME OneQuietSession, TypeOK, HoldInv, SessionQuiet, FreshFirst,
         Operator \/ Agent \/ Environment \/ UNCHANGED vars
  PROVE  SessionQuiet'
  <1>1. CASE Operator
    <2>1. UNCHANGED <<coordVars, sessionVars, agentVars>>
      BY <1>1, NeverHappens
      DEF Operator, UpdateDesiredWorkload, RetryWorkload, DeleteDesiredWorkload
    <2>. QED
      BY <2>1, SessionUntouched DEF coordVars, sessionVars, agentVars
  <1>2. CASE Agent
    <2>1. UNCHANGED <<coordVars, session, link, epoch, holdInbox>>
      <3>1. CASE AgentHello
        BY <3>1 DEF AgentHello, sessionVars
      <3>2. ASSUME NEW e \in 1..MaxEpoch,
                   \/ AgentQuery(e, "ok") \/ AgentQuery(e, "error")
                   \/ AgentStop(e) \/ AgentPrepare(e) \/ AgentStart(e)
                   \/ \E outcome \in {"rejected", "uncertain", "spawn"} : AgentStartFails(e, outcome)
            PROVE  UNCHANGED <<coordVars, session, link, epoch, holdInbox>>
        BY <3>2 DEF AgentQuery, AgentStop, AgentPrepare, AgentStart, AgentStartFails, sessionVars
      <3>. QED
        BY <1>2, <3>1, <3>2, NeverHappens DEF Agent
    <2>. QED
      BY <2>1, SessionUntouched DEF coordVars
  <1>3. CASE Environment
    <2>1. ASSUME NEW i \in Id, ExecutionFails(i) PROVE SessionQuiet'
      BY <2>1, SessionUntouched DEF ExecutionFails, coordVars, sessionVars
    <2>2. ASSUME NEW kind \in Expiring, ObservationExpires(kind) PROVE SessionQuiet'
      <3>1. /\ UNCHANGED <<worker, holdCall, session, link, epoch, holdInbox>>
            /\ kind \in obs.fresh /\ obs' = Expire(obs, kind)
        BY <2>2 DEF ObservationExpires, sessionVars, agentVars
      <3>2. obs'.epoch = obs.epoch /\ obs'.connected = obs.connected
        BY <3>1 DEF Expire, TypeOK, Entry
      <3>3. session.state = "open"
        BY <3>1 DEF SessionQuiet, NoEntry, NewEntry
      <3>. QED
        BY <3>1, <3>2, <3>3, SessionUntouched
    <2>3. ASSUME NEW b \in SUBSET Resource, UnmanagedProcess(b) PROVE SessionQuiet'
      BY <2>3, SessionUntouched DEF UnmanagedProcess, coordVars, sessionVars, agentVars
    <2>. QED
      BY <1>3, <2>1, <2>2, <2>3, NeverHappens DEF Environment
  <1>4. CASE UNCHANGED vars
    BY <1>4, SessionUntouched DEF vars, coordVars, sessionVars, agentVars
  <1>. QED
    BY <1>1, <1>2, <1>3, <1>4

\* The session stays quiet.
LEMMA SessionKept ==
  ASSUME OneQuietSession, TypeOK, HoldInv, SessionQuiet, FreshFirst, [Next]_vars
  PROVE  SessionQuiet'
  <1>1. ASSUME NEW r \in Worker, Reconcile(r) PROVE SessionQuiet'
    BY <1>1, WorkersKeepSession
  <1>. QED
    BY <1>1, ServerKeepsSession, OthersKeepSession DEF Next

\* What a dispatch puts on the path.
LEMMA DispatchPath ==
  ASSUME OneQuietSession, TypeOK, TypeOK', SessionQuiet, FreshFirst, PathInOrder,
         NEW r \in Worker, SendRuntime(r), Underway = {}, WorkersAct
  PROVE  /\ PathInOrder' /\ session'.seq = session.seq + 1 /\ UNCHANGED replies
         /\ Underway' = {Command(worker[r].key.act, worker[r].key.id, session.seq + 1)}
         /\ IsRuntime(Command(worker[r].key.act, worker[r].key.id, session.seq + 1))
  <1>. DEFINE seq == session.seq
              c == Command(worker[r].key.act, worker[r].key.id, seq + 1)
  <1>0. worker[r].pc = "send" /\ epoch = 1
    BY WorkerIsOpen, FreshIsOpen DEF SendRuntime
  <1>1. /\ UNCHANGED <<replies, busyCmd>> /\ session'.seq = seq + 1
        /\ inbox' = [inbox EXCEPT ![1] = Append(inbox[1], c)]
    BY <1>0 DEF SendRuntime, Send, TypeOK
  <1>2. /\ inbox[1] \in Seq(Commands) /\ seq \in Nat /\ Answered \in Seq(Commands)
        /\ DOMAIN inbox = {1} /\ Answered' = Answered
    BY <1>1, PathTypes DEF OneQuietSession, Answered
  <1>3. c \in Commands /\ c.kind = worker[r].key.act /\ c.kind \in {"START", "STOP"}
    <2>1. c.kind = worker[r].key.act /\ c.kind \in {"START", "STOP"}
      BY <1>0 DEF WorkersAct, Command
    <2>2. worker[r].key \in ActionKeys
      BY WorkerTypes DEF WorkerRow
    <2>3. c \in Commands
      BY <1>2, <2>1, <2>2 DEF Command, Commands, ActionKeys
    <2>. QED
      BY <2>1, <2>3
  <1>4. IsRuntime(c)
    BY <1>3 DEF IsRuntime
  <1>5. NoRuntime(inbox[1]) /\ NoRuntime(Answered) /\ busyCmd[1] = NoCommand
    BY NothingUnderway DEF OneQuietSession
  <1>. HIDE DEF seq, c
  <1>6. inbox'[1] = Append(inbox[1], c)
    BY <1>1, <1>2
  <1>7. InOrder(inbox[1], seq + 1) /\ NoLateList(inbox[1], seq + 1)
    <2>1. PICK q : q = inbox[1]
      OBVIOUS
    <2>2. InOrder(q, seq + 1) /\ NoLateList(q, seq + 1)
      BY <1>2, <1>5, <2>1, NewDispatch DEF PathInOrder, ListsAsked, seq
    <2>. QED
      BY <2>1, <2>2
  <1>8. InOrder(Answered, seq + 1) /\ NoLateList(Answered, seq + 1)
    <2>1. PICK q : q = Answered
      OBVIOUS
    <2>2. InOrder(q, seq + 1) /\ NoLateList(q, seq + 1)
      BY <1>2, <1>5, <2>1, NewDispatch DEF PathInOrder, ListsAsked, seq
    <2>. QED
      BY <2>1, <2>2
  <1>9. PICK q : q = inbox[1]
    OBVIOUS
  <1>10. PICK p : p = Append(q, c)
    OBVIOUS
  <1>11. /\ q \in Seq(Commands) /\ Len(p) = Len(q) + 1 /\ p[Len(q) + 1] = c /\ Len(q) \in Nat
         /\ \A n \in 1..Len(q) : p[n] = q[n] /\ q[n] \in Commands
    BY <1>2, <1>3, <1>9, <1>10, SequenceOf
  <1>12. InOrder(p, seq + 1)
    BY <1>2, <1>3, <1>5, <1>7, <1>9, <1>10, JoinsInOrder
  <1>13. \A n \in 1..Len(p) : n = Len(q) + 1 \/ n \in 1..Len(q)
    BY <1>11
  <1>14. ListsAsked(p, seq + 1)
    <2>1. ListsAsked(q, seq)
      BY <1>9 DEF PathInOrder, seq
    <2>2. ASSUME NEW n \in 1..Len(q), q[n].kind = "executions" PROVE q[n].seq <= seq + 1
      <3>1. q[n].seq \in Nat
        BY <1>11 DEF Commands
      <3>. QED
        BY <1>2, <2>1, <2>2, <3>1 DEF ListsAsked
    <2>. QED
      BY <1>3, <1>11, <1>13, <2>2 DEF ListsAsked
  <1>15. ListsAsked(Answered, seq + 1)
    <2>1. PICK a : a = Answered
      OBVIOUS
    <2>2. ListsAsked(a, seq) /\ a \in Seq(Commands)
      BY <1>2, <2>1 DEF PathInOrder, seq
    <2>3. ASSUME NEW n \in 1..Len(a), a[n].kind = "executions" PROVE a[n].seq <= seq + 1
      <3>1. a[n] \in Commands
        BY <2>2
      <3>2. a[n].seq \in Nat
        BY <3>1 DEF Commands
      <3>. QED
        BY <1>2, <2>2, <2>3, <3>2 DEF ListsAsked
    <2>. QED
      BY <2>1, <2>3 DEF ListsAsked
  <1>16. inbox'[1] = p /\ session'.seq = seq + 1
    BY <1>1, <1>6, <1>9, <1>10 DEF seq
  <1>17. PathInOrder'
    BY <1>1, <1>2, <1>5, <1>8, <1>12, <1>14, <1>15, <1>16 DEF PathInOrder
  <1>18. Underway' = {c}
    <2>1. Len(p) \in Nat /\ Len(q) + 1 \in 1..Len(p)
      BY <1>11
    <2>2. c \in Underway'
      BY <1>4, <1>11, <1>16, <2>1 DEF Underway
    <2>3. ASSUME NEW d \in Underway' PROVE d = c
      <3>1. /\ IsRuntime(d)
            /\ \/ d = busyCmd[1] \/ \E n \in 1..Len(p) : p[n] = d
               \/ \E n \in 1..Len(replies) : replies[n].cmd = d
        BY <1>1, <1>16, <2>3 DEF Underway
      <3>2. ~IsRuntime(busyCmd[1])
        BY <1>5 DEF NoCommand, Command, IsRuntime
      <3>3. \A n \in 1..Len(q) : ~IsRuntime(q[n])
        BY <1>5, <1>9 DEF NoRuntime
      <3>4. \A n \in 1..Len(replies) : ~IsRuntime(replies[n].cmd)
        BY <1>5, PathTypes DEF NoRuntime, OneQuietSession
      <3>. QED
        BY <1>11, <1>13, <3>1, <3>2, <3>3, <3>4
    <2>. QED
      BY <2>2, <2>3
  <1>. QED
    BY <1>1, <1>4, <1>17, <1>18 DEF seq, c

\* What the replies on their way still say after some of them were taken.
LEMMA FewerReplies ==
  ASSUME TypeOK, TypeOK', MaxEpoch = 1, agent'.exec = agent.exec,
         UNCHANGED replies \/ Took \/ replies' = <<>>
  PROVE  /\ ListsLive => ListsLive'
         /\ OutcomesTrue => OutcomesTrue'
         /\ \A k : obs'.execs = obs.execs /\ Confirmed(k) => Confirmed(k)'
         /\ \A n \in 1..Len(replies') : \E m \in 1..Len(replies) : replies'[n] = replies[m]
  <1>1. \E d \in Nat :
           /\ \A n \in 1..Len(replies') :
                 n + d \in 1..Len(replies) /\ replies'[n] = replies[n + d]
           /\ \A n \in 1..Len(replies'), m \in 1..Len(replies) :
                 n + d < m => m - d \in 1..Len(replies')
    <2>1. replies \in Seq(Replies) /\ Len(replies) \in Nat
      BY DEF TypeOK
    <2>2. CASE UNCHANGED replies
      <3>. WITNESS 0 \in Nat
      <3>. QED
        BY <2>1, <2>2
    <2>3. CASE Took
      <3>1. Len(replies') = Len(replies) - 1
        BY <2>1, <2>3, SequenceOf DEF Took
      <3>2. \A n \in 1..Len(replies') : n + 1 \in 1..Len(replies) /\ replies'[n] = replies[n + 1]
        BY <2>3, TookOf
      <3>. WITNESS 1 \in Nat
      <3>. QED
        BY <2>1, <3>1, <3>2
    <2>4. CASE replies' = <<>>
      <3>. WITNESS 0 \in Nat
      <3>. QED
        BY <2>4
    <2>. QED
      BY <2>2, <2>3, <2>4
  <1>2. PICK d \in Nat :
           /\ \A n \in 1..Len(replies') :
                 n + d \in 1..Len(replies) /\ replies'[n] = replies[n + d]
           /\ \A n \in 1..Len(replies'), m \in 1..Len(replies) :
                 n + d < m => m - d \in 1..Len(replies')
    BY <1>1
  <1>3. ASSUME NEW n \in 1..Len(replies'), Lists(n)'
        PROVE  n + d \in 1..Len(replies) /\ replies'[n] = replies[n + d] /\ Lists(n + d)
    BY <1>2, <1>3 DEF Lists
  <1>4. ASSUME ListsLive, NEW n \in 1..Len(replies'), Lists(n)',
               NEW j \in Id, agent.exec[j] = "RUNNING", replies'[n].execs[j] # "RUNNING"
        PROVE  \E m \in 1..Len(replies') :
                  n < m /\ replies'[m].cmd.kind = "START" /\ replies'[m].cmd.id = j
    <2>1. n + d \in 1..Len(replies) /\ replies'[n] = replies[n + d] /\ Lists(n + d)
      BY <1>3, <1>4
    <2>2. PICK m \in 1..Len(replies) :
             n + d < m /\ replies[m].cmd.kind = "START" /\ replies[m].cmd.id = j
      BY <1>4, <2>1 DEF ListsLive
    <2>3. m - d \in 1..Len(replies') /\ n < m - d /\ (m - d) + d = m
      BY <1>2, <2>2
    <2>4. replies'[m - d] = replies[m]
      BY <1>2, <2>3
    <2>5. PICK k : k = m - d
      OBVIOUS
    <2>6. k \in 1..Len(replies') /\ n < k /\ replies'[k] = replies[m]
      BY <2>3, <2>4, <2>5
    <2>. QED
      BY <2>2, <2>6
  <1>5. ListsLive => ListsLive'
    <2>1. ListsLive' <=>
            \A n \in 1..Len(replies') : Lists(n)' =>
               \A j \in Id : agent'.exec[j] = "RUNNING" =>
                  \/ replies'[n].execs[j] = "RUNNING"
                  \/ \E m \in 1..Len(replies') :
                        n < m /\ replies'[m].cmd.kind = "START" /\ replies'[m].cmd.id = j
      BY DEF ListsLive
    <2>. QED
      BY <1>4, <2>1
  <1>6. ASSUME OutcomesTrue, NEW n \in 1..Len(replies')
        PROVE  /\ replies'[n].outcome = "rejected" =>
                     replies'[n].cmd.kind = "START" /\ agent.exec[replies'[n].cmd.id] # "RUNNING"
               /\ replies'[n].outcome = "RUNNING" => replies'[n].cmd.kind = "START"
               /\ replies'[n].outcome = "STOPPED" => replies'[n].cmd.kind = "STOP"
               /\ replies'[n].outcome \in {"RUNNING", "STOPPED"} =>
                     Agrees(replies'[n].cmd.kind, agent.exec[replies'[n].cmd.id])
    BY <1>2, <1>6 DEF OutcomesTrue
  <1>7. ASSUME OutcomesTrue, NEW n \in 1..Len(replies'), NEW l \in 1..Len(replies'), n < l,
               Lists(l)', replies'[n].outcome \in {"RUNNING", "STOPPED"}
        PROVE  Agrees(replies'[n].cmd.kind, replies'[l].execs[replies'[n].cmd.id])
    <2>1. /\ n + d \in 1..Len(replies) /\ replies'[n] = replies[n + d]
          /\ l + d \in 1..Len(replies) /\ replies'[l] = replies[l + d] /\ Lists(l + d)
      BY <1>2, <1>3, <1>7
    <2>2. n + d < l + d
      BY <1>7
    <2>. QED
      BY <1>7, <2>1, <2>2 DEF OutcomesTrue
  <1>8. OutcomesTrue => OutcomesTrue'
    BY <1>6, <1>7 DEF OutcomesTrue
  <1>9. ASSUME NEW k, obs'.execs = obs.execs, Confirmed(k) PROVE Confirmed(k)'
    <2>1. \A n \in 1..Len(replies') : Lists(n)' => Agrees(k.act, replies'[n].execs[k.id])
      <3>1. ASSUME NEW n \in 1..Len(replies'), Lists(n)'
            PROVE  Agrees(k.act, replies'[n].execs[k.id])
        <4>1. n + d \in 1..Len(replies) /\ replies'[n] = replies[n + d] /\ Lists(n + d)
          BY <1>3, <3>1
        <4>. QED
          BY <1>9, <4>1 DEF Confirmed
      <3>. QED
        BY <3>1
    <2>. QED
      BY <1>9, <2>1 DEF Confirmed
  <1>10. \A n \in 1..Len(replies') : \E m \in 1..Len(replies) : replies'[n] = replies[m]
    BY <1>2
  <1>. QED
    BY <1>5, <1>8, <1>9, <1>10

\* A dispatch that is done stays done.
LEMMA FinishedKept ==
  ASSUME NEW k, Finished(k), snaps \subseteq snaps', RequestStillCurrent(k.id)' => RequestStillCurrent(k.id),
         k.act = "START" /\ desired[k.id[1]].blocked = k.id[2] /\ RequestStillCurrent(k.id)' =>
            desired'[k.id[1]].blocked = k.id[2],
         Confirmed(k) => Confirmed(k)',
         k.act = "STOP" => (Key("START", k.id, 1) \in Keys' => Key("START", k.id, 1) \in Keys)
  PROVE  Finished(k)'
  <1>1. k.act = "START" => (\/ ~RequestStillCurrent(k.id)'
                            \/ desired'[k.id[1]].blocked = k.id[2]
                            \/ Confirmed(k)')
    BY DEF Finished
  <1>2. k.act = "STOP" => /\ ~RequestStillCurrent(k.id)' /\ Confirmed(k)'
                          /\ Key("START", k.id, 1) \notin Keys'
    BY DEF Finished
  <1>3. k.act \in {"START", "STOP"} /\ k.id \in snaps'
    BY DEF Finished
  <1>. QED
    BY <1>1, <1>2, <1>3 DEF Finished

\* Steps that move queries and take replies, and leave the dispatch as it is.
LEMMA PathOnly ==
  ASSUME TypeOK, TypeOK', MaxEpoch = 1, DispatchQuiet,
         UNCHANGED <<desired, snaps, barrier, inFlight, worker>>, agent'.exec = agent.exec,
         obs'.execs = obs.execs, obs'.seq = obs.seq, session'.seq = session.seq,
         "executions" \in obs'.fresh <=> "executions" \in obs.fresh,
         UNCHANGED replies \/ Took \/ replies' = <<>>, Underway' \subseteq Underway,
         \A c \in pending' : IsRuntime(c) => c \in pending
  PROVE  DispatchQuiet'
  <1>1. FreshFirst'
    BY DEF DispatchQuiet, FreshFirst
  <1>2. PathKeys'
    BY DEF DispatchQuiet, PathKeys
  <1>3. OneKey'
    <2>1. \A i : Clear(i)' <=> Clear(i)
      BY DEF Clear
    <2>2. \A i : RequestStillCurrent(i)' <=> RequestStillCurrent(i)
      BY DEF RequestStillCurrent
    <2>. QED
      BY <2>1, <2>2 DEF DispatchQuiet, OneKey
  <1>4. WorkersQuiet'
    <2>1. ASSUME NEW k, Finished(k) PROVE Finished(k)'
      <3>1. Confirmed(k) => Confirmed(k)'
        BY FewerReplies
      <3>2. RequestStillCurrent(k.id)' <=> RequestStillCurrent(k.id)
        BY DEF RequestStillCurrent
      <3>3. Keys' = Keys
        BY DEF Keys
      <3>. QED
        BY <2>1, <3>1, <3>2, <3>3, FinishedKept
    <2>2. \A r \in Worker : Holds(r)' <=> Holds(r)
      BY DEF Holds
    <2>3. Keys' = Keys
      BY DEF Keys
    <2>. QED
      BY <2>1, <2>2, <2>3 DEF DispatchQuiet, WorkersQuiet
  <1>5. SeenLive'
    BY DEF DispatchQuiet, SeenLive, StartOut
  <1>6. ListsLive' /\ OutcomesTrue'
    BY FewerReplies DEF DispatchQuiet
  <1>7. SnapsKnown' /\ BarrierStands' /\ DeletedDead' /\ NoOverlap'
    BY DEF DispatchQuiet, SnapsKnown, BarrierStands, DeletedDead, NoOverlap
  <1>. QED
    BY <1>1, <1>2, <1>3, <1>4, <1>5, <1>6, <1>7 DEF DispatchQuiet

\* What is known before a step, and of the types after it.
Before ==
    /\ OneQuietSession /\ CoordTypes /\ CoordTypes' /\ HoldInv
    /\ SessionQuiet /\ PathInOrder /\ DispatchQuiet

\* The queries that are sent join the path.
LEMMA AbsentAsked ==
  ASSUME TypeOK, NEW ks, epoch = 1, MaxEpoch = 1,
         inbox' = [inbox EXCEPT ![epoch] = @ \o Absent(ks)]
  PROVE  Asked(Absent(ks))
  <1>. DEFINE ask(q, seq) == IF q \in ks /\ \A c \in pending : c.kind # q
                             THEN <<Command(q, None, seq)>> ELSE <<>>
              s == ask("executions", session.seq)
              t == ask("facts", 0)
  <1>1. s \in Seq(Commands) /\ t \in Seq(Commands)
    <2>1. session.seq \in Nat
      BY DEF TypeOK
    <2>2. /\ Command("executions", None, session.seq) \in Commands
          /\ Command("facts", None, 0) \in Commands
      BY <2>1, CommandTypes DEF Queries
    <2>. QED
      BY <2>2
  <1>2. /\ \A n \in 1..Len(s) : s[n].seq = session.seq
        /\ \A n \in 1..Len(t) : t[n].kind = "facts"
    BY DEF Command
  <1>3. Absent(ks) = s \o t
    BY DEF Absent
  <1>. HIDE DEF s, t
  <1>4. PICK p : p = Absent(ks)
    OBVIOUS
  <1>5. /\ Len(p) = Len(s) + Len(t) /\ Len(s) \in Nat /\ Len(t) \in Nat
        /\ \A n \in 1..Len(s) : p[n] = s[n]
        /\ \A n \in 1..Len(t) : p[Len(s) + n] = t[n]
    BY <1>1, <1>3, <1>4, JoinOf
  <1>6. ASSUME NEW n \in 1..Len(p), p[n].kind = "executions" PROVE p[n].seq = session.seq
    <2>1. CASE n \in 1..Len(s)
      BY <1>2, <1>5, <2>1
    <2>2. CASE n \notin 1..Len(s)
      <3>1. n - Len(s) \in 1..Len(t) /\ Len(s) + (n - Len(s)) = n
        BY <1>5, <2>2
      <3>2. p[n] = t[n - Len(s)]
        BY <1>5, <3>1
      <3>. QED
        BY <1>2, <1>6, <3>1, <3>2
    <2>. QED
      BY <2>1, <2>2
  <1>7. p \in Seq(Commands) /\ \A n \in 1..Len(p) : p[n].kind \in Queries
    BY <1>4, AbsentType
  <1>8. inbox'[1] = inbox[1] \o p
    BY <1>4, PathTypes
  <1>. QED
    BY <1>4, <1>6, <1>7, <1>8 DEF Asked

\* Nothing is asked.
LEMMA NothingAsked ==
  ASSUME TypeOK, MaxEpoch = 1, UNCHANGED inbox
  PROVE  Asked(<<>>)
  <1>1. inbox[1] \in Seq(Commands)
    BY PathTypes
  <1>2. inbox[1] \o <<>> = inbox[1]
    BY <1>1
  <1>. QED
    BY <1>2 DEF Asked

\* A new session.
LEMMA ConnectQuiet ==
  ASSUME Before, ServerConnect
  PROVE  PathInOrder' /\ DispatchQuiet'
  <1>. /\ OneQuietSession /\ TypeOK /\ TypeOK' /\ HoldInv /\ SessionQuiet /\ PathInOrder
       /\ DispatchQuiet /\ MaxEpoch = 1
    BY DEF Before, CoordTypes, OneQuietSession
  <1>1. /\ session.state = "none" /\ epoch' = epoch + 1
        /\ inbox' = [inbox EXCEPT ![epoch + 1] = <<HoldCommand("hello", hold)>>]
        /\ session' = [NoSession EXCEPT !.state = "hello"]
        /\ pending' = {} /\ replies' = <<>>
        /\ UNCHANGED <<desired, snaps, barrier, obs, inFlight, worker, busyCmd, agent>>
    BY DEF ServerConnect, ConnectOnce, configVars, coordVars
  <1>2. epoch = 0 /\ obs = NoEntry /\ session'.seq = 0
    BY <1>1 DEF SessionQuiet, NoSession
  <1>3. obs.seq = 0 /\ "executions" \notin obs.fresh
    BY <1>2 DEF NoEntry, NewEntry
  <1>4. inFlight = {} /\ Underway = {} /\ \A r \in Worker : worker[r].pc = "idle"
    BY <1>3 DEF DispatchQuiet, FreshFirst
  <1>5. busyCmd[1] = NoCommand
    BY <1>4, NothingUnderway
  <1>6. inbox'[1] = <<HoldCommand("hello", hold)>>
    BY <1>1, <1>2, PathTypes
  <1>7. /\ Len(inbox'[1]) = 1 /\ inbox'[1][1].kind = "hello"
        /\ Len(replies') = 0
    BY <1>1, <1>6 DEF HoldCommand, Command
  <1>8. Answered' = <<>>
    BY <1>1, <1>7 DEF Answered
  <1>9. PathInOrder'
    <2>1. InOrder(Answered', session'.seq) /\ ListsAsked(Answered', session'.seq)
          /\ NoRuntime(Answered') /\ NoLateList(Answered', session'.seq)
      BY <1>8 DEF InOrder, ListsAsked, NoRuntime, NoLateList
    <2>2. \A n \in 1..Len(inbox'[1]) : inbox'[1][n].kind = "hello"
      BY <1>7
    <2>3. InOrder(inbox'[1], session'.seq) /\ ListsAsked(inbox'[1], session'.seq)
          /\ NoRuntime(inbox'[1])
      BY <2>2 DEF InOrder, ListsAsked, NoRuntime, IsRuntime
    <2>. QED
      BY <1>1, <1>5, <2>1, <2>3 DEF PathInOrder
  <1>10. Underway' = {}
    <2>1. ~IsRuntime(busyCmd[1])
      BY <1>5 DEF NoCommand, Command, IsRuntime
    <2>2. \A n \in 1..Len(inbox'[1]) : ~IsRuntime(inbox'[1][n])
      BY <1>7 DEF IsRuntime
    <2>. QED
      BY <1>1, <1>7, <2>1, <2>2 DEF Underway
  <1>11. FreshFirst' /\ PathKeys'
    BY <1>1, <1>2, <1>3, <1>4, <1>10 DEF FreshFirst, PathKeys
  <1>12. OneKey' /\ WorkersQuiet' /\ SeenLive'
    BY <1>1, <1>3, <1>4 DEF OneKey, WorkersQuiet, SeenLive
  <1>13. ListsLive' /\ OutcomesTrue'
    BY <1>7 DEF ListsLive, OutcomesTrue
  <1>14. SnapsKnown' /\ BarrierStands' /\ DeletedDead' /\ NoOverlap'
    BY <1>1 DEF DispatchQuiet, SnapsKnown, BarrierStands, DeletedDead, NoOverlap
  <1>. QED
    BY <1>9, <1>11, <1>12, <1>13, <1>14 DEF DispatchQuiet

\* Steps of the path that leave what is known as it is.
LEMMA PathQuiet ==
  ASSUME Before, PathStep,
         UNCHANGED <<desired, snaps, barrier, inFlight, worker>>, agent'.exec = agent.exec,
         obs'.execs = obs.execs, obs'.seq = obs.seq, session'.seq = session.seq,
         "executions" \in obs'.fresh <=> "executions" \in obs.fresh,
         UNCHANGED replies \/ Took,
         \A c \in pending' : IsRuntime(c) => c \in pending
  PROVE  PathInOrder' /\ DispatchQuiet'
  <1>1. TypeOK /\ TypeOK' /\ MaxEpoch = 1 /\ PathInOrder /\ DispatchQuiet
    BY DEF Before, CoordTypes, OneQuietSession
  <1>2. PathInOrder' /\ Underway' \subseteq Underway
    BY <1>1, PathKept, PathLeaves
  <1>. QED
    BY <1>1, <1>2, PathOnly

\* Steps of the session that only move queries and their answers.
LEMMA SessionStepsQuiet ==
  ASSUME Before,
         \/ SessionConnected \/ Heartbeat \/ FactsReply \/ LateReply \/ HoldReply
         \/ ExpireRuntimeResult
  PROVE  PathInOrder' /\ DispatchQuiet'
  <1>. /\ OneQuietSession /\ TypeOK /\ TypeOK' /\ HoldInv /\ SessionQuiet /\ PathInOrder
       /\ DispatchQuiet /\ MaxEpoch = 1 /\ FreshFirst
    BY DEF Before, CoordTypes, OneQuietSession, DispatchQuiet
  <1>0. session.seq \in Nat
    BY DEF TypeOK
  <1>1. CASE SessionConnected
    <2>1. /\ session.state = "hello" /\ obs' = Connect(obs, epoch)
          /\ session' = [session EXCEPT !.state = "open"]
          /\ pending' = Range(Absent({"executions"}))
          /\ inbox' = [inbox EXCEPT ![epoch] = @ \o Absent({"executions"})]
          /\ UNCHANGED <<desired, snaps, barrier, inFlight, worker, replies, busyCmd, agent>>
      BY <1>1 DEF SessionConnected, configVars
    <2>2. epoch = 1 /\ obs = NoEntry
      BY <2>1, PathTypes DEF SessionQuiet
    <2>3. obs'.execs = obs.execs /\ obs'.seq = obs.seq /\ obs'.fresh = obs.fresh
      BY <2>1, <2>2 DEF Connect, NoEntry, NewEntry
    <2>4. session'.seq = session.seq
      BY <2>1 DEF TypeOK
    <2>5. PICK p : p = Absent({"executions"})
      OBVIOUS
    <2>6. p \in Seq(Commands) /\ \A n \in 1..Len(p) : p[n].kind \in Queries
      BY <2>5, AbsentType
    <2>7. \A c \in pending' : ~IsRuntime(c)
      BY <2>1, <2>5, <2>6, RangeOf DEF IsRuntime, Queries
    <2>8. PathStep
      BY <2>1, <2>2, AbsentAsked DEF PathStep
    <2>. QED
      BY <2>1, <2>3, <2>4, <2>7, <2>8, PathQuiet
  <1>2. CASE Heartbeat
    <2>1. /\ session.state = "open"
          /\ pending' = pending \cup Range(Absent(Refreshed))
          /\ inbox' = [inbox EXCEPT ![epoch] = @ \o Absent(Refreshed)]
          /\ UNCHANGED <<desired, snaps, barrier, obs, inFlight, worker, session, replies,
                         busyCmd, agent>>
      BY <1>2 DEF Heartbeat, configVars, coordVars
    <2>2. epoch = 1
      BY <2>1, PathTypes DEF SessionQuiet
    <2>3. PICK p : p = Absent(Refreshed)
      OBVIOUS
    <2>4. p \in Seq(Commands) /\ \A n \in 1..Len(p) : p[n].kind \in Queries
      BY <2>3, AbsentType
    <2>5. \A c \in pending' : IsRuntime(c) => c \in pending
      BY <2>1, <2>3, <2>4, RangeOf DEF IsRuntime, Queries
    <2>6. PathStep
      BY <2>1, <2>2, AbsentAsked DEF PathStep
    <2>. QED
      BY <2>1, <2>5, <2>6, PathQuiet
  <1>3. CASE FactsReply
    <2>1. /\ Took /\ \E c : pending' = pending \ {c}
          /\ \E kinds : session' = Got(kinds)
          /\ UNCHANGED <<desired, snaps, barrier, inFlight, worker, inbox, busyCmd, agent>>
      BY <1>3 DEF FactsReply, Take, Took, configVars, agentVars
    <2>2. session'.seq = session.seq
      BY <2>1 DEF Got, TypeOK
    <2>3. PathStep
      BY <2>1, NothingAsked DEF PathStep
    <2>4. \A c \in pending' : c \in pending
      BY <2>1
    <2>. QED
      BY <1>3, <2>1, <2>2, <2>3, <2>4, FactsKeep, PathQuiet
  <1>4. CASE LateReply \/ HoldReply
    <2>1. /\ Took
          /\ UNCHANGED <<desired, snaps, barrier, obs, inFlight, worker, session, pending, inbox,
                         busyCmd, agent>>
      BY <1>4 DEF LateReply, HoldReply, Take, Took, configVars, coordVars, agentVars
    <2>2. PathStep
      BY <2>1, NothingAsked DEF PathStep
    <2>. QED
      BY <2>1, <2>2, PathQuiet
  <1>5. CASE ExpireRuntimeResult
    <2>1. PICK c \in pending : /\ IsRuntime(c) /\ RuntimeResult(c, "uncertain")
                               /\ pending' = pending \ {c}
      BY <1>5 DEF ExpireRuntimeResult
    <2>2. UNCHANGED <<snaps, barrier, worker, session, replies, inbox, busyCmd, agent>>
      BY <1>5 DEF ExpireRuntimeResult, agentVars
    <2>3. obs.connected /\ "executions" \in obs.fresh /\ obs.epoch = epoch
      <3>1. "executions" \in obs.fresh
        BY <2>1 DEF FreshFirst
      <3>. QED
        BY <3>1, FreshIsOpen
    <2>4. UNCHANGED <<inFlight, obs, desired>>
      BY <2>1, <2>3 DEF RuntimeResult
    <2>5. PathStep
      BY <2>2, NothingAsked DEF PathStep
    <2>6. \A d \in pending' : d \in pending
      BY <2>1
    <2>. QED
      BY <2>2, <2>4, <2>5, <2>6, PathQuiet
  <1>. QED
    BY <1>1, <1>2, <1>3, <1>4, <1>5

\* Steps of the Agent and the environment that leave the executions alone.
LEMMA RestQuiet ==
  ASSUME Before,
         \/ AgentHello \/ AgentPrepare(1)
         \/ \E kind \in Expiring : ObservationExpires(kind)
         \/ \E b \in SUBSET Resource : UnmanagedProcess(b)
         \/ UNCHANGED vars
  PROVE  PathInOrder' /\ DispatchQuiet'
  <1>. /\ OneQuietSession /\ TypeOK /\ TypeOK' /\ HoldInv /\ SessionQuiet /\ PathInOrder
       /\ DispatchQuiet /\ MaxEpoch = 1 /\ FreshFirst
    BY DEF Before, CoordTypes, OneQuietSession, DispatchQuiet
  <1>0. inbox[1] \in Seq(Commands) /\ epoch \in {0, 1} /\ DOMAIN inbox = {1} /\ DOMAIN busyCmd = {1}
    BY PathTypes
  <1>1. CASE AgentHello
    <2>1. /\ epoch = 1 /\ inbox[1] # <<>> /\ Head(inbox[1]).kind = "hello"
          /\ agent' = ApplyHold(Head(inbox[1]))
          /\ inbox' = [inbox EXCEPT ![epoch] = Tail(@)]
          /\ UNCHANGED <<configVars, coordVars, sessionVars, busyCmd>>
      BY <1>0, <1>1 DEF AgentHello, Ready
    <2>2. inbox'[1] = Tail(inbox[1])
      BY <1>0, <2>1
    <2>3. Head(inbox[1]).seq = 0 /\ Head(inbox[1]).active = FALSE
      <3>1. Head(inbox[1]) = inbox[1][1] /\ 1 \in 1..Len(inbox[1])
        BY <1>0, <2>1, SequenceOf
      <3>. QED
        BY <2>1, <3>1, QuietHold
    <2>4. agent'.exec = agent.exec
      <3>1. agent \in [exec : [Id -> Statuses], hold : BOOLEAN, rev : Nat]
        BY DEF TypeOK
      <3>. QED
        BY <2>1, <2>3, <3>1 DEF ApplyHold
    <2>5. PathStep
      BY <2>1, <2>2 DEF PathStep, Left, sessionVars
    <2>. QED
      BY <2>1, <2>4, <2>5, PathQuiet DEF configVars, coordVars, sessionVars
  <1>2. CASE AgentPrepare(1)
    <2>1. /\ inbox[1] # <<>> /\ Head(inbox[1]).kind = "START" /\ busyCmd[1] = NoCommand
          /\ busyCmd' = [busyCmd EXCEPT ![1] = Head(inbox[1])]
          /\ inbox' = [inbox EXCEPT ![1] = Tail(@)]
          /\ UNCHANGED <<configVars, coordVars, sessionVars, agent>>
      BY <1>2 DEF AgentPrepare, Ready
    <2>2. inbox'[1] = Tail(inbox[1]) /\ busyCmd'[1] = Head(inbox[1])
      BY <1>0, <2>1
    <2>3. PathStep
      BY <2>1, <2>2 DEF PathStep, Left, sessionVars
    <2>. QED
      BY <2>1, <2>3, PathQuiet DEF configVars, coordVars, sessionVars
  <1>3. ASSUME NEW kind \in Expiring, ObservationExpires(kind)
        PROVE  PathInOrder' /\ DispatchQuiet'
    <2>1. /\ obs' = Expire(obs, kind)
          /\ UNCHANGED <<configVars, inFlight, worker, sessionVars, agentVars>>
      BY <1>3 DEF ObservationExpires
    <2>2. obs'.execs = obs.execs /\ obs'.seq = obs.seq /\ obs'.fresh = obs.fresh \ {kind}
      BY <2>1 DEF Expire, TypeOK, Entry
    <2>3. kind # "executions"
      BY <1>3 DEF OneQuietSession
    <2>4. PathStep
      BY <2>1, NothingAsked DEF PathStep, sessionVars, agentVars
    <2>. QED
      BY <2>1, <2>2, <2>3, <2>4, PathQuiet DEF configVars, sessionVars, agentVars
  <1>4. ASSUME NEW b, UnmanagedProcess(b) \/ UNCHANGED vars
        PROVE  PathInOrder' /\ DispatchQuiet'
    <2>1. UNCHANGED <<configVars, coordVars, sessionVars, agentVars>>
      BY <1>4 DEF UnmanagedProcess, vars
    <2>2. PathStep
      BY <2>1, NothingAsked DEF PathStep, sessionVars, agentVars
    <2>. QED
      BY <2>1, <2>2, PathQuiet DEF configVars, coordVars, sessionVars, agentVars
  <1>. QED
    BY <1>1, <1>2, <1>3, <1>4

\* Steps that only write the database.
LEMMA Evolves ==
  ASSUME Before, UNCHANGED <<coordVars, sessionVars, agentVars>>, snaps \subseteq snaps',
         \A i \in snaps : /\ RequestStillCurrent(i)' => RequestStillCurrent(i)
                          /\ desired[i[1]].blocked = i[2] /\ RequestStillCurrent(i)' =>
                                desired'[i[1]].blocked = i[2],
         \A f \in inFlight : desired'[f.key.id[1]].exists,
         SnapsKnown', DeletedDead', BarrierStands'
  PROVE  PathInOrder' /\ DispatchQuiet'
  <1>1. /\ UNCHANGED <<obs, inFlight, worker, session, pending, replies, inbox, busyCmd, agent>>
        /\ PathInOrder /\ DispatchQuiet
    BY DEF Before, coordVars, sessionVars, agentVars
  <1>2. PathInOrder' /\ Underway' = Underway
    BY <1>1 DEF PathInOrder, Answered, Underway
  <1>3. FreshFirst' /\ PathKeys'
    BY <1>1, <1>2 DEF DispatchQuiet, FreshFirst, PathKeys
  <1>4. OneKey'
    <2>1. \A i : Clear(i)' <=> Clear(i)
      BY <1>1 DEF Clear
    <2>2. ASSUME NEW f \in inFlight
          PROVE  /\ f.key.epoch = 1 /\ f.key.act \in {"START", "STOP"} /\ f.key.id \in snaps
                 /\ \/ f.seq = session.seq
                    \/ f.seq = 0 /\ \E r \in Worker : worker[r].pc # "idle" /\ worker[r].key = f.key
                 /\ f.key.act = "STOP" => ~RequestStillCurrent(f.key.id)
                 /\ f.key.act = "START" => Clear(f.key.id)
                 /\ \A g \in inFlight : f = g
      BY <1>1 DEF DispatchQuiet, OneKey
    <2>3. \A f \in inFlight : f.key.id \in snaps' /\
             (f.key.act = "STOP" => ~RequestStillCurrent(f.key.id)')
      BY <2>2
    <2>. QED
      BY <1>1, <2>1, <2>2, <2>3 DEF OneKey
  <1>5. ASSUME NEW k, Finished(k) PROVE Finished(k)'
    <2>1. k.id \in snaps
      BY <1>5 DEF Finished
    <2>2. Confirmed(k) => Confirmed(k)'
      BY <1>1 DEF Confirmed, Lists
    <2>3. Keys' = Keys
      BY <1>1 DEF Keys
    <2>. QED
      BY <1>5, <2>1, <2>2, <2>3, FinishedKept
  <1>6. WorkersQuiet'
    <2>1. \A r \in Worker : Holds(r)' <=> Holds(r)
      BY <1>1 DEF Holds
    <2>2. Keys' = Keys
      BY <1>1 DEF Keys
    <2>. QED
      BY <1>1, <1>2, <1>5, <2>1, <2>2 DEF DispatchQuiet, WorkersQuiet
  <1>7. SeenLive'
    BY <1>1 DEF DispatchQuiet, SeenLive, StartOut
  <1>8. ListsLive' /\ OutcomesTrue'
    BY <1>1 DEF DispatchQuiet, ListsLive, OutcomesTrue, Lists
  <1>9. NoOverlap'
    BY <1>1 DEF DispatchQuiet, NoOverlap
  <1>. QED
    BY <1>2, <1>3, <1>4, <1>6, <1>7, <1>8, <1>9 DEF DispatchQuiet

\* An execution the list does not have is not live, unless its START is out.
LEMMA NotSeen ==
  ASSUME DispatchQuiet, "executions" \in obs.fresh, NEW j \in Id,
         agent.exec[j] = "RUNNING", obs.execs[j] # "RUNNING"
  PROVE  /\ StartOut(j) /\ \E f \in inFlight : f.key = Key("START", j, 1)
         /\ \E k \in Keys : k.id = j
  <1>1. StartOut(j)
    BY DEF DispatchQuiet, SeenLive
  <1>2. PICK f \in inFlight : f.key = Key("START", j, 1)
    BY <1>1 DEF StartOut
  <1>3. f.key \in Keys /\ f.key.id = j
    BY <1>2 DEF Keys, Key
  <1>. QED
    BY <1>1, <1>2, <1>3

\* A new generation.
LEMMA GenerationQuiet ==
  ASSUME Before, UNCHANGED <<barrier, coordVars, sessionVars, agentVars>>,
         NEW w \in Workload,
         snaps' = snaps \/ snaps' = snaps \cup {<<w, desired[w].gen + 1>>},
         desired' \in [Workload -> WorkloadRow], desired'[w].gen = desired[w].gen + 1,
         desired[w].exists, desired'[w].exists,
         \A v \in Workload : v # w => desired'[v] = desired[v]
  PROVE  PathInOrder' /\ DispatchQuiet'
  <1>. TypeOK /\ DispatchQuiet
    BY DEF Before, CoordTypes
  <1>1. /\ snaps \subseteq Id /\ \A v \in Workload : desired[v].gen \in Nat /\ desired'[v].gen \in Nat
        /\ UNCHANGED <<inFlight, agent>>
    <2>1. desired \in [Workload -> WorkloadRow] /\ snaps \subseteq Id
      BY DEF TypeOK, WorkloadRow
    <2>2. \A d \in [Workload -> WorkloadRow] : \A v \in Workload : d[v].gen \in Nat
      BY CoordinatorAssumption DEF WorkloadRow
    <2>. QED
      BY <2>1, <2>2 DEF coordVars, agentVars
  <1>2. \A i \in Id : i[1] \in Workload /\ i[2] \in Nat
    BY CoordinatorAssumption
  <1>3. \A i \in snaps : 1 <= i[2] /\ i[2] <= desired[i[1]].gen
    BY DEF DispatchQuiet, SnapsKnown
  <1>4. ASSUME NEW i \in snaps
        PROVE  /\ RequestStillCurrent(i)' => RequestStillCurrent(i)
               /\ desired[i[1]].blocked = i[2] /\ RequestStillCurrent(i)' =>
                     desired'[i[1]].blocked = i[2]
    <2>1. CASE i[1] = w
      <3>1. i[2] <= desired[w].gen /\ i[2] \in Nat /\ desired[w].gen \in Nat
        BY <1>1, <1>2, <1>3, <2>1
      <3>2. desired'[i[1]].gen # i[2]
        BY <2>1, <3>1
      <3>. QED
        BY <3>2 DEF RequestStillCurrent
    <2>2. CASE i[1] # w
      <3>1. desired'[i[1]] = desired[i[1]]
        BY <1>1, <1>2, <2>2
      <3>. QED
        BY <3>1 DEF RequestStillCurrent
    <2>. QED
      BY <2>1, <2>2
  <1>5. \A f \in inFlight : desired'[f.key.id[1]].exists
    <2>1. ASSUME NEW f \in inFlight PROVE desired'[f.key.id[1]].exists
      <3>1. desired[f.key.id[1]].exists /\ f.key.id \in Id
        BY <1>1 DEF DispatchQuiet, OneKey
      <3>. QED
        BY <1>2, <3>1
    <2>. QED
      BY <2>1
  <1>6. SnapsKnown'
    <2>1. ASSUME NEW i \in snaps PROVE 1 <= i[2] /\ i[2] <= desired'[i[1]].gen
      <3>1. i[1] \in Workload /\ i[2] \in Nat /\ 1 <= i[2] /\ i[2] <= desired[i[1]].gen
        BY <1>1, <1>2, <1>3
      <3>2. CASE i[1] = w
        BY <1>1, <3>1, <3>2
      <3>3. CASE i[1] # w
        BY <3>1, <3>3
      <3>. QED
        BY <3>1, <3>2, <3>3
    <2>2. <<w, desired[w].gen + 1>>[1] = w /\ <<w, desired[w].gen + 1>>[2] = desired[w].gen + 1
      OBVIOUS
    <2>3. 1 <= desired[w].gen + 1 /\ desired[w].gen + 1 <= desired'[w].gen
      BY <1>1
    <2>4. \A i \in snaps' : 1 <= i[2] /\ i[2] <= desired'[i[1]].gen
      BY <2>1, <2>2, <2>3
    <2>5. \A i \in Id : agent'.exec[i] = "RUNNING" /\ i[2] > 0 => i \in snaps'
      BY <1>1 DEF DispatchQuiet, SnapsKnown
    <2>. QED
      BY <2>4, <2>5 DEF SnapsKnown
  <1>7. DeletedDead'
    <2>1. \A v \in Workload : ~desired'[v].exists => ~desired[v].exists
      OBVIOUS
    <2>. QED
      BY <1>1, <2>1 DEF DispatchQuiet, DeletedDead
  <1>8. BarrierStands'
    BY <1>1 DEF DispatchQuiet, BarrierStands
  <1>. QED
    BY <1>4, <1>5, <1>6, <1>7, <1>8, Evolves

\* The operator's writes.
LEMMA OperatorQuiet ==
  ASSUME Before, Operator
  PROVE  PathInOrder' /\ DispatchQuiet'
  <1>. /\ OneQuietSession /\ TypeOK /\ TypeOK' /\ HoldInv /\ SessionQuiet /\ DispatchQuiet /\ FreshFirst
    BY DEF Before, CoordTypes, DispatchQuiet
  <1>0. /\ desired \in [Workload -> WorkloadRow] /\ desired' \in [Workload -> WorkloadRow]
        /\ snaps \subseteq Id
    BY DEF TypeOK, WorkloadRow
  <1>1. ASSUME NEW w \in Workload, NEW run \in BOOLEAN, UpdateDesiredWorkload(w, run)
        PROVE  PathInOrder' /\ DispatchQuiet'
    <2>1. /\ UNCHANGED <<barrier, coordVars, sessionVars, agentVars>> /\ desired[w].exists
          /\ desired' = [desired EXCEPT ![w].run = run, ![w].gen = @ + 1]
          /\ snaps' = snaps \/ snaps' = snaps \cup {<<w, desired[w].gen + 1>>}
      BY <1>1 DEF UpdateDesiredWorkload
    <2>2. /\ desired'[w].gen = desired[w].gen + 1 /\ desired'[w].exists = desired[w].exists
          /\ \A v \in Workload : v # w => desired'[v] = desired[v]
      BY <1>0, <2>1 DEF WorkloadRow
    <2>. QED
      BY <1>0, <2>1, <2>2, GenerationQuiet
  <1>2. ASSUME NEW w \in Workload, RetryWorkload(w)
        PROVE  PathInOrder' /\ DispatchQuiet'
    <2>1. /\ UNCHANGED <<barrier, coordVars, sessionVars, agentVars>> /\ desired[w].exists
          /\ desired' = [desired EXCEPT ![w].gen = @ + 1, ![w].blocked = 0]
          /\ snaps' = snaps \cup {<<w, desired[w].gen + 1>>}
      BY <1>2 DEF RetryWorkload
    <2>2. /\ desired'[w].gen = desired[w].gen + 1 /\ desired'[w].exists = desired[w].exists
          /\ \A v \in Workload : v # w => desired'[v] = desired[v]
      BY <1>0, <2>1 DEF WorkloadRow
    <2>. QED
      BY <1>0, <2>1, <2>2, GenerationQuiet
  <1>3. ASSUME NEW w \in Workload, DeleteDesiredWorkload(w)
        PROVE  PathInOrder' /\ DispatchQuiet'
    <2>1. /\ UNCHANGED <<snaps, barrier, coordVars, sessionVars, agentVars>>
          /\ RetirementProof(w)
          /\ desired' = [desired EXCEPT ![w].exists = FALSE]
      BY <1>3 DEF DeleteDesiredWorkload
    <2>2. /\ desired'[w].gen = desired[w].gen /\ desired'[w].run = desired[w].run
          /\ desired'[w].blocked = desired[w].blocked /\ desired'[w].exists = FALSE
          /\ \A v \in Workload : v # w => desired'[v] = desired[v]
      BY <1>0, <2>1 DEF WorkloadRow
    <2>3. \A i \in Id : i[1] \in Workload /\ i[2] \in Nat
      BY CoordinatorAssumption
    <2>4. \A v \in Workload : /\ desired'[v].gen = desired[v].gen /\ desired'[v].run = desired[v].run
                              /\ desired'[v].blocked = desired[v].blocked
                              /\ desired'[v].exists => desired[v].exists
      BY <2>2
    <2>5. \A i \in snaps : /\ RequestStillCurrent(i)' => RequestStillCurrent(i)
                           /\ desired'[i[1]].blocked = desired[i[1]].blocked
      <3>1. ASSUME NEW i \in snaps
            PROVE  /\ RequestStillCurrent(i)' => RequestStillCurrent(i)
                   /\ desired'[i[1]].blocked = desired[i[1]].blocked
        <4>1. i[1] \in Workload
          BY <1>0, <2>3
        <4>. QED
          BY <2>4, <4>1 DEF RequestStillCurrent
      <3>. QED
        BY <3>1
    <2>6. \A f \in inFlight : desired'[f.key.id[1]].exists
      <3>1. ASSUME NEW f \in inFlight PROVE desired'[f.key.id[1]].exists
        <4>1. desired[f.key.id[1]].exists /\ f.key.id \in Id
          BY <1>0 DEF DispatchQuiet, OneKey
        <4>2. f.key \in Keys
          BY DEF Keys
        <4>3. f.key.id[1] # w
          BY <2>1, <4>2 DEF RetirementProof, WorkloadHasInFlight
        <4>4. f.key.id[1] \in Workload
          BY <2>3, <4>1
        <4>. QED
          BY <2>2, <4>1, <4>3, <4>4
      <3>. QED
        BY <3>1
    <2>7. SnapsKnown'
      <3>1. ASSUME NEW i \in snaps PROVE 1 <= i[2] /\ i[2] <= desired'[i[1]].gen
        <4>1. i[1] \in Workload /\ 1 <= i[2] /\ i[2] <= desired[i[1]].gen
          BY <1>0, <2>3 DEF DispatchQuiet, SnapsKnown
        <4>. QED
          BY <2>4, <4>1
      <3>. QED
        BY <2>1, <3>1 DEF DispatchQuiet, SnapsKnown, agentVars
    <2>8. DeletedDead'
      <3>1. ASSUME NEW i \in Id, i[1] = w, i[2] > 0, agent.exec[i] = "RUNNING" PROVE FALSE
        <4>1. i \in snaps
          BY <3>1 DEF DispatchQuiet, SnapsKnown
        <4>2. "executions" \in obs.fresh /\ ~HoldsResources(obs.execs[i])
          BY <2>1, <3>1, <4>1 DEF RetirementProof, Usable
        <4>3. obs.execs[i] # "RUNNING"
          BY <4>2 DEF HoldsResources
        <4>4. \E k \in Keys : k.id = i
          BY <3>1, <4>2, <4>3, NotSeen
        <4>. QED
          BY <2>1, <3>1, <4>4 DEF RetirementProof, WorkloadHasInFlight
      <3>2. \A v \in Workload : ~desired'[v].exists => v = w \/ ~desired[v].exists
        BY <2>2
      <3>3. agent' = agent
        BY <2>1 DEF agentVars
      <3>. QED
        BY <3>1, <3>2, <3>3 DEF DispatchQuiet, DeletedDead
    <2>9. BarrierStands'
      BY <2>1 DEF DispatchQuiet, BarrierStands, coordVars, agentVars
    <2>. QED
      BY <2>1, <2>5, <2>6, <2>7, <2>8, <2>9, Evolves
  <1>. QED
    BY <1>1, <1>2, <1>3, NeverHappens DEF Operator

\* What blocking leaves of a workload.
LEMMA BlocksKeep ==
  ASSUME NEW invalid, ApplyBlocks(invalid), desired \in [Workload -> WorkloadRow]
  PROVE  \A v \in Workload : /\ desired'[v].exists = desired[v].exists
                             /\ desired'[v].gen = desired[v].gen /\ desired'[v].run = desired[v].run
                             /\ desired'[v].blocked \in {desired[v].blocked, desired[v].gen}
  <1>1. ASSUME NEW v \in Workload
        PROVE  /\ desired'[v].exists = desired[v].exists
               /\ desired'[v].gen = desired[v].gen /\ desired'[v].run = desired[v].run
               /\ desired'[v].blocked \in {desired[v].blocked, desired[v].gen}
    <2>1. /\ desired[v] \in WorkloadRow
          /\ \/ desired'[v] = [desired[v] EXCEPT !.blocked = desired[v].gen]
             \/ desired'[v] = desired[v]
      BY DEF ApplyBlocks
    <2>. QED
      BY <2>1 DEF WorkloadRow
  <1>. QED
    BY <1>1

\* Blocking failed generations.
LEMMA BlocksQuiet ==
  ASSUME Before, NEW r \in Worker, NEW invalid, PrepareBlocks(r, invalid)
  PROVE  PathInOrder' /\ DispatchQuiet'
  <1>. TypeOK /\ DispatchQuiet
    BY DEF Before, CoordTypes
  <1>1. /\ UNCHANGED <<snaps, barrier, coordVars, sessionVars, agentVars>> /\ ApplyBlocks(invalid)
    BY DEF PrepareBlocks
  <1>2. desired \in [Workload -> WorkloadRow] /\ snaps \subseteq Id
    BY DEF TypeOK, WorkloadRow
  <1>3. \A v \in Workload : /\ desired'[v].exists = desired[v].exists
                            /\ desired'[v].gen = desired[v].gen /\ desired'[v].run = desired[v].run
                            /\ desired'[v].blocked \in {desired[v].blocked, desired[v].gen}
    BY <1>1, <1>2, BlocksKeep
  <1>4. \A i \in Id : i[1] \in Workload
    BY CoordinatorAssumption
  <1>5. ASSUME NEW i \in snaps
        PROVE  /\ RequestStillCurrent(i)' => RequestStillCurrent(i)
               /\ desired[i[1]].blocked = i[2] /\ RequestStillCurrent(i)' =>
                     desired'[i[1]].blocked = i[2]
    <2>1. i[1] \in Workload
      BY <1>2, <1>4
    <2>. QED
      BY <1>3, <2>1 DEF RequestStillCurrent
  <1>6. \A f \in inFlight : desired'[f.key.id[1]].exists
    <2>1. ASSUME NEW f \in inFlight PROVE desired'[f.key.id[1]].exists
      <3>1. desired[f.key.id[1]].exists /\ f.key.id[1] \in Workload
        BY <1>2, <1>4 DEF DispatchQuiet, OneKey
      <3>. QED
        BY <1>3, <3>1
    <2>. QED
      BY <2>1
  <1>7. SnapsKnown'
    <2>1. ASSUME NEW i \in snaps PROVE 1 <= i[2] /\ i[2] <= desired'[i[1]].gen
      <3>1. i[1] \in Workload /\ 1 <= i[2] /\ i[2] <= desired[i[1]].gen
        BY <1>2, <1>4 DEF DispatchQuiet, SnapsKnown
      <3>. QED
        BY <1>3, <3>1
    <2>. QED
      BY <1>1, <2>1 DEF DispatchQuiet, SnapsKnown, agentVars
  <1>8. DeletedDead'
    BY <1>1, <1>3 DEF DispatchQuiet, DeletedDead, agentVars
  <1>9. BarrierStands'
    BY <1>1 DEF DispatchQuiet, BarrierStands, coordVars, agentVars
  <1>. QED
    BY <1>1, <1>5, <1>6, <1>7, <1>8, <1>9, Evolves

\* The restore barrier and what it asks of the list.
LEMMA BarrierStep ==
  ASSUME Before, NEW r \in Worker, ApplyRestoreBarrier(r)
  PROVE  PathInOrder' /\ DispatchQuiet'
  <1>. TypeOK /\ DispatchQuiet
    BY DEF Before, CoordTypes
  <1>1. /\ UNCHANGED <<desired, snaps, coordVars, sessionVars, agentVars>>
        /\ "executions" \in obs.fresh /\ barrier # "NONE"
        /\ barrier' = IF BarrierConflict THEN "CONFLICT" ELSE "NONE"
    BY DEF ApplyRestoreBarrier, MayPrepare, Usable, BarrierLifted
  <1>2. inFlight = {} /\ UNCHANGED <<inFlight, agent>>
    BY <1>1 DEF DispatchQuiet, BarrierStands, coordVars, agentVars
  <1>3. ASSUME NEW w \in Workload, agent.exec[<<w, 0>>] = "RUNNING" PROVE barrier' # "NONE"
    <2>1. PICK i : i = <<w, 0>> /\ i \in Id /\ i[2] = 0
      <3>1. 0 \in 0..MaxGen
        BY CoordinatorAssumption
      <3>2. <<w, 0>> \in Workload \X (0..MaxGen) /\ <<w, 0>>[2] = 0
        BY <3>1
      <3>. QED
        BY <3>2, CoordinatorAssumption
    <2>2. i \notin snaps
      BY <2>1 DEF DispatchQuiet, SnapsKnown
    <2>3. obs.execs[i] = "RUNNING"
      BY <1>1, <1>2, <1>3, <2>1, NotSeen
    <2>4. BarrierConflict
      BY <2>1, <2>2, <2>3 DEF BarrierConflict, HoldsResources
    <2>. QED
      BY <1>1, <2>4
  <1>4. BarrierStands'
    BY <1>2, <1>3 DEF BarrierStands
  <1>5. \A i : (RequestStillCurrent(i)' <=> RequestStillCurrent(i))
               /\ desired'[i[1]].blocked = desired[i[1]].blocked
    BY <1>1 DEF RequestStillCurrent
  <1>6. \A f \in inFlight : desired'[f.key.id[1]].exists
    BY <1>2
  <1>7. SnapsKnown' /\ DeletedDead'
    BY <1>1, <1>2 DEF DispatchQuiet, SnapsKnown, DeletedDead
  <1>. QED
    BY <1>1, <1>4, <1>5, <1>6, <1>7, Evolves

\* Steps of the Controller that leave the path and the Agent alone.
LEMMA LeavesAgent ==
  ASSUME PathInOrder, ListsLive, OutcomesTrue, NoOverlap,
         UNCHANGED <<inbox, busyCmd, replies, agent>>, session'.seq = session.seq
  PROVE  /\ PathInOrder' /\ Underway' = Underway
         /\ ListsLive' /\ OutcomesTrue' /\ NoOverlap'
         /\ \A i : Clear(i)' <=> Clear(i)
         /\ \A k : UNCHANGED obs => (Confirmed(k)' <=> Confirmed(k))
  BY DEF PathInOrder, Answered, Underway, ListsLive, OutcomesTrue, Lists, NoOverlap, Clear, Confirmed

\* What the planner asks for on a Host without a hold.
LEMMA PlanMeans ==
  ASSUME TypeOK, hold.active = FALSE, NEW w \in Workload, NEW i \in PlanOf(w).ids,
         PlanOf(w).act \in {"START", "STOP"}
  PROVE  /\ i \in snaps /\ i \in Id /\ i[1] = w
         /\ PlanOf(w).act = "STOP" =>
               /\ ~(desired[w].run /\ desired[w].gen = i[2]) /\ HoldsResources(obs.execs[i])
         /\ PlanOf(w).act = "START" =>
               /\ desired[w].run /\ desired[w].gen = i[2] /\ desired[w].blocked # i[2]
               /\ ~HoldsResources(obs.execs[i]) /\ ~StartConflict(w, i, snaps, obs)
  <1>. DEFINE cur == <<w, desired[w].gen>>
              owned == {j \in snaps : j[1] = w /\ HoldsResources(obs.execs[j])}
              running == (desired[w].run /\ cur \in snaps) /\ cur \in owned
              old == IF running THEN owned \ {cur} ELSE owned
  <1>1. snaps \subseteq Id /\ \A j \in Id : j = <<j[1], j[2]>>
    BY CoordinatorAssumption DEF TypeOK
  <1>2. \/ PlanOf(w).act = "STOP" /\ PlanOf(w).ids = old
        \/ /\ PlanOf(w).act = "START" /\ PlanOf(w).ids = {cur}
           /\ desired[w].run /\ desired[w].blocked # desired[w].gen /\ ~running
           /\ cur \in snaps /\ ~StartConflict(w, cur, snaps, obs)
    BY DEF PlanOf, Plan, NoAction
  <1>3. CASE PlanOf(w).act = "STOP" /\ PlanOf(w).ids = old
    <2>1. i \in owned /\ (running => i # cur)
      BY <1>3
    <2>2. i \in snaps /\ i \in Id /\ i[1] = w /\ HoldsResources(obs.execs[i])
      BY <1>1, <2>1
    <2>3. desired[w].run /\ desired[w].gen = i[2] => i = cur
      BY <1>1, <2>2
    <2>. QED
      BY <1>3, <2>1, <2>2, <2>3
  <1>4. CASE /\ PlanOf(w).act = "START" /\ PlanOf(w).ids = {cur}
             /\ desired[w].run /\ desired[w].blocked # desired[w].gen /\ ~running
             /\ cur \in snaps /\ ~StartConflict(w, cur, snaps, obs)
    <2>1. i = cur /\ i[1] = w /\ i[2] = desired[w].gen
      BY <1>4
    <2>2. ~HoldsResources(obs.execs[i])
      BY <1>4, <2>1
    <2>. QED
      BY <1>1, <1>4, <2>1, <2>2
  <1>. QED
    BY <1>2, <1>3, <1>4

\* A plan for a Host without anything in flight is not one that a late worker made.
LEMMA PlanIsNew ==
  ASSUME TypeOK, DispatchQuiet, hold.active = FALSE, NEW w \in Workload, NEW i \in PlanOf(w).ids,
         PlanOf(w).act \in {"START", "STOP"}, desired[w].exists, NEW k, Finished(k)
  PROVE  /\ k # Key(PlanOf(w).act, i, 1)
         /\ k.act = "STOP" => Key("START", k.id, 1) # Key(PlanOf(w).act, i, 1)
  <1>1. /\ i[1] = w
        /\ PlanOf(w).act = "STOP" => HoldsResources(obs.execs[i])
        /\ PlanOf(w).act = "START" => RequestStillCurrent(i) /\ desired[i[1]].blocked # i[2]
                                      /\ ~HoldsResources(obs.execs[i])
    <2>1. /\ i[1] = w
          /\ PlanOf(w).act = "STOP" => HoldsResources(obs.execs[i])
          /\ PlanOf(w).act = "START" =>
                /\ desired[w].run /\ desired[w].gen = i[2] /\ desired[w].blocked # i[2]
                /\ ~HoldsResources(obs.execs[i])
      BY PlanMeans
    <2>. QED
      BY <2>1 DEF RequestStillCurrent
  <1>2. ASSUME k = Key(PlanOf(w).act, i, 1) PROVE FALSE
    <2>1. k.act = PlanOf(w).act /\ k.id = i
      BY <1>2 DEF Key
    <2>. QED
      BY <1>1, <2>1 DEF Finished, Confirmed, Agrees
  <1>3. ASSUME k.act = "STOP", Key("START", k.id, 1) = Key(PlanOf(w).act, i, 1) PROVE FALSE
    <2>1. PlanOf(w).act = "START" /\ k.id = i
      BY <1>3 DEF Key
    <2>. QED
      BY <1>1, <1>3, <2>1 DEF Finished
  <1>. QED
    BY <1>2, <1>3

\* A plan reserves its key.
LEMMA DispatchQuietly ==
  ASSUME Before, NEW r \in Worker, NEW invalid \in SUBSET Workload, PrepareDispatch(r, invalid)
  PROVE  PathInOrder' /\ DispatchQuiet'
  <1>. /\ OneQuietSession /\ TypeOK /\ TypeOK' /\ HoldInv /\ SessionQuiet /\ DispatchQuiet
       /\ PathInOrder /\ FreshFirst /\ PathKeys /\ OneKey /\ WorkersQuiet
    BY DEF Before, CoordTypes, DispatchQuiet
  <1>1. /\ MayPrepare(r) /\ BarrierLifted /\ ~HostHasInFlight /\ Dispatching(invalid) # {}
        /\ ApplyBlocks(invalid)
        /\ UNCHANGED <<snaps, barrier, obs, session, pending, replies, inbox, busyCmd, agent>>
    BY DEF PrepareDispatch, sessionVars, agentVars
  <1>2. worker[r].pc = "idle" /\ "executions" \in obs.fresh /\ barrier = "NONE" /\ obs.epoch = 1
    BY <1>1, FreshIsOpen DEF MayPrepare, Usable, BarrierLifted
  <1>3. inFlight = {} /\ Keys = {} /\ Underway = {}
    <2>1. ASSUME NEW f \in inFlight PROVE FALSE
      <3>1. f.key.epoch = 1 /\ f.key \in Keys
        BY DEF OneKey, Keys
      <3>. QED
        BY <1>1, <1>2, <3>1 DEF HostHasInFlight
    <2>2. inFlight = {}
      BY <2>1
    <2>. QED
      BY <2>2 DEF Keys, PathKeys
  <1>4. \A j \in Id : agent.exec[j] = "RUNNING" => obs.execs[j] = "RUNNING"
    BY <1>2, <1>3, NotSeen
  <1>5. PICK w \in Dispatching(invalid) : w = First(Dispatching(invalid))
    BY <1>1, LeastOf DEF Dispatching
  <1>. DEFINE act == PlanOf(w).act
  <1>6. PICK i \in PlanOf(w).ids :
           /\ MarkInFlight(Key(act, i, obs.epoch))
           /\ worker' = [worker EXCEPT ![r] =
                 [pc |-> "reserved", key |-> Key(act, i, obs.epoch), seq |-> 0, seen |-> obs]]
    BY <1>5 DEF PrepareDispatch
  <1>7. w \in Workload /\ desired[w].exists /\ act \in {"START", "STOP"} /\ hold.active = FALSE
    BY <1>5, QuietHold DEF Dispatching
  <1>. DEFINE key == Key(act, i, 1)
  <1>8. key.act = act /\ key.id = i /\ key.epoch = 1
    BY DEF Key
  <1>9. /\ i \in snaps /\ i \in Id /\ i[1] = w
        /\ act = "STOP" => ~RequestStillCurrent(i)
        /\ act = "START" => RequestStillCurrent(i) /\ Clear(i)
    <2>1. /\ i \in snaps /\ i \in Id /\ i[1] = w
          /\ act = "STOP" => ~(desired[w].run /\ desired[w].gen = i[2])
          /\ act = "START" => /\ desired[w].run /\ desired[w].gen = i[2]
                              /\ ~StartConflict(w, i, snaps, obs)
      BY <1>7, PlanMeans
    <2>2. ASSUME act = "START", NEW j \in Id \ {i}, Overlap(i[1], j[1]), agent.exec[j] = "RUNNING"
          PROVE  FALSE
      <3>1. obs.execs[j] = "RUNNING"
        BY <1>4, <2>2
      <3>2. StartConflict(w, i, snaps, obs)
        BY <2>1, <2>2, <3>1 DEF StartConflict, BlocksStartResources
      <3>. QED
        BY <2>1, <2>2, <3>2
    <2>. QED
      BY <1>7, <2>1, <2>2 DEF RequestStillCurrent, Clear
  <1>10. \A k : Finished(k) => k # key /\ (k.act = "STOP" => Key("START", k.id, 1) # key)
    BY <1>7, PlanIsNew
  <1>. HIDE DEF act
  <1>11. /\ worker'[r].pc = "reserved" /\ worker'[r].key = key
         /\ \A q \in Worker : q # r => worker'[q] = worker[q]
    BY <1>2, <1>6, WorkerTypes
  <1>. HIDE DEF key
  <1>12. inFlight' = {[key |-> key, seq |-> 0]}
    BY <1>2, <1>3, <1>6 DEF MarkInFlight, key
  <1>13. Keys' = {key}
    BY <1>12 DEF Keys
  <1>14. /\ PathInOrder' /\ Underway' = {} /\ ListsLive' /\ OutcomesTrue' /\ NoOverlap'
         /\ \A j : Clear(j)' <=> Clear(j)
         /\ \A k : Confirmed(k)' <=> Confirmed(k)
    BY <1>1, <1>3, LeavesAgent DEF DispatchQuiet
  <1>15. desired \in [Workload -> WorkloadRow] /\ snaps \subseteq Id /\ \A j \in Id : j[1] \in Workload
    BY CoordinatorAssumption DEF TypeOK, WorkloadRow
  <1>16. \A v \in Workload : /\ desired'[v].exists = desired[v].exists
                             /\ desired'[v].gen = desired[v].gen /\ desired'[v].run = desired[v].run
                             /\ desired'[v].blocked \in {desired[v].blocked, desired[v].gen}
    BY <1>1, <1>15, BlocksKeep
  <1>17. \A j \in Id : /\ RequestStillCurrent(j)' <=> RequestStillCurrent(j)
                       /\ desired'[j[1]].exists = desired[j[1]].exists
                       /\ desired[j[1]].blocked = j[2] /\ RequestStillCurrent(j)' =>
                             desired'[j[1]].blocked = j[2]
    <2>1. ASSUME NEW j \in Id
          PROVE  /\ RequestStillCurrent(j)' <=> RequestStillCurrent(j)
                 /\ desired'[j[1]].exists = desired[j[1]].exists
                 /\ desired[j[1]].blocked = j[2] /\ RequestStillCurrent(j)' =>
                       desired'[j[1]].blocked = j[2]
      <3>1. PICK v \in Workload : v = j[1]
        BY <1>15
      <3>. QED
        BY <1>16, <3>1 DEF RequestStillCurrent
    <2>. QED
      BY <2>1
  <1>18. FreshFirst' /\ PathKeys'
    BY <1>1, <1>2, <1>14 DEF FreshFirst, PathKeys
  <1>19. OneKey'
    <2>1. RequestStillCurrent(i)' <=> RequestStillCurrent(i)
      BY <1>9, <1>17
    <2>2. desired'[key.id[1]].exists
      BY <1>7, <1>8, <1>9, <1>17
    <2>3. \A f \in inFlight' : f.key = key /\ f.seq = 0 /\ \A g \in inFlight' : f = g
      BY <1>12
    <2>. QED
      BY <1>1, <1>7, <1>8, <1>9, <1>11, <1>14, <2>1, <2>2, <2>3 DEF OneKey
  <1>20. WorkersQuiet'
    <2>1. ASSUME NEW q \in Worker, q # r, worker'[q].pc # "idle"
          PROVE  /\ worker'[q].pc = "sent" /\ worker'[q].key # key
                 /\ worker'[q].key \notin Keys' /\ Finished(worker[q].key)'
      <3>1. worker'[q] = worker[q] /\ worker[q].pc \in {"reserved", "send", "sent"}
        <4>1. worker[q] \in WorkerRow
          BY WorkerTypes
        <4>. QED
          BY <1>11, <2>1, <4>1 DEF WorkerRow
      <3>2. ~Holds(q)
        BY <1>3 DEF Holds
      <3>3. worker[q].pc = "sent" /\ Finished(worker[q].key)
        BY <3>1, <3>2 DEF WorkersQuiet
      <3>4. PICK k : k = worker[q].key
        OBVIOUS
      <3>5. Finished(k) /\ k.id \in Id
        BY <1>15, <3>3, <3>4 DEF Finished
      <3>6. Finished(k)'
        BY <1>1, <1>10, <1>13, <1>14, <1>17, <3>5, FinishedKept
      <3>7. k # key
        BY <1>10, <3>5
      <3>. QED
        BY <1>13, <3>1, <3>3, <3>4, <3>6, <3>7
    <2>2. Holds(r)'
      BY <1>11, <1>12, <2>1 DEF Holds
    <2>. QED
      BY <1>11, <1>14, <2>1, <2>2 DEF WorkersQuiet
  <1>21. SeenLive'
    BY <1>1, <1>4 DEF SeenLive
  <1>22. SnapsKnown' /\ BarrierStands' /\ DeletedDead'
    <2>1. SnapsKnown'
      <3>1. ASSUME NEW j \in snaps PROVE 1 <= j[2] /\ j[2] <= desired'[j[1]].gen
        <4>1. j[1] \in Workload /\ 1 <= j[2] /\ j[2] <= desired[j[1]].gen
          BY <1>15 DEF DispatchQuiet, SnapsKnown
        <4>. QED
          BY <1>16, <4>1
      <3>. QED
        BY <1>1, <3>1 DEF DispatchQuiet, SnapsKnown
    <2>2. BarrierStands'
      BY <1>1, <1>2 DEF DispatchQuiet, BarrierStands
    <2>3. DeletedDead'
      BY <1>1, <1>16 DEF DispatchQuiet, DeletedDead
    <2>. QED
      BY <2>1, <2>2, <2>3
  <1>. QED
    BY <1>14, <1>18, <1>19, <1>20, <1>21, <1>22 DEF DispatchQuiet

\* A worker that has its key has the only one, and the others come too late for theirs.
LEMMA HoldsAlone ==
  ASSUME TypeOK, OneKey, WorkersQuiet, NEW r \in Worker, Holds(r)
  PROVE  /\ inFlight = {[key |-> worker[r].key, seq |-> 0]} /\ Keys = {worker[r].key}
         /\ \A q \in Worker : q # r /\ worker[q].pc # "idle" =>
               worker[q].pc = "sent" /\ worker[q].key # worker[r].key /\ Finished(worker[q].key)
         /\ worker[r].pc \in {"reserved", "send"} => \A j \in Id : ~StartOut(j)
  <1>1. [key |-> worker[r].key, seq |-> 0] \in inFlight
    BY DEF Holds
  <1>2. inFlight = {[key |-> worker[r].key, seq |-> 0]}
    BY <1>1 DEF OneKey
  <1>3. Keys = {worker[r].key}
    BY <1>2 DEF Keys
  <1>4. ASSUME NEW q \in Worker, q # r, worker[q].pc # "idle"
        PROVE  worker[q].pc = "sent" /\ worker[q].key # worker[r].key /\ Finished(worker[q].key)
    <2>1. worker[q].pc \in {"reserved", "send", "sent"}
      <3>1. worker[q] \in WorkerRow
        BY WorkerTypes
      <3>. QED
        BY <1>4, <3>1 DEF WorkerRow
    <2>2. worker[q].key # worker[r].key
      BY <1>4 DEF Holds
    <2>3. ~Holds(q)
      <3>1. ASSUME [key |-> worker[q].key, seq |-> 0] \in inFlight PROVE FALSE
        <4>1. [key |-> worker[q].key, seq |-> 0] = [key |-> worker[r].key, seq |-> 0]
          BY <1>2, <3>1
        <4>2. [key |-> worker[q].key, seq |-> 0].key = [key |-> worker[r].key, seq |-> 0].key
          BY <4>1
        <4>. QED
          BY <2>2, <4>2
      <3>. QED
        BY <3>1 DEF Holds
    <2>. QED
      BY <2>1, <2>2, <2>3 DEF WorkersQuiet
  <1>5. ASSUME worker[r].pc \in {"reserved", "send"}, NEW j \in Id, StartOut(j) PROVE FALSE
    <2>1. PICK f \in inFlight :
             \A q \in Worker : worker[q].pc \in {"reserved", "send"} => worker[q].key # f.key
      BY <1>5 DEF StartOut
    <2>2. f.key = worker[r].key
      BY <1>2
    <2>. QED
      BY <1>5, <2>1, <2>2
  <1>. QED
    BY <1>2, <1>3, <1>4, <1>5

\* Steps of the workers over the keys.
LEMMA KeysOnly ==
  ASSUME Before,
         UNCHANGED <<desired, snaps, barrier, obs, session, pending, replies, inbox, busyCmd, agent>>,
         "executions" \in obs.fresh, inFlight = {} => inFlight' = {},
         PathKeys', OneKey', WorkersQuiet', SeenLive'
  PROVE  PathInOrder' /\ DispatchQuiet'
  <1>. PathInOrder /\ DispatchQuiet /\ FreshFirst
    BY DEF Before, DispatchQuiet
  <1>1. PathInOrder' /\ ListsLive' /\ OutcomesTrue' /\ NoOverlap'
    BY LeavesAgent DEF DispatchQuiet
  <1>2. SnapsKnown' /\ BarrierStands' /\ DeletedDead'
    BY DEF DispatchQuiet, SnapsKnown, BarrierStands, DeletedDead
  <1>3. FreshFirst'
    BY DEF FreshFirst
  <1>. QED
    BY <1>1, <1>2, <1>3 DEF DispatchQuiet

\* What the late workers of such a step know.
LEMMA LateStays ==
  ASSUME Before,
         UNCHANGED <<desired, snaps, obs, replies, inbox, busyCmd, agent>>, session'.seq = session.seq,
         Keys' \subseteq Keys, NEW k, Finished(k)
  PROVE  Finished(k)'
  <1>. PathInOrder /\ DispatchQuiet
    BY DEF Before, DispatchQuiet
  <1>1. Confirmed(k)' <=> Confirmed(k)
    BY LeavesAgent DEF DispatchQuiet
  <1>2. RequestStillCurrent(k.id)' <=> RequestStillCurrent(k.id)
    BY DEF RequestStillCurrent
  <1>. QED
    BY <1>1, <1>2, FinishedKept

\* The key of a worker is resolved.
LEMMA KeyGoes ==
  ASSUME Before, NEW r \in Worker, Holds(r), worker[r].pc # "idle", "executions" \in obs.fresh,
         UNCHANGED <<desired, snaps, barrier, obs, session, pending, replies, inbox, busyCmd, agent>>,
         worker' = [worker EXCEPT ![r] = IdleWorker], inFlight' = Without(worker[r].key),
         Underway = {}, \A j \in Id : ~StartOut(j)
  PROVE  PathInOrder' /\ DispatchQuiet'
  <1>. /\ TypeOK /\ PathInOrder /\ DispatchQuiet /\ PathKeys /\ OneKey /\ WorkersQuiet /\ SeenLive
    BY DEF Before, CoordTypes, DispatchQuiet
  <1>1. /\ worker'[r].pc = "idle" /\ \A q \in Worker : q # r => worker'[q] = worker[q]
    BY WorkerUpdates
  <1>2. /\ inFlight = {[key |-> worker[r].key, seq |-> 0]} /\ Keys = {worker[r].key}
        /\ \A q \in Worker : q # r /\ worker[q].pc # "idle" =>
              worker[q].pc = "sent" /\ worker[q].key # worker[r].key /\ Finished(worker[q].key)
    BY HoldsAlone
  <1>3. inFlight' = {} /\ Keys' = {}
    <2>1. inFlight' = {}
      BY <1>2 DEF Without
    <2>. QED
      BY <2>1 DEF Keys
  <1>4. Underway' = {}
    BY LeavesAgent DEF DispatchQuiet
  <1>5. PathKeys' /\ OneKey'
    BY <1>3, <1>4 DEF PathKeys, OneKey
  <1>6. WorkersQuiet'
    <2>1. ASSUME NEW q \in Worker, worker'[q].pc # "idle"
          PROVE  /\ worker'[q].pc = "sent" /\ worker'[q].key \notin Keys' /\ Finished(worker[q].key)'
      <3>1. q # r /\ worker'[q] = worker[q]
        BY <1>1, <2>1
      <3>2. worker[q].pc = "sent" /\ Finished(worker[q].key)
        BY <1>2, <2>1, <3>1
      <3>3. PICK k : k = worker[q].key
        OBVIOUS
      <3>4. Finished(k)'
        BY <1>3, <3>2, <3>3, LateStays
      <3>. QED
        BY <1>3, <3>1, <3>2, <3>3, <3>4
    <2>. QED
      BY <1>4, <2>1 DEF WorkersQuiet
  <1>7. SeenLive'
    BY DEF SeenLive
  <1>. QED
    BY <1>2, <1>5, <1>6, <1>7, KeysOnly

\* The last look before the send.
LEMMA RecheckQuiet ==
  ASSUME Before, NEW r \in Worker, Recheck(r)
  PROVE  PathInOrder' /\ DispatchQuiet'
  <1>. /\ OneQuietSession /\ TypeOK /\ SessionQuiet /\ PathInOrder /\ DispatchQuiet
       /\ FreshFirst /\ PathKeys /\ OneKey /\ WorkersQuiet /\ SeenLive
    BY DEF Before, CoordTypes, DispatchQuiet
  <1>1. /\ worker[r].pc = "reserved"
        /\ UNCHANGED <<desired, snaps, barrier, obs, session, pending, replies, inbox, busyCmd, agent>>
        /\ \/ worker' = [worker EXCEPT ![r].pc = "send"] /\ UNCHANGED inFlight
           \/ /\ worker' = [worker EXCEPT ![r] = IdleWorker]
              /\ inFlight' = Without(worker[r].key)
    BY DEF Recheck, configVars, sessionVars, agentVars
  <1>2. Holds(r) /\ Underway = {} /\ "executions" \in obs.fresh
    BY <1>1 DEF WorkersQuiet, FreshFirst
  <1>3. /\ \A j \in Id : ~StartOut(j)
        /\ inFlight = {[key |-> worker[r].key, seq |-> 0]} /\ Keys = {worker[r].key}
        /\ \A q \in Worker : q # r /\ worker[q].pc # "idle" =>
              worker[q].pc = "sent" /\ worker[q].key # worker[r].key /\ Finished(worker[q].key)
    BY <1>1, <1>2, HoldsAlone
  <1>4. CASE worker' = [worker EXCEPT ![r] = IdleWorker] /\ inFlight' = Without(worker[r].key)
    BY <1>1, <1>2, <1>3, <1>4, KeyGoes
  <1>5. CASE worker' = [worker EXCEPT ![r].pc = "send"] /\ UNCHANGED inFlight
    <2>1. /\ worker'[r].pc = "send" /\ worker'[r].key = worker[r].key
          /\ \A q \in Worker : q # r => worker'[q] = worker[q]
      BY <1>5, WorkerUpdates
    <2>2. Underway' = {} /\ \A j : Clear(j)' <=> Clear(j)
      BY <1>1, <1>2, LeavesAgent DEF DispatchQuiet
    <2>3. PathKeys'
      BY <1>1, <1>5, <2>2 DEF PathKeys
    <2>4. OneKey'
      <3>1. \A f \in inFlight : f.key = worker'[r].key /\ f.seq = 0
        BY <1>3, <2>1
      <3>2. \A j : RequestStillCurrent(j)' <=> RequestStillCurrent(j)
        BY <1>1 DEF RequestStillCurrent
      <3>. QED
        BY <1>1, <1>5, <2>1, <2>2, <3>1, <3>2 DEF OneKey
    <2>5. Keys' = Keys
      BY <1>5 DEF Keys
    <2>6. WorkersQuiet'
      <3>1. ASSUME NEW q \in Worker, q # r, worker'[q].pc # "idle"
            PROVE  /\ worker'[q].pc = "sent" /\ worker'[q].key # worker[r].key
                   /\ worker'[q].key \notin Keys' /\ Finished(worker[q].key)'
        <4>1. worker'[q] = worker[q]
          BY <2>1, <3>1
        <4>2. worker[q].pc = "sent" /\ worker[q].key # worker[r].key /\ Finished(worker[q].key)
          BY <1>3, <3>1, <4>1
        <4>3. PICK k : k = worker[q].key
          OBVIOUS
        <4>4. Finished(k)'
          BY <1>1, <2>5, <4>2, <4>3, LateStays
        <4>. QED
          BY <1>3, <2>5, <4>1, <4>2, <4>3, <4>4
      <3>2. Holds(r)'
        BY <1>3, <1>5, <2>1, <3>1 DEF Holds
      <3>. QED
        BY <2>1, <2>2, <3>1, <3>2 DEF WorkersQuiet
    <2>7. SeenLive'
      BY <1>1, <1>3 DEF SeenLive
    <2>. QED
      BY <1>1, <1>2, <1>5, <2>3, <2>4, <2>6, <2>7, KeysOnly
  <1>. QED
    BY <1>1, <1>4, <1>5

\* The dispatch sequence of a key, unless a later observation has resolved it.
LEMMA SequenceQuiet ==
  ASSUME Before, NEW r \in Worker, SetDispatchSequence(r)
  PROVE  PathInOrder' /\ DispatchQuiet'
  <1>. /\ OneQuietSession /\ TypeOK /\ SessionQuiet /\ PathInOrder /\ DispatchQuiet
       /\ FreshFirst /\ PathKeys /\ OneKey /\ WorkersQuiet /\ SeenLive
    BY DEF Before, CoordTypes, DispatchQuiet
  <1>1. /\ worker[r].pc = "sent"
        /\ UNCHANGED <<desired, snaps, barrier, obs, session, pending, replies, inbox, busyCmd, agent>>
        /\ worker' = [worker EXCEPT ![r] = IdleWorker]
        /\ inFlight' = IF \/ worker[r].key \notin Keys
                          \/ obs.epoch = worker[r].key.epoch /\ obs.seq >= worker[r].seq
                       THEN Without(worker[r].key)
                       ELSE Without(worker[r].key) \cup {[key |-> worker[r].key, seq |-> worker[r].seq]}
    BY DEF SetDispatchSequence, configVars, sessionVars, agentVars
  <1>2. "executions" \in obs.fresh /\ obs.epoch = worker[r].key.epoch
    BY <1>1, WorkerIsOpen, FreshIsOpen
  <1>3. worker'[r].pc = "idle" /\ \A q \in Worker : q # r => worker'[q] = worker[q]
    BY <1>1, WorkerUpdates
  <1>4. obs.seq \in Nat /\ session.seq \in Nat
    BY DEF TypeOK, Entry
  <1>5. Underway' = Underway /\ \A j : Clear(j)' <=> Clear(j)
    BY <1>1, LeavesAgent DEF DispatchQuiet
  <1>6. \A j : RequestStillCurrent(j)' <=> RequestStillCurrent(j)
    BY <1>1 DEF RequestStillCurrent
  <1>7. CASE Holds(r) /\ worker[r].seq = session.seq /\ session.seq > 0
    <2>1. /\ inFlight = {[key |-> worker[r].key, seq |-> 0]} /\ Keys = {worker[r].key}
          /\ \A q \in Worker : q # r /\ worker[q].pc # "idle" =>
                worker[q].pc = "sent" /\ worker[q].key # worker[r].key /\ Finished(worker[q].key)
      BY <1>7, HoldsAlone
    <2>2. CASE obs.seq >= session.seq
      <3>1. Underway = {} /\ \A j \in Id : ~StartOut(j)
        BY <1>4, <2>2 DEF PathKeys, StartOut
      <3>. QED
        BY <1>1, <1>2, <1>7, <2>2, <3>1, KeyGoes
    <2>3. CASE ~(obs.seq >= session.seq)
      <3>1. inFlight' = {[key |-> worker[r].key, seq |-> session.seq]}
        <4>1. Without(worker[r].key) = {}
          BY <2>1 DEF Without
        <4>. QED
          BY <1>1, <1>7, <2>1, <2>3, <4>1
      <3>2. Keys' = Keys
        BY <2>1, <3>1 DEF Keys
      <3>3. PICK f \in inFlight : f.key = worker[r].key
        BY <2>1
      <3>4. PICK g \in inFlight' : g.key = worker[r].key /\ g.seq = session.seq
        BY <3>1
      <3>5. \A h \in inFlight' : h = g
        BY <3>1
      <3>6. PathKeys'
        <4>1. ASSUME NEW c \in Underway
              PROVE  /\ c.seq = session.seq /\ obs.seq < session.seq
                     /\ g.key = Key(c.kind, c.id, 1)
          <5>1. PICK h \in inFlight : h.key = Key(c.kind, c.id, 1)
            BY DEF PathKeys
          <5>2. h.key = worker[r].key
            BY <2>1
          <5>. QED
            BY <3>4, <5>1, <5>2 DEF PathKeys
        <4>. QED
          BY <1>1, <1>5, <4>1 DEF PathKeys
      <3>7. OneKey'
        <4>1. /\ g.key.epoch = 1 /\ g.key.act \in {"START", "STOP"} /\ g.key.id \in snaps
              /\ desired[g.key.id[1]].exists
              /\ g.key.act = "STOP" => ~RequestStillCurrent(g.key.id)
              /\ g.key.act = "START" => Clear(g.key.id)
          BY <3>3, <3>4 DEF OneKey
        <4>2. /\ desired'[g.key.id[1]].exists /\ g.key.id \in snaps' /\ g.seq = session'.seq
          BY <1>1, <3>4, <4>1
        <4>. QED
          BY <1>5, <1>6, <3>5, <4>1, <4>2 DEF OneKey
      <3>8. WorkersQuiet'
        <4>1. ASSUME NEW q \in Worker, worker'[q].pc # "idle"
              PROVE  /\ worker'[q].pc = "sent" /\ worker'[q].key \notin Keys'
                     /\ Finished(worker[q].key)'
          <5>1. q # r /\ worker'[q] = worker[q]
            BY <1>3, <4>1
          <5>2. worker[q].pc = "sent" /\ worker[q].key # worker[r].key /\ Finished(worker[q].key)
            BY <2>1, <4>1, <5>1
          <5>3. PICK k : k = worker[q].key
            OBVIOUS
          <5>4. Finished(k)'
            BY <1>1, <3>2, <5>2, <5>3, LateStays
          <5>. QED
            BY <2>1, <3>2, <5>1, <5>2, <5>3, <5>4
        <4>. QED
          BY <4>1 DEF WorkersQuiet
      <3>9. SeenLive'
        <4>1. ASSUME NEW j \in Id, StartOut(j) PROVE StartOut(j)'
          <5>1. obs.seq < session.seq /\ g.key = Key("START", j, 1)
            BY <2>1, <3>4, <4>1 DEF StartOut
          <5>2. \A q \in Worker : worker'[q].pc \notin {"reserved", "send"}
            BY <1>3, <2>1
          <5>. QED
            BY <1>1, <5>1, <5>2 DEF StartOut
        <4>. QED
          BY <1>1, <4>1 DEF SeenLive
      <3>. QED
        BY <1>1, <1>2, <2>1, <3>6, <3>7, <3>8, <3>9, KeysOnly
    <2>. QED
      BY <2>2, <2>3
  <1>8. CASE worker[r].key \notin Keys /\ Finished(worker[r].key)
    <2>1. inFlight' = inFlight /\ Keys' = Keys
      <3>1. \A f \in inFlight : f.key # worker[r].key
        BY <1>8 DEF Keys
      <3>2. inFlight' = inFlight
        BY <1>1, <1>8, <3>1 DEF Without
      <3>. QED
        BY <3>2 DEF Keys
    <2>2. PathKeys'
      BY <1>1, <1>5, <2>1 DEF PathKeys
    <2>3. OneKey'
      <3>1. ASSUME NEW f \in inFlight, NEW q \in Worker, worker[q].pc # "idle", worker[q].key = f.key
            PROVE  worker'[q].pc # "idle" /\ worker'[q].key = f.key
        <4>1. f.key \in Keys
          BY DEF Keys
        <4>. QED
          BY <1>3, <1>8, <3>1, <4>1
      <3>2. \A f \in inFlight : \/ f.seq = session.seq
                                \/ f.seq = 0 /\ \E q \in Worker : worker'[q].pc # "idle" /\ worker'[q].key = f.key
        BY <3>1 DEF OneKey
      <3>. QED
        BY <1>1, <1>5, <1>6, <2>1, <3>2 DEF OneKey
    <2>4. WorkersQuiet'
      <3>1. ASSUME NEW q \in Worker, worker'[q].pc # "idle"
            PROVE  /\ worker'[q] = worker[q]
                   /\ Finished(worker[q].key) => Finished(worker[q].key)'
                   /\ Holds(q) => Holds(q)'
        <4>1. q # r /\ worker'[q] = worker[q]
          BY <1>3, <3>1
        <4>2. PICK k : k = worker[q].key
          OBVIOUS
        <4>3. Finished(k) => Finished(k)'
          BY <1>1, <2>1, LateStays
        <4>4. \A p \in Worker : worker'[p].pc # "idle" => worker'[p] = worker[p]
          BY <1>3
        <4>5. Holds(q) => Holds(q)'
          BY <2>1, <4>1, <4>4 DEF Holds
        <4>. QED
          BY <4>1, <4>2, <4>3, <4>5
      <3>. QED
        BY <1>1, <1>5, <2>1, <3>1 DEF WorkersQuiet
    <2>5. SeenLive'
      <3>1. \A q \in Worker : worker'[q].pc \in {"reserved", "send"} => worker'[q] = worker[q]
        BY <1>3
      <3>2. \A j \in Id : StartOut(j) => StartOut(j)'
        BY <1>1, <2>1, <3>1 DEF StartOut
      <3>. QED
        BY <1>1, <3>2 DEF SeenLive
    <2>. QED
      BY <1>1, <1>2, <2>1, <2>2, <2>3, <2>4, <2>5, KeysOnly
  <1>. QED
    BY <1>1, <1>7, <1>8 DEF WorkersQuiet

\* The dispatch itself.
LEMMA SendQuiet ==
  ASSUME Before, NEW r \in Worker, SendRuntime(r)
  PROVE  PathInOrder' /\ DispatchQuiet'
  <1>. /\ OneQuietSession /\ TypeOK /\ TypeOK' /\ SessionQuiet /\ PathInOrder /\ DispatchQuiet
       /\ FreshFirst /\ PathKeys /\ OneKey /\ WorkersQuiet /\ SeenLive /\ WorkersAct
    BY DEF Before, CoordTypes, DispatchQuiet
  <1>1. /\ worker[r].pc = "send"
        /\ UNCHANGED <<desired, snaps, barrier, obs, inFlight, replies, agent>>
        /\ worker' = [worker EXCEPT ![r].pc = "sent", ![r].seq = session.seq + 1]
    BY DEF SendRuntime, configVars
  <1>2. Holds(r) /\ Underway = {} /\ "executions" \in obs.fresh
    BY <1>1 DEF WorkersQuiet, FreshFirst
  <1>3. /\ \A j \in Id : ~StartOut(j)
        /\ inFlight = {[key |-> worker[r].key, seq |-> 0]} /\ Keys = {worker[r].key}
        /\ \A q \in Worker : q # r /\ worker[q].pc # "idle" =>
              worker[q].pc = "sent" /\ worker[q].key # worker[r].key /\ Finished(worker[q].key)
    BY <1>1, <1>2, HoldsAlone
  <1>4. PICK c : c = Command(worker[r].key.act, worker[r].key.id, session.seq + 1)
    OBVIOUS
  <1>5. PathInOrder' /\ session'.seq = session.seq + 1 /\ Underway' = {c}
    BY <1>2, <1>4, DispatchPath
  <1>6. obs.seq \in Nat /\ session.seq \in Nat
    BY DEF TypeOK, Entry
  <1>7. /\ worker'[r].pc = "sent" /\ worker'[r].key = worker[r].key
        /\ worker'[r].seq = session.seq + 1
        /\ \A q \in Worker : q # r => worker'[q] = worker[q]
    BY <1>1, WorkerUpdates
  <1>8. FreshFirst'
    BY <1>1, <1>2 DEF FreshFirst
  <1>9. PathKeys'
    <2>1. c.seq = session.seq + 1 /\ c.kind = worker[r].key.act /\ c.id = worker[r].key.id
      BY <1>4 DEF Command
    <2>2. worker[r].key = Key(c.kind, c.id, 1)
      <3>1. worker[r].key \in ActionKeys
        BY WorkerTypes DEF WorkerRow
      <3>2. worker[r].key.epoch = 1
        BY <1>1, WorkerIsOpen
      <3>. QED
        BY <2>1, <3>1, <3>2 DEF Key, ActionKeys
    <2>3. PICK f \in inFlight : f.key = Key(c.kind, c.id, 1)
      BY <1>3, <2>2
    <2>4. obs.seq <= session'.seq /\ obs.seq < session'.seq /\ c.seq = session'.seq
      BY <1>5, <1>6, <2>1 DEF PathKeys
    <2>. QED
      BY <1>1, <1>5, <2>3, <2>4 DEF PathKeys
  <1>10. OneKey'
    <2>1. \A f \in inFlight : f.key = worker'[r].key /\ f.seq = 0
      BY <1>3, <1>7
    <2>2. \A j : (RequestStillCurrent(j)' <=> RequestStillCurrent(j)) /\ (Clear(j)' <=> Clear(j))
      BY <1>1 DEF RequestStillCurrent, Clear
    <2>3. \A f \in inFlight : f.seq = 0 /\ \E q \in Worker : worker'[q].pc # "idle" /\ worker'[q].key = f.key
      BY <1>7, <2>1
    <2>. QED
      BY <1>1, <2>2, <2>3 DEF OneKey
  <1>11. Keys' = Keys
    BY <1>1 DEF Keys
  <1>12. WorkersQuiet'
    <2>1. ASSUME NEW q \in Worker, q # r, worker'[q].pc # "idle"
          PROVE  /\ worker'[q].pc = "sent" /\ worker'[q].key # worker[r].key
                 /\ worker'[q].key \notin Keys' /\ Finished(worker[q].key)'
      <3>1. worker'[q] = worker[q]
        BY <1>7, <2>1
      <3>2. worker[q].pc = "sent" /\ worker[q].key # worker[r].key /\ Finished(worker[q].key)
        BY <1>3, <2>1, <3>1
      <3>3. PICK k : k = worker[q].key
        OBVIOUS
      <3>4. Finished(k)'
        <4>1. Confirmed(k)' <=> Confirmed(k)
          BY <1>1 DEF Confirmed, Lists
        <4>2. RequestStillCurrent(k.id)' <=> RequestStillCurrent(k.id)
          BY <1>1 DEF RequestStillCurrent
        <4>. QED
          BY <1>1, <1>11, <3>2, <3>3, <4>1, <4>2, FinishedKept
      <3>. QED
        BY <1>3, <1>11, <3>1, <3>2, <3>3, <3>4
    <2>2. Holds(r)'
      <3>1. [key |-> worker'[r].key, seq |-> 0] \in inFlight'
        <4>1. [key |-> worker[r].key, seq |-> 0] \in inFlight'
          BY <1>1, <1>2 DEF Holds
        <4>. QED
          BY <1>7, <4>1
      <3>2. \A q \in Worker \ {r} : worker'[q].pc # "idle" => worker'[q].key # worker'[r].key
        BY <1>7, <2>1
      <3>. QED
        BY <3>1, <3>2 DEF Holds
    <2>3. worker'[r].seq = session'.seq /\ session'.seq > 0
      BY <1>5, <1>6, <1>7
    <2>. QED
      BY <1>7, <2>1, <2>2, <2>3 DEF WorkersQuiet
  <1>13. SeenLive'
    BY <1>1, <1>3 DEF SeenLive
  <1>14. ListsLive' /\ OutcomesTrue' /\ NoOverlap'
    BY <1>1 DEF DispatchQuiet, ListsLive, OutcomesTrue, Lists, NoOverlap
  <1>15. SnapsKnown' /\ BarrierStands' /\ DeletedDead'
    BY <1>1 DEF DispatchQuiet, SnapsKnown, BarrierStands, DeletedDead
  <1>. QED
    BY <1>5, <1>8, <1>9, <1>10, <1>12, <1>13, <1>14, <1>15 DEF DispatchQuiet

\* A reply joins the others: a list of what there is, or the outcome of a command.
LEMMA GivesReply ==
  ASSUME TypeOK, TypeOK', MaxEpoch = 1, ListsLive, OutcomesTrue,
         NEW m \in Replies, replies' = Append(replies, m),
         \A j \in Id : agent'.exec[j] = "RUNNING" =>
            agent.exec[j] = "RUNNING" \/ (m.cmd.kind = "START" /\ m.cmd.id = j),
         m.cmd.kind = "executions" => m.execs = agent.exec,
         NoRuntime(Answered) \/ agent'.exec = agent.exec,
         m.outcome = "rejected" => m.cmd.kind = "START" /\ agent'.exec[m.cmd.id] # "RUNNING",
         m.outcome = "RUNNING" => m.cmd.kind = "START" /\ Agrees("START", agent'.exec[m.cmd.id]),
         m.outcome = "STOPPED" => m.cmd.kind = "STOP" /\ Agrees("STOP", agent'.exec[m.cmd.id])
  PROVE  /\ ListsLive' /\ OutcomesTrue'
         /\ \A k : Confirmed(k) /\ obs'.execs = obs.execs /\ Agrees(k.act, agent'.exec[k.id]) =>
               Confirmed(k)'
  <1>. DEFINE last == Len(replies) + 1
  <1>1. /\ Len(replies) \in Nat /\ replies'[last] = m /\ last \in 1..Len(replies')
        /\ \A n \in 1..Len(replies) : replies'[n] = replies[n] /\ n \in 1..Len(replies') /\ n < last
        /\ \A n \in 1..Len(replies') : n = last \/ n \in 1..Len(replies)
        /\ \A n \in 1..Len(replies') : ~(last < n)
    <2>1. /\ Len(replies) \in Nat /\ replies'[last] = m /\ Len(replies') = last
          /\ \A n \in 1..Len(replies) : replies'[n] = replies[n] /\ n \in 1..Len(replies')
          /\ \A n \in 1..Len(replies') : n = last \/ n \in 1..Len(replies)
      BY GaveOf
    <2>. QED
      BY <2>1
  <1>. HIDE DEF last
  <1>2. ASSUME NEW n \in 1..Len(replies'), Lists(n)'
        PROVE  (n = last /\ replies'[n].execs = agent.exec) \/ (n \in 1..Len(replies) /\ Lists(n))
    BY <1>1, <1>2 DEF Lists
  <1>3. ASSUME NEW n \in 1..Len(replies'), Lists(n)', NEW j \in Id, agent'.exec[j] = "RUNNING",
               replies'[n].execs[j] # "RUNNING"
        PROVE  \E l \in 1..Len(replies') :
                  n < l /\ replies'[l].cmd.kind = "START" /\ replies'[l].cmd.id = j
    <2>1. CASE n = last
      <3>1. m.cmd.kind = "executions" /\ replies'[n].execs = agent.exec
        BY <1>1, <1>3, <2>1 DEF Lists
      <3>. QED
        BY <1>3, <3>1
    <2>2. CASE n # last
      <3>1. n \in 1..Len(replies) /\ Lists(n) /\ replies'[n] = replies[n] /\ n < last
        BY <1>1, <1>2, <1>3, <2>2
      <3>2. CASE m.cmd.kind = "START" /\ m.cmd.id = j
        BY <1>1, <3>1, <3>2
      <3>3. CASE ~(m.cmd.kind = "START" /\ m.cmd.id = j)
        <4>1. PICK l \in 1..Len(replies) :
                 n < l /\ replies[l].cmd.kind = "START" /\ replies[l].cmd.id = j
          BY <1>3, <3>1, <3>3 DEF ListsLive
        <4>. QED
          BY <1>1, <4>1
      <3>. QED
        BY <3>2, <3>3
    <2>. QED
      BY <2>1, <2>2
  <1>4. ListsLive'
    BY <1>3 DEF ListsLive
  <1>5. ASSUME NEW n \in 1..Len(replies)
        PROVE  /\ replies[n].outcome = "rejected" =>
                     replies[n].cmd.kind = "START" /\ agent'.exec[replies[n].cmd.id] # "RUNNING"
               /\ replies[n].outcome = "RUNNING" => replies[n].cmd.kind = "START"
               /\ replies[n].outcome = "STOPPED" => replies[n].cmd.kind = "STOP"
               /\ replies[n].outcome \in {"RUNNING", "STOPPED"} =>
                     Agrees(replies[n].cmd.kind, agent'.exec[replies[n].cmd.id])
    <2>1. CASE agent'.exec = agent.exec
      BY <2>1 DEF OutcomesTrue
    <2>2. CASE NoRuntime(Answered)
      <3>1. ~IsRuntime(replies[n].cmd)
        BY <2>2, PathTypes DEF NoRuntime
      <3>2. replies[n].cmd.kind \notin {"START", "STOP"}
        BY <3>1 DEF IsRuntime
      <3>. QED
        BY <3>2 DEF OutcomesTrue
    <2>. QED
      BY <2>1, <2>2
  <1>6. ASSUME NEW n \in 1..Len(replies), NEW l \in 1..Len(replies'), n < l, Lists(l)',
               replies[n].outcome \in {"RUNNING", "STOPPED"}
        PROVE  Agrees(replies[n].cmd.kind, replies'[l].execs[replies[n].cmd.id])
    <2>1. CASE l = last
      <3>1. replies'[l].execs = agent.exec
        BY <1>1, <1>6, <2>1 DEF Lists
      <3>. QED
        BY <1>6, <3>1 DEF OutcomesTrue
    <2>2. CASE l # last
      <3>1. l \in 1..Len(replies) /\ Lists(l) /\ replies'[l] = replies[l]
        BY <1>1, <1>2, <1>6, <2>2
      <3>. QED
        BY <1>6, <3>1 DEF OutcomesTrue
    <2>. QED
      BY <2>1, <2>2
  <1>7. OutcomesTrue'
    <2>1. ASSUME NEW n \in 1..Len(replies')
          PROVE  /\ replies'[n].outcome = "rejected" =>
                       replies'[n].cmd.kind = "START" /\ agent'.exec[replies'[n].cmd.id] # "RUNNING"
                 /\ replies'[n].outcome = "RUNNING" => replies'[n].cmd.kind = "START"
                 /\ replies'[n].outcome = "STOPPED" => replies'[n].cmd.kind = "STOP"
                 /\ replies'[n].outcome \in {"RUNNING", "STOPPED"} =>
                       Agrees(replies'[n].cmd.kind, agent'.exec[replies'[n].cmd.id])
      <3>1. CASE n = last
        BY <1>1, <3>1
      <3>2. CASE n # last
        <4>1. n \in 1..Len(replies) /\ replies'[n] = replies[n]
          BY <1>1, <3>2
        <4>. QED
          BY <1>5, <4>1
      <3>. QED
        BY <3>1, <3>2
    <2>2. ASSUME NEW n \in 1..Len(replies'), replies'[n].outcome \in {"RUNNING", "STOPPED"},
                 NEW l \in 1..Len(replies'), n < l, Lists(l)'
          PROVE  Agrees(replies'[n].cmd.kind, replies'[l].execs[replies'[n].cmd.id])
      <3>1. n \in 1..Len(replies) /\ replies'[n] = replies[n]
        BY <1>1, <2>2
      <3>. QED
        BY <1>6, <2>2, <3>1
    <2>. QED
      BY <2>1, <2>2 DEF OutcomesTrue
  <1>8. ASSUME NEW k, Confirmed(k), obs'.execs = obs.execs, Agrees(k.act, agent'.exec[k.id])
        PROVE  Confirmed(k)'
    <2>1. ASSUME NEW n \in 1..Len(replies'), Lists(n)' PROVE Agrees(k.act, replies'[n].execs[k.id])
      <3>1. CASE n = last
        <4>1. replies'[n].execs = agent.exec
          BY <1>1, <2>1, <3>1 DEF Lists
        <4>. QED
          BY <1>8, <4>1 DEF Confirmed
      <3>2. CASE n # last
        <4>1. n \in 1..Len(replies) /\ Lists(n) /\ replies'[n] = replies[n]
          BY <1>1, <1>2, <2>1, <3>2
        <4>. QED
          BY <1>8, <4>1 DEF Confirmed
      <3>. QED
        BY <3>1, <3>2
    <2>. QED
      BY <1>8, <2>1 DEF Confirmed
  <1>. QED
    BY <1>4, <1>7, <1>8

\* Steps of the Agent: what starts is what the key in flight says.
LEMMA AgentMoves ==
  ASSUME Before, PathStep,
         UNCHANGED <<desired, snaps, barrier, obs, inFlight, worker, session, pending>>,
         ListsLive', OutcomesTrue',
         \A k : Finished(k) /\ Confirmed(k) =>
               Confirmed(k)' \/ (~RequestStillCurrent(k.id) /\ k.act = "START"),
         \A j \in Id : agent'.exec[j] = "RUNNING" =>
            \/ agent.exec[j] = "RUNNING"
            \/ \E c \in Underway : c.kind = "START" /\ c.id = j /\ agent'.exec = [agent.exec EXCEPT ![j] = "RUNNING"]
  PROVE  PathInOrder' /\ DispatchQuiet'
  <1>. /\ OneQuietSession /\ TypeOK /\ TypeOK' /\ SessionQuiet /\ PathInOrder /\ DispatchQuiet
       /\ FreshFirst /\ PathKeys /\ OneKey /\ WorkersQuiet /\ SeenLive /\ MaxEpoch = 1
    BY DEF Before, CoordTypes, DispatchQuiet, OneQuietSession
  <1>1. PathInOrder' /\ Underway' \subseteq Underway
    BY PathKept, PathLeaves
  <1>2. FreshFirst' /\ PathKeys'
    BY <1>1 DEF FreshFirst, PathKeys
  <1>3. Keys' = Keys /\ \A i : RequestStillCurrent(i)' <=> RequestStillCurrent(i)
    BY DEF Keys, RequestStillCurrent
  <1>4. ASSUME NEW j \in Id, agent'.exec[j] = "RUNNING", agent.exec[j] # "RUNNING"
        PROVE  /\ agent'.exec = [agent.exec EXCEPT ![j] = "RUNNING"]
               /\ StartOut(j) /\ Clear(j) /\ j \in snaps /\ desired[j[1]].exists
               /\ \A f \in inFlight : f.key = Key("START", j, 1)
    <2>1. PICK c \in Underway :
             c.kind = "START" /\ c.id = j /\ agent'.exec = [agent.exec EXCEPT ![j] = "RUNNING"]
      BY <1>4
    <2>2. PICK f \in inFlight : f.key = Key("START", j, 1) /\ obs.seq < session.seq
      BY <2>1 DEF PathKeys
    <2>3. \A r \in Worker : worker[r].pc \notin {"reserved", "send"}
      BY DEF WorkersQuiet
    <2>4. StartOut(j)
      BY <2>2, <2>3 DEF StartOut
    <2>5. f.key.act = "START" /\ f.key.id = j
      BY <2>2 DEF Key
    <2>. QED
      BY <2>1, <2>2, <2>4, <2>5 DEF OneKey
  <1>5. OneKey'
    <2>1. ASSUME NEW f \in inFlight, f.key.act = "START" PROVE Clear(f.key.id)'
      <3>1. ASSUME NEW j \in Id \ {f.key.id}, Overlap(f.key.id[1], j[1]), agent'.exec[j] = "RUNNING"
            PROVE  FALSE
        <4>1. agent.exec[j] # "RUNNING"
          BY <2>1, <3>1 DEF OneKey, Clear
        <4>2. f.key = Key("START", j, 1)
          BY <1>4, <3>1, <4>1
        <4>. QED
          BY <3>1, <4>2 DEF Key
      <3>. QED
        BY <3>1 DEF Clear
    <2>. QED
      BY <1>3, <2>1 DEF OneKey
  <1>6. ASSUME NEW k, Finished(k) PROVE Finished(k)'
    <2>1. /\ k.act = "START" => (~RequestStillCurrent(k.id)' \/ desired'[k.id[1]].blocked = k.id[2] \/ Confirmed(k)')
          /\ k.act = "STOP" => ~RequestStillCurrent(k.id)' /\ Confirmed(k)' /\ Key("START", k.id, 1) \notin Keys'
      BY <1>3, <1>6 DEF Finished
    <2>. QED
      BY <1>6, <2>1 DEF Finished
  <1>7. WorkersQuiet'
    <2>1. \A r \in Worker : Holds(r)' <=> Holds(r)
      BY DEF Holds
    <2>. QED
      BY <1>1, <1>3, <1>6, <2>1 DEF WorkersQuiet
  <1>8. SeenLive'
    <2>1. \A j : StartOut(j)' <=> StartOut(j)
      BY DEF StartOut
    <2>. QED
      BY <1>4, <2>1 DEF SeenLive
  <1>9. SnapsKnown'
    BY <1>4 DEF DispatchQuiet, SnapsKnown
  <1>10. BarrierStands'
    <2>1. ASSUME NEW w \in Workload, agent'.exec[<<w, 0>>] = "RUNNING" PROVE agent.exec[<<w, 0>>] = "RUNNING"
      <3>0. 0 \in 0..MaxGen
        BY CoordinatorAssumption
      <3>1. <<w, 0>> \in Workload \X (0..MaxGen) /\ <<w, 0>>[2] = 0
        BY <3>0
      <3>2. <<w, 0>> \in Id
        BY <3>1, CoordinatorAssumption
      <3>3. <<w, 0>> \notin snaps
        BY <3>1 DEF DispatchQuiet, SnapsKnown
      <3>. QED
        BY <1>4, <2>1, <3>2, <3>3
    <2>. QED
      BY <2>1 DEF DispatchQuiet, BarrierStands
  <1>11. DeletedDead'
    BY <1>4 DEF DispatchQuiet, DeletedDead
  <1>12. NoOverlap'
    <2>1. ASSUME NEW i \in Id, NEW j \in Id, i # j, agent'.exec[i] = "RUNNING",
                 agent'.exec[j] = "RUNNING", Overlap(i[1], j[1])
          PROVE  FALSE
      <3>1. CASE agent.exec[i] = "RUNNING" /\ agent.exec[j] = "RUNNING"
        BY <2>1, <3>1 DEF DispatchQuiet, NoOverlap
      <3>2. CASE agent.exec[i] # "RUNNING"
        <4>1. Clear(i) /\ agent'.exec = [agent.exec EXCEPT ![i] = "RUNNING"]
          BY <1>4, <2>1, <3>2
        <4>2. agent.exec[j] = "RUNNING"
          BY <2>1, <4>1 DEF TypeOK
        <4>. QED
          BY <2>1, <4>1, <4>2 DEF Clear
      <3>3. CASE agent.exec[j] # "RUNNING"
        <4>1. Clear(j) /\ agent'.exec = [agent.exec EXCEPT ![j] = "RUNNING"]
          BY <1>4, <2>1, <3>3
        <4>2. agent.exec[i] = "RUNNING"
          BY <2>1, <4>1 DEF TypeOK
        <4>3. Overlap(j[1], i[1])
          BY <2>1 DEF Overlap
        <4>. QED
          BY <2>1, <4>1, <4>2, <4>3 DEF Clear
      <3>. QED
        BY <3>1, <3>2, <3>3
    <2>. QED
      BY <2>1 DEF NoOverlap
  <1>. QED
    BY <1>1, <1>2, <1>5, <1>7, <1>8, <1>9, <1>10, <1>11, <1>12 DEF DispatchQuiet

\* What is known of a command of the Agent.
LEMMA AgentHas ==
  ASSUME Before, NEW c \in Commands, IsRuntime(c),
         \/ c = busyCmd[1]
         \/ inbox[1] # <<>> /\ c = Head(inbox[1])
  PROVE  /\ c \in Underway /\ NoRuntime(Answered) /\ epoch = 1 /\ Connected(1)
         /\ Key(c.kind, c.id, 1) \in Keys /\ c.id \in Id
         /\ c.kind = "STOP" => ~RequestStillCurrent(c.id)
         /\ \A k : Finished(k) /\ k.act = "STOP" /\ c.kind = "START" => k.id # c.id
  <1>. /\ OneQuietSession /\ TypeOK /\ SessionQuiet /\ PathInOrder /\ DispatchQuiet
       /\ FreshFirst /\ PathKeys /\ OneKey /\ HoldInv /\ MaxEpoch = 1
    BY DEF Before, CoordTypes, DispatchQuiet, OneQuietSession
  <1>1. inbox[1] \in Seq(Commands)
    BY PathTypes
  <1>2. inbox[1] # <<>> => 1 \in 1..Len(inbox[1]) /\ Head(inbox[1]) = inbox[1][1]
    BY <1>1, SequenceOf
  <1>3. c \in Underway
    BY <1>2 DEF Underway
  <1>4. NoRuntime(Answered)
    <2>1. ASSUME NoRuntime(inbox[1]), busyCmd[1] = NoCommand PROVE FALSE
      <3>1. ~IsRuntime(NoCommand)
        BY DEF NoCommand, Command, IsRuntime
      <3>. QED
        BY <1>2, <2>1, <3>1 DEF NoRuntime
    <2>. QED
      BY <2>1 DEF PathInOrder
  <1>5. PICK f \in inFlight : f.key = Key(c.kind, c.id, 1)
    BY <1>3 DEF PathKeys
  <1>6. f.key \in Keys /\ f.key.act = c.kind /\ f.key.id = c.id
    BY <1>5 DEF Keys, Key
  <1>7. c.id \in Id /\ (c.kind = "STOP" => ~RequestStillCurrent(c.id))
    BY <1>6 DEF OneKey, TypeOK
  <1>8. ASSUME NEW k, Finished(k), k.act = "STOP", c.kind = "START", k.id = c.id PROVE FALSE
    BY <1>5, <1>6, <1>8 DEF Finished
  <1>9. "executions" \in obs.fresh
    BY <1>3 DEF FreshFirst
  <1>. QED
    BY <1>3, <1>4, <1>5, <1>6, <1>7, <1>8, <1>9, FreshIsOpen DEF Connected

\* Queries of the Agent.
LEMMA QueryQuiet ==
  ASSUME Before, NEW outcome \in {"ok", "error"}, AgentQuery(1, outcome)
  PROVE  PathInOrder' /\ DispatchQuiet'
  <1>. /\ OneQuietSession /\ TypeOK /\ TypeOK' /\ SessionQuiet /\ PathInOrder /\ DispatchQuiet
       /\ HoldInv /\ MaxEpoch = 1 /\ ListsLive /\ OutcomesTrue
    BY DEF Before, CoordTypes, DispatchQuiet, OneQuietSession
  <1>1. inbox[1] \in Seq(Commands) /\ epoch \in {0, 1} /\ DOMAIN inbox = {1}
    BY PathTypes
  <1>2. /\ inbox[1] # <<>> /\ Head(inbox[1]).kind \in Queries /\ busyCmd[1] = NoCommand
        /\ Reply(1, Head(inbox[1]), outcome, agent.exec, unmanaged)
        /\ inbox' = [inbox EXCEPT ![1] = Tail(@)]
        /\ UNCHANGED <<desired, snaps, barrier, obs, inFlight, worker, session, pending, busyCmd, agent>>
    BY DEF AgentQuery, Ready, configVars, coordVars
  <1>3. Connected(1)
    <2>1. epoch = 1
      BY <1>1, <1>2 DEF HoldInv, HelloFirst
    <2>. QED
      BY <2>1 DEF SessionQuiet, Connected
  <1>4. PICK c \in Commands : c = Head(inbox[1])
    BY <1>1, <1>2, SequenceOf
  <1>5. PICK m : m = [cmd |-> c, outcome |-> outcome, execs |-> agent.exec, busy |-> unmanaged]
    OBVIOUS
  <1>6. m \in Replies /\ replies' = Append(replies, m)
    BY <1>2, <1>3, <1>4, <1>5 DEF Reply, Replies, TypeOK
  <1>7. m.cmd = c /\ c.kind \in Queries /\ m.execs = agent.exec /\ m.outcome \in {"ok", "error"}
    BY <1>2, <1>4, <1>5
  <1>8. PathStep
    <2>1. Left
      BY <1>1, <1>2 DEF Left
    <2>2. Gave(Head(inbox[1]))
      BY <1>4, <1>6, <1>7 DEF Gave
    <2>. QED
      BY <1>2, <2>1, <2>2 DEF PathStep
  <1>9. /\ ListsLive' /\ OutcomesTrue'
        /\ \A k : Confirmed(k) => Confirmed(k)'
    <2>1. agent'.exec = agent.exec /\ obs'.execs = obs.execs
      BY <1>2
    <2>2. m.outcome # "rejected" /\ m.outcome # "RUNNING" /\ m.outcome # "STOPPED"
      BY <1>7
    <2>3. /\ ListsLive' /\ OutcomesTrue'
          /\ \A k : Confirmed(k) /\ Agrees(k.act, agent.exec[k.id]) => Confirmed(k)'
      BY <1>6, <1>7, <2>1, <2>2, GivesReply
    <2>. QED
      BY <2>3 DEF Confirmed
  <1>. QED
    BY <1>2, <1>8, <1>9, AgentMoves

\* The Agent stops an execution.
LEMMA StopQuiet ==
  ASSUME Before, AgentStop(1)
  PROVE  PathInOrder' /\ DispatchQuiet'
  <1>. /\ OneQuietSession /\ TypeOK /\ TypeOK' /\ SessionQuiet /\ PathInOrder /\ DispatchQuiet
       /\ HoldInv /\ MaxEpoch = 1 /\ ListsLive /\ OutcomesTrue
    BY DEF Before, CoordTypes, DispatchQuiet, OneQuietSession
  <1>1. inbox[1] \in Seq(Commands) /\ DOMAIN inbox = {1}
    BY PathTypes
  <1>2. /\ inbox[1] # <<>> /\ Head(inbox[1]).kind = "STOP" /\ busyCmd[1] = NoCommand
        /\ inbox' = [inbox EXCEPT ![1] = Tail(@)]
        /\ UNCHANGED <<desired, snaps, barrier, obs, inFlight, worker, session, pending, busyCmd>>
    BY DEF AgentStop, Ready, configVars, coordVars
  <1>3. PICK c \in Commands : c = Head(inbox[1])
    BY <1>1, <1>2, SequenceOf
  <1>4. c.kind = "STOP" /\ IsRuntime(c)
    BY <1>2, <1>3 DEF IsRuntime
  <1>5. /\ NoRuntime(Answered) /\ Connected(1) /\ c.id \in Id
        /\ ~RequestStillCurrent(c.id)
    BY <1>2, <1>3, <1>4, AgentHas
  <1>6. PICK outcome : outcome = IF agent.exec[c.id] = "NONE" THEN "unowned" ELSE "STOPPED"
    OBVIOUS
  <1>7. PICK m : m = [cmd |-> c, outcome |-> outcome, execs |-> agent.exec, busy |-> {}]
    OBVIOUS
  <1>8. m \in Replies /\ replies' = Append(replies, m)
    BY <1>3, <1>5, <1>6, <1>7 DEF AgentStop, Reply, Replies, TypeOK
  <1>9. m.cmd = c /\ m.outcome = outcome
    BY <1>7
  <1>10. \/ agent.exec[c.id] = "NONE" /\ agent' = agent
         \/ agent.exec[c.id] # "NONE" /\ agent'.exec = [agent.exec EXCEPT ![c.id] = "STOPPED"]
    BY <1>3 DEF AgentStop, TypeOK
  <1>11. /\ \A j \in Id : agent'.exec[j] = "RUNNING" => agent.exec[j] = "RUNNING"
         /\ \A j \in Id : j # c.id => agent'.exec[j] = agent.exec[j]
         /\ ~HoldsResources(agent'.exec[c.id])
    <2>1. DOMAIN agent.exec = Id
      BY DEF TypeOK
    <2>2. ~HoldsResources("NONE") /\ ~HoldsResources("STOPPED")
      BY DEF HoldsResources
    <2>3. \A j \in Id : j # c.id => agent'.exec[j] = agent.exec[j]
      BY <1>5, <1>10, <2>1
    <2>4. agent'.exec[c.id] = IF agent.exec[c.id] = "NONE" THEN "NONE" ELSE "STOPPED"
      BY <1>5, <1>10, <2>1
    <2>. QED
      BY <1>5, <2>2, <2>3, <2>4
  <1>12. PathStep
    <2>1. Left
      BY <1>1, <1>2 DEF Left
    <2>2. Gave(Head(inbox[1]))
      BY <1>3, <1>8, <1>9 DEF Gave
    <2>. QED
      BY <1>2, <2>1, <2>2 DEF PathStep
  <1>13. /\ ListsLive' /\ OutcomesTrue'
         /\ \A k : Confirmed(k) /\ Agrees(k.act, agent'.exec[k.id]) => Confirmed(k)'
    <2>1. m.outcome \in {"unowned", "STOPPED"} /\ m.cmd.kind = "STOP" /\ obs'.execs = obs.execs
      BY <1>2, <1>4, <1>6, <1>9
    <2>2. Agrees("STOP", agent'.exec[m.cmd.id])
      BY <1>9, <1>11 DEF Agrees
    <2>. QED
      BY <1>5, <1>8, <1>11, <2>1, <2>2, GivesReply
  <1>14. ASSUME NEW k, Finished(k), Confirmed(k)
         PROVE  Confirmed(k)' \/ (~RequestStillCurrent(k.id) /\ k.act = "START")
    <2>1. k.act \in {"START", "STOP"} /\ k.id \in Id /\ Agrees(k.act, agent.exec[k.id])
      BY <1>14 DEF Finished, Confirmed, TypeOK
    <2>2. CASE k.id # c.id
      BY <1>11, <1>13, <1>14, <2>1, <2>2
    <2>3. CASE k.id = c.id /\ k.act = "START"
      BY <1>5, <2>3
    <2>4. CASE k.id = c.id /\ k.act = "STOP"
      BY <1>11, <1>13, <1>14, <2>4 DEF Agrees
    <2>. QED
      BY <2>1, <2>2, <2>3, <2>4
  <1>. QED
    BY <1>2, <1>11, <1>12, <1>13, <1>14, AgentMoves

\* The Agent starts an execution, or fails to.
LEMMA StartQuiet ==
  ASSUME Before,
         AgentStart(1) \/ \E outcome \in {"rejected", "uncertain", "spawn"} : AgentStartFails(1, outcome)
  PROVE  PathInOrder' /\ DispatchQuiet'
  <1>. /\ OneQuietSession /\ TypeOK /\ TypeOK' /\ SessionQuiet /\ PathInOrder /\ DispatchQuiet
       /\ HoldInv /\ MaxEpoch = 1 /\ ListsLive /\ OutcomesTrue
    BY DEF Before, CoordTypes, DispatchQuiet, OneQuietSession
  <1>1. DOMAIN busyCmd = {1} /\ busyCmd[1] \in Commands
    BY PathTypes
  <1>2. /\ busyCmd[1] # NoCommand
        /\ busyCmd' = [busyCmd EXCEPT ![1] = NoCommand]
        /\ UNCHANGED <<desired, snaps, barrier, obs, inFlight, worker, session, pending, inbox>>
    BY DEF AgentStart, AgentStartFails, configVars, coordVars
  <1>3. PICK c \in Commands : c = busyCmd[1]
    BY <1>1
  <1>4. c.kind = "START" /\ IsRuntime(c)
    BY <1>2, <1>3 DEF PathInOrder, IsRuntime
  <1>5. /\ c \in Underway /\ NoRuntime(Answered) /\ Connected(1) /\ c.id \in Id
        /\ \A k : Finished(k) /\ k.act = "STOP" => k.id # c.id
    BY <1>3, <1>4, AgentHas
  <1>6. PICK outcome \in {"RUNNING", "uncertain", "rejected"} :
           /\ Reply(1, c, outcome, agent.exec, {})
           /\ \/ outcome = "RUNNING" /\ agent'.exec = [agent.exec EXCEPT ![c.id] = "RUNNING"]
              \/ outcome # "RUNNING" /\ agent' = agent /\ (outcome = "rejected" => agent.exec[c.id] # "RUNNING")
              \/ /\ outcome = "uncertain" /\ agent.exec[c.id] # "RUNNING"
                 /\ agent'.exec = [agent.exec EXCEPT ![c.id] = "FAILED"]
    <2>1. CASE AgentStart(1)
      BY <1>3, <2>1 DEF AgentStart, TypeOK
    <2>2. ASSUME NEW out \in {"rejected", "uncertain", "spawn"}, AgentStartFails(1, out)
          PROVE  \E o \in {"RUNNING", "uncertain", "rejected"} :
           /\ Reply(1, c, o, agent.exec, {})
           /\ \/ o = "RUNNING" /\ agent'.exec = [agent.exec EXCEPT ![c.id] = "RUNNING"]
              \/ o # "RUNNING" /\ agent' = agent /\ (o = "rejected" => agent.exec[c.id] # "RUNNING")
              \/ /\ o = "uncertain" /\ agent.exec[c.id] # "RUNNING"
                 /\ agent'.exec = [agent.exec EXCEPT ![c.id] = "FAILED"]
      <3>1. /\ agent.exec[c.id] # "RUNNING"
            /\ Reply(1, c, IF out = "spawn" THEN "uncertain" ELSE out, agent.exec, {})
            /\ \/ out = "spawn" /\ agent'.exec = [agent.exec EXCEPT ![c.id] = "FAILED"]
               \/ agent' = agent
        BY <1>3, <2>2 DEF AgentStartFails, TypeOK
      <3>2. PICK o : o = IF out = "spawn" THEN "uncertain" ELSE out
        OBVIOUS
      <3>3. o \in {"RUNNING", "uncertain", "rejected"} /\ o # "RUNNING" /\ (out = "spawn" => o = "uncertain")
        BY <2>2, <3>2
      <3>. QED
        BY <3>1, <3>2, <3>3
    <2>. QED
      BY <2>1, <2>2
  <1>7. PICK m : m = [cmd |-> c, outcome |-> outcome, execs |-> agent.exec, busy |-> {}]
    OBVIOUS
  <1>8. m \in Replies /\ replies' = Append(replies, m)
    BY <1>3, <1>5, <1>6, <1>7 DEF Reply, Replies, TypeOK
  <1>9. m.cmd = c /\ m.outcome = outcome
    BY <1>7
  <1>10. DOMAIN agent.exec = Id
    BY DEF TypeOK
  <1>11. \A j \in Id : j # c.id => agent'.exec[j] = agent.exec[j]
    BY <1>5, <1>6, <1>10
  <1>12. \/ agent'.exec[c.id] = agent.exec[c.id]
         \/ agent'.exec[c.id] \in {"RUNNING", "FAILED"}
    BY <1>5, <1>6, <1>10
  <1>13. \A j \in Id : agent'.exec[j] = "RUNNING" =>
            \/ agent.exec[j] = "RUNNING"
            \/ c.id = j /\ agent'.exec = [agent.exec EXCEPT ![j] = "RUNNING"]
    BY <1>5, <1>6, <1>10, <1>11
  <1>14. PathStep
    <2>1. Gave(busyCmd[1])
      BY <1>3, <1>8, <1>9 DEF Gave
    <2>2. busyCmd'[1] = NoCommand
      BY <1>1, <1>2
    <2>. QED
      BY <1>2, <2>1, <2>2 DEF PathStep
  <1>15. /\ ListsLive' /\ OutcomesTrue'
         /\ \A k : Confirmed(k) /\ Agrees(k.act, agent'.exec[k.id]) => Confirmed(k)'
    <2>1. m.outcome # "STOPPED" /\ m.cmd.kind = "START" /\ obs'.execs = obs.execs
      BY <1>2, <1>4, <1>9
    <2>2. m.outcome = "RUNNING" => Agrees("START", agent'.exec[m.cmd.id])
      <3>1. HoldsResources("RUNNING")
        BY DEF HoldsResources
      <3>2. outcome = "RUNNING" => agent'.exec[c.id] = "RUNNING"
        BY <1>5, <1>6, <1>10
      <3>. QED
        BY <1>9, <3>1, <3>2 DEF Agrees
    <2>3. m.outcome = "rejected" => agent'.exec[m.cmd.id] # "RUNNING"
      BY <1>6, <1>9
    <2>4. \A j \in Id : agent'.exec[j] = "RUNNING" =>
             agent.exec[j] = "RUNNING" \/ (m.cmd.kind = "START" /\ m.cmd.id = j)
      BY <1>9, <1>13, <2>1
    <2>. QED
      BY <1>5, <1>8, <2>1, <2>2, <2>3, <2>4, GivesReply
  <1>16. ASSUME NEW k, Finished(k), Confirmed(k)
         PROVE  Confirmed(k)' \/ (~RequestStillCurrent(k.id) /\ k.act = "START")
    <2>1. k.act \in {"START", "STOP"} /\ k.id \in Id /\ Agrees(k.act, agent.exec[k.id])
      BY <1>16 DEF Finished, Confirmed, TypeOK
    <2>2. CASE k.id # c.id
      BY <1>11, <1>15, <1>16, <2>1, <2>2
    <2>3. CASE k.id = c.id
      <3>1. k.act = "START"
        BY <1>5, <1>16, <2>1, <2>3
      <3>2. HoldsResources("RUNNING") /\ HoldsResources("FAILED")
        BY DEF HoldsResources
      <3>3. Agrees(k.act, agent'.exec[k.id])
        BY <1>12, <2>1, <2>3, <3>1, <3>2 DEF Agrees
      <3>. QED
        BY <1>15, <1>16, <3>3
    <2>. QED
      BY <2>2, <2>3
  <1>17. \A j \in Id : agent'.exec[j] = "RUNNING" =>
            \/ agent.exec[j] = "RUNNING"
            \/ \E d \in Underway : /\ d.kind = "START" /\ d.id = j
                                   /\ agent'.exec = [agent.exec EXCEPT ![j] = "RUNNING"]
    BY <1>4, <1>5, <1>13
  <1>. QED
    BY <1>2, <1>14, <1>15, <1>16, <1>17, AgentMoves

\* The watchdog gives an execution up: it keeps what it claims.
LEMMA FailsQuiet ==
  ASSUME Before, NEW i \in Id, ExecutionFails(i)
  PROVE  PathInOrder' /\ DispatchQuiet'
  <1>. /\ OneQuietSession /\ TypeOK /\ TypeOK' /\ SessionQuiet /\ PathInOrder /\ DispatchQuiet
       /\ HoldInv /\ MaxEpoch = 1 /\ ListsLive /\ OutcomesTrue
    BY DEF Before, CoordTypes, DispatchQuiet, OneQuietSession
  <1>1. /\ agent.exec[i] = "RUNNING"
        /\ UNCHANGED <<desired, snaps, barrier, obs, inFlight, worker, session, pending, replies,
                       inbox, busyCmd>>
    BY DEF ExecutionFails, configVars, coordVars, sessionVars
  <1>2. agent'.exec = [agent.exec EXCEPT ![i] = "FAILED"] /\ DOMAIN agent.exec = Id
    BY DEF ExecutionFails, TypeOK
  <1>3. agent'.exec[i] = "FAILED" /\ \A j \in Id : j # i => agent'.exec[j] = agent.exec[j]
    BY <1>2
  <1>4. \A j \in Id : /\ HoldsResources(agent'.exec[j]) <=> HoldsResources(agent.exec[j])
                      /\ agent'.exec[j] = "RUNNING" => agent.exec[j] = "RUNNING"
    <2>1. HoldsResources("RUNNING") /\ HoldsResources("FAILED")
      BY DEF HoldsResources
    <2>. QED
      BY <1>1, <1>3, <2>1
  <1>5. ASSUME NEW act, NEW j \in Id, Agrees(act, agent.exec[j])
        PROVE  Agrees(act, agent'.exec[j])
    <2>1. HoldsResources(agent'.exec[j]) <=> HoldsResources(agent.exec[j])
      BY <1>4
    <2>2. CASE act = "START"
      BY <1>5, <2>1, <2>2 DEF Agrees
    <2>3. CASE act # "START"
      BY <1>5, <2>1, <2>3 DEF Agrees
    <2>. QED
      BY <2>2, <2>3
  <1>6. PathStep
    BY <1>1, NothingAsked DEF PathStep
  <1>7. ListsLive'
    <2>1. ASSUME NEW n \in 1..Len(replies), Lists(n), NEW j \in Id, agent'.exec[j] = "RUNNING"
          PROVE  \/ replies[n].execs[j] = "RUNNING"
                 \/ \E m \in 1..Len(replies) :
                       n < m /\ replies[m].cmd.kind = "START" /\ replies[m].cmd.id = j
      <3>1. agent.exec[j] = "RUNNING"
        BY <1>4, <2>1
      <3>. QED
        BY <2>1, <3>1 DEF ListsLive
    <2>2. replies' = replies /\ \A n : Lists(n)' <=> Lists(n)
      BY <1>1 DEF Lists
    <2>. QED
      BY <2>1, <2>2 DEF ListsLive
  <1>8. OutcomesTrue'
    <2>1. ASSUME NEW n \in 1..Len(replies), replies[n].outcome \in {"rejected", "RUNNING", "STOPPED"}
          PROVE  replies[n].cmd.id \in Id
      <3>1. replies[n].cmd.kind \in {"START", "STOP"}
        BY <2>1 DEF OutcomesTrue
      <3>2. replies[n].cmd \in Underway
        BY <3>1 DEF Underway, IsRuntime
      <3>3. PICK f \in inFlight : f.key = Key(replies[n].cmd.kind, replies[n].cmd.id, 1)
        BY <3>2 DEF DispatchQuiet, PathKeys
      <3>4. f.key.id = replies[n].cmd.id
        BY <3>3 DEF Key
      <3>. QED
        BY <3>4 DEF DispatchQuiet, OneKey, TypeOK
    <2>2. ASSUME NEW n \in 1..Len(replies), replies[n].outcome = "rejected"
          PROVE  replies[n].cmd.kind = "START" /\ agent'.exec[replies[n].cmd.id] # "RUNNING"
      <3>1. replies[n].cmd.kind = "START" /\ agent.exec[replies[n].cmd.id] # "RUNNING"
        BY <2>2 DEF OutcomesTrue
      <3>2. replies[n].cmd.id \in Id
        BY <2>1, <2>2
      <3>. QED
        BY <1>4, <3>1, <3>2
    <2>3. ASSUME NEW n \in 1..Len(replies), replies[n].outcome \in {"RUNNING", "STOPPED"}
          PROVE  /\ Agrees(replies[n].cmd.kind, agent'.exec[replies[n].cmd.id])
                 /\ \A l \in 1..Len(replies) : n < l /\ Lists(l) =>
                       Agrees(replies[n].cmd.kind, replies[l].execs[replies[n].cmd.id])
      <3>1. /\ Agrees(replies[n].cmd.kind, agent.exec[replies[n].cmd.id])
            /\ \A l \in 1..Len(replies) : n < l /\ Lists(l) =>
                  Agrees(replies[n].cmd.kind, replies[l].execs[replies[n].cmd.id])
        BY <2>3 DEF OutcomesTrue
      <3>2. replies[n].cmd.id \in Id
        BY <2>1, <2>3
      <3>. QED
        BY <1>5, <3>1, <3>2
    <2>4. ASSUME NEW n \in 1..Len(replies)
          PROVE  /\ replies[n].outcome = "RUNNING" => replies[n].cmd.kind = "START"
                 /\ replies[n].outcome = "STOPPED" => replies[n].cmd.kind = "STOP"
      BY <2>4 DEF OutcomesTrue
    <2>5. replies' = replies /\ \A n : Lists(n)' <=> Lists(n)
      BY <1>1 DEF Lists
    <2>. QED
      BY <2>2, <2>3, <2>4, <2>5 DEF OutcomesTrue
  <1>9. ASSUME NEW k, Finished(k), Confirmed(k) PROVE Confirmed(k)'
    <2>1. k.id \in Id
      BY <1>9 DEF Finished, TypeOK
    <2>2. /\ Agrees(k.act, obs.execs[k.id]) /\ Agrees(k.act, agent.exec[k.id])
          /\ \A n \in 1..Len(replies) : Lists(n) => Agrees(k.act, replies[n].execs[k.id])
      BY <1>9 DEF Confirmed
    <2>3. Agrees(k.act, agent'.exec[k.id])
      BY <1>5, <2>1, <2>2
    <2>4. replies' = replies /\ obs' = obs /\ \A n : Lists(n)' <=> Lists(n)
      BY <1>1 DEF Lists
    <2>. QED
      BY <2>2, <2>3, <2>4 DEF Confirmed
  <1>. QED
    BY <1>1, <1>4, <1>6, <1>7, <1>8, <1>9, AgentMoves

\* A list of executions that is taken as it is: it resolves the key of a dispatch before it.
LEMMA ListTaken ==
  ASSUME Before, Took, PathStep, Lists(1), NEW seq \in Nat, seq <= session.seq,
         UNCHANGED <<desired, snaps, barrier, worker, busyCmd, agent>>, session'.seq = session.seq,
         obs'.execs = replies[1].execs, obs'.seq = seq, "executions" \in obs'.fresh,
         inFlight' = {f \in inFlight : ~(f.key.epoch = 1 /\ f.seq > 0 /\ f.seq <= seq)},
         seq = session.seq => Underway' = {}
  PROVE  PathInOrder' /\ DispatchQuiet'
  <1>. /\ OneQuietSession /\ TypeOK /\ TypeOK' /\ PathInOrder /\ DispatchQuiet
       /\ PathKeys /\ OneKey /\ WorkersQuiet /\ MaxEpoch = 1
    BY DEF Before, CoordTypes, DispatchQuiet, OneQuietSession
  <1>0. session.seq \in Nat
    BY DEF TypeOK
  <1>1. PathInOrder' /\ Underway' \subseteq Underway
    BY PathKept, PathLeaves
  <1>2. /\ Len(replies) \in Nat /\ 1 \in 1..Len(replies)
        /\ \A n \in 1..Len(replies') : n + 1 \in 1..Len(replies) /\ replies'[n] = replies[n + 1]
        /\ \A n \in 1..Len(replies) : 1 < n => n - 1 \in 1..Len(replies')
    <2>1. replies \in Seq(Replies) /\ replies # <<>> /\ replies' = Tail(replies)
      BY DEF TypeOK, Took
    <2>2. Len(replies) \in Nat /\ Len(replies) > 0 /\ Len(replies') = Len(replies) - 1
      BY <2>1, SequenceOf
    <2>. QED
      BY <2>2, TookOf
  <1>3. ASSUME NEW f \in inFlight, f.seq = 0 \/ seq < session.seq PROVE f \in inFlight'
    <2>1. f.seq = 0 \/ f.seq = session.seq
      BY DEF OneKey
    <2>2. ~(f.seq > 0 /\ f.seq <= seq)
      BY <1>0, <1>3, <2>1
    <2>. QED
      BY <2>2
  <1>4. ASSUME Underway' # {} PROVE seq < session.seq
    BY <1>0, <1>4
  <1>5. ASSUME NEW c \in Underway'
        PROVE  /\ c.seq = session.seq /\ seq < session.seq
               /\ \E f \in inFlight' : f.key = Key(c.kind, c.id, 1)
    <2>1. c \in Underway /\ seq < session.seq
      BY <1>1, <1>4, <1>5
    <2>2. c.seq = session.seq /\ \E f \in inFlight : f.key = Key(c.kind, c.id, 1)
      BY <2>1 DEF PathKeys
    <2>. QED
      BY <1>3, <2>1, <2>2
  <1>6. FreshFirst' /\ PathKeys'
    BY <1>5 DEF FreshFirst, PathKeys
  <1>7. OneKey'
    <2>1. \A i : Clear(i)' <=> Clear(i)
      BY DEF Clear
    <2>2. \A i : RequestStillCurrent(i)' <=> RequestStillCurrent(i)
      BY DEF RequestStillCurrent
    <2>. QED
      BY <2>1, <2>2 DEF OneKey
  <1>8. Keys' \subseteq Keys
    BY DEF Keys
  <1>9. ASSUME NEW k, Confirmed(k) PROVE Confirmed(k)'
    <2>1. /\ Agrees(k.act, agent.exec[k.id])
          /\ \A n \in 1..Len(replies) : Lists(n) => Agrees(k.act, replies[n].execs[k.id])
      BY <1>9 DEF Confirmed
    <2>2. Agrees(k.act, replies[1].execs[k.id])
      BY <1>2, <2>1
    <2>3. ASSUME NEW n \in 1..Len(replies'), Lists(n)' PROVE Agrees(k.act, replies'[n].execs[k.id])
      <3>1. n + 1 \in 1..Len(replies) /\ replies'[n] = replies[n + 1]
        BY <1>2
      <3>2. Lists(n + 1)
        BY <2>3, <3>1 DEF Lists
      <3>. QED
        BY <2>1, <3>1, <3>2
    <2>. QED
      BY <2>1, <2>2, <2>3 DEF Confirmed
  <1>10. ASSUME NEW k, Finished(k) PROVE Finished(k)'
    <2>1. RequestStillCurrent(k.id)' <=> RequestStillCurrent(k.id)
      BY DEF RequestStillCurrent
    <2>. QED
      BY <1>8, <1>9, <1>10, <2>1, FinishedKept
  <1>11. ASSUME NEW r \in Worker, Holds(r) PROVE Holds(r)'
    <2>1. PICK f \in inFlight : f = [key |-> worker[r].key, seq |-> 0]
      BY <1>11 DEF Holds
    <2>2. f.seq = 0
      BY <2>1
    <2>3. f \in inFlight'
      BY <1>3, <2>2
    <2>4. \A q \in Worker \ {r} : worker[q].pc # "idle" => worker[q].key # worker[r].key
      BY <1>11 DEF Holds
    <2>. QED
      BY <2>1, <2>3, <2>4 DEF Holds
  <1>12. WorkersQuiet'
    <2>1. ASSUME NEW r \in Worker, worker[r].pc \in {"reserved", "send"}
          PROVE  Holds(r)' /\ Underway' = {}
      <3>1. Holds(r) /\ Underway = {}
        BY <2>1 DEF WorkersQuiet
      <3>. QED
        BY <1>1, <1>11, <3>1
    <2>2. ASSUME NEW r \in Worker, worker[r].pc = "sent"
          PROVE  \/ Holds(r)' /\ worker[r].seq = session.seq /\ session.seq > 0
                 \/ worker[r].key \notin Keys' /\ Finished(worker[r].key)'
      <3>1. CASE Holds(r) /\ worker[r].seq = session.seq /\ session.seq > 0
        BY <1>11, <3>1
      <3>2. CASE worker[r].key \notin Keys /\ Finished(worker[r].key)
        <4>1. PICK k : k = worker[r].key
          OBVIOUS
        <4>2. k \notin Keys' /\ Finished(k)'
          BY <1>8, <1>10, <3>2, <4>1
        <4>. QED
          BY <4>1, <4>2
      <3>. QED
        BY <2>2, <3>1, <3>2 DEF WorkersQuiet
    <2>. QED
      BY <2>1, <2>2 DEF WorkersQuiet
  <1>13. SeenLive'
    <2>1. ASSUME NEW j \in Id, agent.exec[j] = "RUNNING", replies[1].execs[j] # "RUNNING"
          PROVE  StartOut(j)'
      <3>1. PICK m \in 1..Len(replies) :
               1 < m /\ replies[m].cmd.kind = "START" /\ replies[m].cmd.id = j
        BY <1>2, <2>1 DEF DispatchQuiet, ListsLive
      <3>2. PICK n \in 1..Len(replies') : n = m - 1
        BY <1>2, <3>1
      <3>3. replies'[n] = replies[m]
        BY <1>2, <3>2
      <3>4. PICK c \in Underway' : c = replies[m].cmd
        BY <3>1, <3>3 DEF Underway, IsRuntime
      <3>5. seq < session.seq /\ \E f \in inFlight' : f.key = Key("START", j, 1)
        BY <1>5, <3>1, <3>4
      <3>6. \A r \in Worker : worker[r].pc \notin {"reserved", "send"}
        BY <1>1, <3>4 DEF WorkersQuiet
      <3>. QED
        BY <3>5, <3>6 DEF StartOut
    <2>. QED
      BY <2>1 DEF SeenLive
  <1>14. ListsLive' /\ OutcomesTrue'
    BY FewerReplies DEF DispatchQuiet
  <1>15. SnapsKnown' /\ BarrierStands' /\ DeletedDead' /\ NoOverlap'
    BY DEF DispatchQuiet, SnapsKnown, BarrierStands, DeletedDead, NoOverlap
  <1>. QED
    BY <1>1, <1>6, <1>7, <1>12, <1>13, <1>14, <1>15 DEF DispatchQuiet

\* The list of executions.
LEMMA ExecutionsQuiet ==
  ASSUME Before, ExecutionsReply
  PROVE  PathInOrder' /\ DispatchQuiet'
  <1>. /\ OneQuietSession /\ TypeOK /\ TypeOK' /\ HoldInv /\ SessionQuiet /\ PathInOrder
       /\ DispatchQuiet /\ MaxEpoch = 1
    BY DEF Before, CoordTypes, OneQuietSession
  <1>1. PICK m \in Range(replies) :
           /\ Take(m) /\ m.cmd.kind = "executions"
           /\ obs' = MarkReady(SetExecutions(obs, epoch, m.execs, m.cmd.seq), epoch)
           /\ inFlight' = IF Accepts(obs, epoch, m.cmd.seq)
                          THEN {f \in inFlight : ~ResolvedBy(f, m.cmd.seq)} ELSE inFlight
           /\ LET new == IF "executions" \in session.got THEN <<>> ELSE Absent({"facts"})
              IN  /\ pending' = (pending \ {m.cmd}) \cup Range(new)
                  /\ inbox' = [inbox EXCEPT ![epoch] = @ \o new]
    BY DEF ExecutionsReply
  <1>2. /\ session.state = "open" /\ session' = Got({"executions"})
        /\ UNCHANGED <<desired, snaps, barrier, worker, busyCmd, agent>>
    BY DEF ExecutionsReply, configVars, Take
  <1>3. epoch = 1 /\ IsCurrent(obs, 1) /\ session'.seq = session.seq /\ session.seq \in Nat
    <2>1. epoch = 1 /\ session.seq \in Nat
      BY <1>2, PathTypes DEF SessionQuiet
    <2>2. IsCurrent(obs, 1)
      BY <1>2 DEF SessionQuiet, IsCurrent
    <2>3. session'.seq = session.seq
      BY <1>2 DEF Got, TypeOK
    <2>. QED
      BY <2>1, <2>2, <2>3
  <1>4. /\ m = replies[1] /\ m.execs \in [Id -> Statuses] /\ m.cmd.seq \in Nat /\ Took
        /\ 1 \in 1..Len(replies) /\ Lists(1)
    <2>1. /\ m = replies[1] /\ m.execs \in [Id -> Statuses] /\ m.cmd.seq \in Nat
          /\ replies # <<>> /\ replies' = Tail(replies) /\ Len(replies) > 0
      BY <1>1, TakeTypes
    <2>2. Len(replies) \in Nat
      BY DEF TypeOK
    <2>. QED
      BY <1>1, <2>1, <2>2 DEF Took, Lists
  <1>5. PICK seq \in Nat : seq = m.cmd.seq
    BY <1>4
  <1>6. seq <= session.seq
    <2>1. Len(Answered) = Len(replies) /\ Answered[1] = m.cmd
      BY <1>4, PathTypes
    <2>. QED
      BY <1>1, <1>4, <1>5, <2>1 DEF PathInOrder, ListsAsked
  <1>7. PICK new \in {<<>>, Absent({"facts"})} :
           /\ pending' = (pending \ {m.cmd}) \cup Range(new)
           /\ inbox' = [inbox EXCEPT ![epoch] = @ \o new]
    BY <1>1
  <1>8. Asked(new) /\ \A c \in pending' : IsRuntime(c) => c \in pending
    <2>1. CASE new = <<>>
      <3>1. inbox'[1] = inbox[1] \o <<>> /\ <<>> \in Seq(Commands)
        BY <1>3, <1>7, <2>1, PathTypes
      <3>2. Range(new) = {}
        BY <2>1 DEF Range
      <3>. QED
        BY <1>7, <2>1, <3>1, <3>2 DEF Asked
    <2>2. CASE new = Absent({"facts"})
      <3>1. new \in Seq(Commands) /\ \A n \in 1..Len(new) : new[n].kind \in Queries
        BY <2>2, AbsentType
      <3>2. \A c \in Range(new) : ~IsRuntime(c)
        BY <3>1, RangeOf DEF IsRuntime, Queries
      <3>3. Asked(new)
        BY <1>3, <1>7, <2>2, AbsentAsked
      <3>. QED
        BY <1>7, <3>2, <3>3
    <2>. QED
      BY <2>1, <2>2
  <1>9. PathStep
    BY <1>2, <1>4, <1>8 DEF PathStep
  <1>10. CASE ~Accepts(obs, 1, seq)
    <2>1. obs' = MarkReady(obs, 1) /\ inFlight' = inFlight
      BY <1>1, <1>3, <1>5, <1>10 DEF SetExecutions
    <2>2. obs'.execs = obs.execs /\ obs'.seq = obs.seq /\ obs'.fresh = obs.fresh
      BY <2>1 DEF MarkReady, TypeOK, Entry
    <2>. QED
      BY <1>2, <1>3, <1>4, <1>8, <1>9, <2>1, <2>2, PathQuiet
  <1>11. CASE Accepts(obs, 1, seq)
    <2>1. /\ inFlight' = {f \in inFlight : ~ResolvedBy(f, seq)}
          /\ obs' = MarkReady([obs EXCEPT !.execs = m.execs, !.fresh = @ \cup {"executions"},
                                          !.seq = seq], 1)
      BY <1>1, <1>3, <1>5, <1>11 DEF SetExecutions
    <2>2. obs'.execs = replies[1].execs /\ obs'.seq = seq /\ "executions" \in obs'.fresh
      <3>1. obs \in Entry
        BY DEF TypeOK
      <3>. QED
        BY <1>4, <2>1, <3>1 DEF MarkReady, Entry
    <2>3. inFlight' = {f \in inFlight : ~(f.key.epoch = 1 /\ f.seq > 0 /\ f.seq <= seq)}
      BY <1>3, <2>1 DEF ResolvedBy
    <2>4. ASSUME seq = session.seq PROVE Underway' = {}
      <3>1. Late(replies[1].cmd, session.seq)
        BY <1>1, <1>4, <1>5, <2>4 DEF Late
      <3>. QED
        BY <1>2, <1>3, <1>4, <1>8, <3>1, TookLast
    <2>. QED
      BY <1>2, <1>3, <1>4, <1>6, <1>9, <2>2, <2>3, <2>4, ListTaken
  <1>. QED
    BY <1>10, <1>11

\* The outcome of the dispatch is taken: what was in flight is known to be done.
LEMMA KeyResolved ==
  ASSUME Before, Took, PathStep, Underway # {}, Underway' = {},
         UNCHANGED <<snaps, barrier, worker, agent, session>>, inFlight' = {},
         "executions" \in obs'.fresh, obs'.seq <= session.seq,
         \A f \in inFlight : Finished(f.key)', \A k : Finished(k) => k \in Keys \/ Finished(k)',
         \A w \in Workload : desired'[w].exists = desired[w].exists /\ desired'[w].gen = desired[w].gen,
         SeenLive'
  PROVE  PathInOrder' /\ DispatchQuiet'
  <1>. /\ TypeOK /\ TypeOK' /\ PathInOrder /\ DispatchQuiet /\ WorkersQuiet /\ MaxEpoch = 1
    BY DEF Before, CoordTypes, DispatchQuiet, OneQuietSession
  <1>1. PathInOrder'
    BY PathKept
  <1>2. FreshFirst' /\ PathKeys' /\ OneKey'
    BY DEF FreshFirst, PathKeys, OneKey
  <1>3. Keys' = {}
    BY DEF Keys
  <1>4. ASSUME NEW r \in Worker, worker[r].pc = "sent" PROVE Finished(worker[r].key)'
    <2>1. PICK k : k = worker[r].key
      OBVIOUS
    <2>2. CASE Holds(r)
      <3>1. PICK f \in inFlight : f = [key |-> worker[r].key, seq |-> 0]
        BY <2>2 DEF Holds
      <3>2. f.key = k
        BY <2>1, <3>1
      <3>3. Finished(k)'
        BY <3>2
      <3>. QED
        BY <2>1, <3>3
    <2>3. CASE k \notin Keys /\ Finished(k)
      <3>1. Finished(k)'
        BY <2>3
      <3>. QED
        BY <2>1, <3>1
    <2>. QED
      BY <1>4, <2>1, <2>2, <2>3 DEF WorkersQuiet
  <1>5. WorkersQuiet'
    <2>1. \A r \in Worker : worker[r].pc \notin {"reserved", "send"}
      BY DEF WorkersQuiet
    <2>. QED
      BY <1>3, <1>4, <2>1 DEF WorkersQuiet
  <1>6. ListsLive' /\ OutcomesTrue'
    BY FewerReplies DEF DispatchQuiet
  <1>7. SnapsKnown'
    <2>1. \A i \in snaps : i[1] \in Workload
      BY CoordinatorAssumption DEF TypeOK
    <2>2. \A i \in snaps : 1 <= i[2] /\ i[2] <= desired'[i[1]].gen
      BY <2>1 DEF DispatchQuiet, SnapsKnown
    <2>3. \A i \in Id : agent'.exec[i] = "RUNNING" /\ i[2] > 0 => i \in snaps'
      BY DEF DispatchQuiet, SnapsKnown
    <2>. QED
      BY <2>2, <2>3 DEF SnapsKnown
  <1>8. BarrierStands' /\ DeletedDead' /\ NoOverlap'
    BY DEF DispatchQuiet, BarrierStands, DeletedDead, NoOverlap
  <1>. QED
    BY <1>1, <1>2, <1>5, <1>6, <1>7, <1>8 DEF DispatchQuiet

\* What blocking a generation leaves of the workloads.
LEMMA BlockKeeps ==
  ASSUME TypeOK, NEW i \in Id, RequestStillCurrent(i), desired' = Block(desired, i[1], i[2])
  PROVE  /\ \A w \in Workload : desired'[w].exists = desired[w].exists /\ desired'[w].gen = desired[w].gen
         /\ desired'[i[1]].blocked = i[2]
         /\ \A j \in Id : /\ RequestStillCurrent(j)' <=> RequestStillCurrent(j)
                          /\ desired[j[1]].blocked = j[2] /\ RequestStillCurrent(j)' =>
                                desired'[j[1]].blocked = j[2]
  <1>. DEFINE w == i[1]
  <1>1. w \in Workload /\ \A j \in Id : j[1] \in Workload
    BY CoordinatorAssumption
  <1>2. desired[w].run /\ desired[w].gen = i[2]
    BY DEF RequestStillCurrent
  <1>3. desired' = [desired EXCEPT ![w].blocked = i[2]]
    BY <1>2 DEF Block
  <1>4. desired \in [Workload -> WorkloadRow]
    BY DEF TypeOK, WorkloadRow
  <1>. HIDE DEF w
  <1>5. /\ desired'[w] = [desired[w] EXCEPT !.blocked = i[2]]
        /\ \A v \in Workload : v # w => desired'[v] = desired[v]
    BY <1>1, <1>3, <1>4
  <1>6. desired[w] \in WorkloadRow
    BY <1>1, <1>4
  <1>7. /\ desired'[w].blocked = i[2] /\ desired'[w].exists = desired[w].exists
        /\ desired'[w].run = desired[w].run /\ desired'[w].gen = desired[w].gen
    BY <1>5, <1>6 DEF WorkloadRow
  <1>8. \A v \in Workload : /\ desired'[v].exists = desired[v].exists
                            /\ desired'[v].run = desired[v].run /\ desired'[v].gen = desired[v].gen
    BY <1>5, <1>7
  <1>9. ASSUME NEW j \in Id
        PROVE  /\ RequestStillCurrent(j)' <=> RequestStillCurrent(j)
               /\ desired[j[1]].blocked = j[2] /\ RequestStillCurrent(j)' =>
                     desired'[j[1]].blocked = j[2]
    <2>1. j[1] \in Workload
      BY <1>1
    <2>2. RequestStillCurrent(j)' <=> RequestStillCurrent(j)
      BY <1>8, <2>1 DEF RequestStillCurrent
    <2>3. CASE j[1] = w
      <3>1. RequestStillCurrent(j)' => j[2] = i[2]
        BY <1>2, <1>7, <2>3 DEF RequestStillCurrent
      <3>. QED
        BY <1>7, <2>2, <2>3, <3>1
    <2>4. CASE j[1] # w
      BY <1>5, <2>1, <2>2, <2>4
    <2>. QED
      BY <2>3, <2>4
  <1>. QED
    BY <1>7, <1>8, <1>9 DEF w

\* The outcome of a runtime command.
LEMMA ResultQuiet ==
  ASSUME Before, RuntimeReply
  PROVE  PathInOrder' /\ DispatchQuiet'
  <1>. /\ OneQuietSession /\ TypeOK /\ TypeOK' /\ SessionQuiet /\ PathInOrder /\ DispatchQuiet
       /\ FreshFirst /\ PathKeys /\ OneKey /\ WorkersQuiet /\ SeenLive /\ OutcomesTrue /\ MaxEpoch = 1
    BY DEF Before, CoordTypes, DispatchQuiet, OneQuietSession
  <1>1. PICK m \in Range(replies) :
           Take(m) /\ IsRuntime(m.cmd) /\ RuntimeResult(m.cmd, m.outcome) /\ pending' = pending \ {m.cmd}
    BY DEF RuntimeReply
  <1>2. UNCHANGED <<snaps, barrier, worker, session, inbox, busyCmd, agent>>
    BY DEF RuntimeReply, agentVars
  <1>3. /\ m = replies[1] /\ Took /\ 1 \in 1..Len(replies) /\ m \in Replies
        /\ \A n \in 1..Len(replies') : replies'[n] = replies[n + 1] /\ n + 1 \in 1..Len(replies) /\ 1 < n + 1
    <2>1. /\ m = replies[1] /\ m \in Replies /\ replies # <<>> /\ replies' = Tail(replies)
          /\ Len(replies) > 0 /\ replies' \in Seq(Replies)
          /\ \A n \in 1..Len(replies') : replies'[n] = replies[n + 1] /\ n + 1 \in 1..Len(replies)
      BY <1>1, TakeTypes
    <2>2. Len(replies) \in Nat /\ Len(replies') \in Nat
      BY DEF TypeOK
    <2>3. Took /\ 1 \in 1..Len(replies) /\ \A n \in 1..Len(replies') : 1 < n + 1
      BY <2>1, <2>2 DEF Took
    <2>. QED
      BY <2>1, <2>3
  <1>4. PICK c : c = m.cmd
    OBVIOUS
  <1>5. c \in Underway /\ c.kind \in {"START", "STOP"} /\ replies[1].cmd = c
    BY <1>1, <1>3, <1>4 DEF Underway, IsRuntime
  <1>6. PICK outcome \in {"ok", "error", "RUNNING", "STOPPED", "unowned", "uncertain", "rejected"} :
           outcome = m.outcome
    BY <1>3 DEF Replies
  <1>7. "executions" \in obs.fresh /\ IsCurrent(obs, 1) /\ epoch = 1 /\ obs.connected = TRUE /\ obs.epoch = 1
    <2>1. "executions" \in obs.fresh
      BY <1>5 DEF FreshFirst
    <2>. QED
      BY <2>1, FreshIsOpen
  <1>8. c.seq = session.seq /\ obs.seq < session.seq /\ session.seq \in Nat /\ obs.seq \in Nat
    BY <1>5 DEF PathKeys, TypeOK, Entry
  <1>9. PICK f \in inFlight : f.key = Key(c.kind, c.id, 1)
    BY <1>5 DEF PathKeys
  <1>10. /\ f.key.act = c.kind /\ f.key.id = c.id /\ inFlight = {f} /\ Keys = {f.key}
         /\ c.id \in snaps /\ c.id \in Id
         /\ c.kind = "STOP" => ~RequestStillCurrent(c.id)
    <2>1. f.key.act = c.kind /\ f.key.id = c.id
      BY <1>9 DEF Key
    <2>2. inFlight = {f}
      BY DEF OneKey
    <2>3. Keys = {f.key}
      BY <2>2 DEF Keys
    <2>4. c.id \in snaps /\ c.id \in Id
      BY <2>1 DEF OneKey, TypeOK
    <2>. QED
      BY <2>1, <2>2, <2>3, <2>4 DEF OneKey
  <1>11. PathStep
    BY <1>2, <1>3, NothingAsked DEF PathStep
  <1>12. Underway' = {}
    <2>1. Asked(<<>>)
      BY <1>2, NothingAsked
    <2>2. IsRuntime(replies[1].cmd)
      BY <1>5 DEF IsRuntime
    <2>. QED
      BY <1>2, <1>3, <2>1, <2>2, TookLast
  <1>13. \A j \in Id : StartOut(j) => j = c.id /\ c.kind = "START"
    <2>1. ASSUME NEW j \in Id, StartOut(j) PROVE j = c.id /\ c.kind = "START"
      <3>1. f.key = Key("START", j, 1)
        BY <1>10, <2>1 DEF StartOut
      <3>2. f.key.act = "START" /\ f.key.id = j
        BY <3>1 DEF Key
      <3>. QED
        BY <1>10, <3>2
    <2>. QED
      BY <2>1
  <1>14. /\ outcome = "rejected" => c.kind = "START" /\ agent.exec[c.id] # "RUNNING"
         /\ outcome = "RUNNING" => c.kind = "START"
         /\ outcome = "STOPPED" => c.kind = "STOP"
         /\ outcome \in {"RUNNING", "STOPPED"} =>
               /\ Agrees(c.kind, agent.exec[c.id])
               /\ \A l \in 1..Len(replies) :
                     1 < l /\ Lists(l) => Agrees(c.kind, replies[l].execs[c.id])
    BY <1>3, <1>5, <1>6 DEF OutcomesTrue
  <1>15. PICK key : key = Key(c.kind, c.id, 1)
    OBVIOUS
  <1>16. Without(key) = {}
    BY <1>9, <1>10, <1>15 DEF Without
  <1>17. ASSUME NEW k, Finished(k) PROVE k.id \in Id /\ k.act \in {"START", "STOP"}
    BY <1>17 DEF Finished, TypeOK
  <1>18. CASE outcome \in {"RUNNING", "STOPPED"}
    <2>1. CanUpsert(obs, 1, c.seq)
      BY <1>7, <1>8 DEF CanUpsert, Accepts
    <2>2. /\ inFlight' = {} /\ desired' = desired
          /\ obs' = UpsertExecution(obs, 1, c.id, outcome, c.seq)
      BY <1>1, <1>4, <1>6, <1>7, <1>15, <1>16, <1>18, <2>1 DEF RuntimeResult
    <2>3. /\ obs'.execs = [obs.execs EXCEPT ![c.id] = outcome] /\ obs'.seq = session.seq
          /\ "executions" \in obs'.fresh /\ DOMAIN obs.execs = Id
      <3>1. obs \in Entry
        BY DEF TypeOK
      <3>. QED
        BY <1>7, <1>8, <2>1, <2>2, <3>1 DEF UpsertExecution, Entry
    <2>4. /\ obs'.execs[c.id] = outcome
          /\ \A j \in Id : j # c.id => obs'.execs[j] = obs.execs[j]
      BY <1>10, <2>3
    <2>5. Agrees(c.kind, obs'.execs[c.id])
      <3>1. HoldsResources("RUNNING") /\ ~HoldsResources("STOPPED")
        BY DEF HoldsResources
      <3>. QED
        BY <1>14, <1>18, <2>4, <3>1 DEF Agrees
    <2>6. \A i : RequestStillCurrent(i)' <=> RequestStillCurrent(i)
      BY <2>2 DEF RequestStillCurrent
    <2>7. ASSUME NEW k, k.act = c.kind, k.id = c.id PROVE Confirmed(k)'
      <3>1. ASSUME NEW n \in 1..Len(replies'), Lists(n)' PROVE Agrees(k.act, replies'[n].execs[k.id])
        <4>1. replies'[n] = replies[n + 1] /\ n + 1 \in 1..Len(replies) /\ 1 < n + 1
          BY <1>3
        <4>2. Lists(n + 1)
          BY <3>1, <4>1 DEF Lists
        <4>. QED
          BY <1>14, <1>18, <2>7, <4>1, <4>2
      <3>. QED
        BY <1>2, <1>14, <1>18, <2>5, <2>7, <3>1 DEF Confirmed
    <2>8. ASSUME NEW k, Confirmed(k), k.id \in Id, k.id # c.id PROVE Confirmed(k)'
      <3>1. /\ Agrees(k.act, obs.execs[k.id]) /\ Agrees(k.act, agent.exec[k.id])
            /\ \A n \in 1..Len(replies) : Lists(n) => Agrees(k.act, replies[n].execs[k.id])
        BY <2>8 DEF Confirmed
      <3>2. ASSUME NEW n \in 1..Len(replies'), Lists(n)' PROVE Agrees(k.act, replies'[n].execs[k.id])
        <4>1. replies'[n] = replies[n + 1] /\ n + 1 \in 1..Len(replies)
          BY <1>3
        <4>2. Lists(n + 1)
          BY <3>2, <4>1 DEF Lists
        <4>. QED
          BY <3>1, <4>1, <4>2
      <3>. QED
        BY <1>2, <2>4, <2>8, <3>1, <3>2 DEF Confirmed
    <2>9. Keys' = {}
      BY <2>2 DEF Keys
    <2>10. Finished(f.key)'
      <3>1. PICK k : k = f.key
        OBVIOUS
      <3>2. k.act = c.kind /\ k.id = c.id /\ Confirmed(k)'
        BY <1>10, <2>7, <3>1
      <3>3. k.act = "STOP" => ~RequestStillCurrent(k.id)'
        BY <1>10, <2>6, <3>2
      <3>4. Finished(k)'
        BY <1>2, <1>5, <1>10, <2>9, <3>2, <3>3 DEF Finished
      <3>. QED
        BY <3>1, <3>4
    <2>11. ASSUME NEW k, Finished(k) PROVE Finished(k)'
      <3>1. k.id \in Id /\ k.act \in {"START", "STOP"}
        BY <1>17, <2>11
      <3>2. Confirmed(k) => Confirmed(k)' \/ (k.act = "START" /\ ~RequestStillCurrent(k.id)')
        <4>1. CASE k.id # c.id
          BY <2>8, <3>1, <4>1
        <4>2. CASE k.id = c.id /\ k.act = c.kind
          BY <2>7, <4>2
        <4>3. CASE k.id = c.id /\ k.act = "START" /\ c.kind = "STOP"
          BY <1>10, <2>6, <4>3
        <4>4. CASE k.id = c.id /\ k.act = "STOP" /\ c.kind = "START"
          BY <1>9, <1>10, <2>11, <4>4 DEF Finished
        <4>. QED
          BY <1>5, <3>1, <4>1, <4>2, <4>3, <4>4
      <3>3. CASE Confirmed(k)'
        BY <1>2, <2>2, <2>6, <2>9, <2>11, <3>3 DEF Finished
      <3>4. CASE ~Confirmed(k)
        BY <1>2, <2>2, <2>6, <2>11, <3>4 DEF Finished
      <3>5. CASE k.act = "START" /\ ~RequestStillCurrent(k.id)'
        BY <1>2, <2>11, <3>5 DEF Finished
      <3>. QED
        BY <3>2, <3>3, <3>4, <3>5
    <2>12. SeenLive'
      <3>1. ASSUME NEW j \in Id, agent.exec[j] = "RUNNING" PROVE obs'.execs[j] = "RUNNING"
        <4>1. obs.execs[j] = "RUNNING" \/ (j = c.id /\ c.kind = "START")
          BY <1>7, <1>13, <3>1 DEF SeenLive
        <4>2. CASE j # c.id
          BY <2>4, <4>1, <4>2
        <4>3. CASE j = c.id
          <5>1. HoldsResources("RUNNING")
            BY DEF HoldsResources
          <5>2. c.kind # "STOP"
            BY <1>14, <1>18, <3>1, <4>3, <5>1 DEF Agrees
          <5>. QED
            BY <1>14, <1>18, <2>4, <4>3, <5>2
        <4>. QED
          BY <4>2, <4>3
      <3>. QED
        BY <1>2, <3>1 DEF SeenLive
    <2>. QED
      BY <1>2, <1>3, <1>5, <1>8, <1>10, <1>11, <1>12, <2>2, <2>3, <2>10, <2>11, <2>12, KeyResolved
  <1>19. CASE outcome = "rejected" /\ RequestStillCurrent(c.id)
    <2>1. c.kind = "START"
      BY <1>14, <1>19
    <2>2. /\ inFlight' = {} /\ obs' = obs /\ desired' = Block(desired, c.id[1], c.id[2])
      BY <1>1, <1>4, <1>6, <1>7, <1>15, <1>16, <1>19, <2>1 DEF RuntimeResult
    <2>3. /\ \A w \in Workload : desired'[w].exists = desired[w].exists /\ desired'[w].gen = desired[w].gen
          /\ desired'[c.id[1]].blocked = c.id[2]
          /\ \A j \in Id : /\ RequestStillCurrent(j)' <=> RequestStillCurrent(j)
                           /\ desired[j[1]].blocked = j[2] /\ RequestStillCurrent(j)' =>
                                 desired'[j[1]].blocked = j[2]
      BY <1>10, <1>19, <2>2, BlockKeeps
    <2>4. Keys' = {}
      BY <2>2 DEF Keys
    <2>5. Finished(f.key)'
      <3>1. PICK k : k = f.key
        OBVIOUS
      <3>2. k.act = "START" /\ k.id = c.id
        BY <1>10, <2>1, <3>1
      <3>3. Finished(k)'
        BY <1>2, <1>10, <2>3, <3>2 DEF Finished
      <3>. QED
        BY <3>1, <3>3
    <2>6. ASSUME NEW k, Finished(k) PROVE Finished(k)'
      <3>1. Confirmed(k) => Confirmed(k)'
        BY <1>2, <1>3, <2>2, FewerReplies
      <3>2. k.id \in Id
        BY <1>17, <2>6
      <3>. QED
        BY <1>2, <2>3, <2>4, <2>6, <3>1, <3>2, FinishedKept
    <2>7. SeenLive'
      <3>1. ASSUME NEW j \in Id, agent.exec[j] = "RUNNING" PROVE obs.execs[j] = "RUNNING"
        BY <1>7, <1>13, <1>14, <1>19, <3>1 DEF SeenLive
      <3>. QED
        BY <1>2, <2>2, <3>1 DEF SeenLive
    <2>. QED
      BY <1>2, <1>3, <1>5, <1>7, <1>8, <1>10, <1>11, <1>12, <2>2, <2>3, <2>5, <2>6, <2>7, KeyResolved
  <1>20. CASE /\ outcome \notin {"RUNNING", "STOPPED"}
              /\ ~(outcome = "rejected" /\ RequestStillCurrent(c.id))
    <2>1. inFlight' = inFlight /\ obs' = obs /\ desired' = desired
      BY <1>1, <1>4, <1>6, <1>7, <1>20 DEF RuntimeResult
    <2>2. \A d \in pending' : d \in pending
      BY <1>1
    <2>. QED
      BY <1>2, <1>3, <1>11, <2>1, <2>2, PathQuiet
  <1>. QED
    BY <1>18, <1>19, <1>20

\* What holds of a Host that has one quiet session.
OneSession == OneQuietSession /\ CoordTypes /\ HoldInv /\ QuietInv

\* It does before the session.
LEMMA OneSessionInit == OneQuietSession /\ Init => OneSession
  <1>. SUFFICES ASSUME OneQuietSession, Init PROVE QuietInv
    BY TypesInit, HoldInit DEF OneSession
  <1>1. TypeOK /\ MaxEpoch = 1
    BY InitType DEF OneQuietSession
  <1>2. /\ obs = NoEntry /\ inFlight = {} /\ \A r \in Worker : worker[r] = IdleWorker
        /\ session = NoSession /\ link = FALSE /\ epoch = 0 /\ pending = {} /\ replies = <<>>
        /\ holdCall = NoHoldCall /\ holdInbox = NoCommand
    BY DEF Init
  <1>3. inbox[1] = <<>> /\ busyCmd[1] = NoCommand
    BY <1>1 DEF Init
  <1>4. /\ obs.seq = 0 /\ obs.fresh = {} /\ \A r \in Worker : worker[r].pc = "idle"
        /\ session.state = "none" /\ session.revoked = FALSE /\ session.seq = 0
        /\ holdCall.pc = "idle" /\ Len(replies) = 0 /\ Len(inbox[1]) = 0
    BY <1>2, <1>3 DEF NoEntry, NewEntry, IdleWorker, NoSession, NoHoldCall
  <1>5. SessionQuiet
    BY <1>1, <1>2, <1>4 DEF SessionQuiet
  <1>6. Answered = <<>>
    BY <1>4 DEF Answered
  <1>7. PathInOrder
    BY <1>3, <1>6 DEF PathInOrder, InOrder, ListsAsked, NoRuntime
  <1>8. Underway = {}
    <2>1. ~IsRuntime(busyCmd[1])
      BY <1>3 DEF IsRuntime, NoCommand, Command
    <2>. QED
      BY <1>4, <2>1 DEF Underway
  <1>9. FreshFirst /\ PathKeys /\ OneKey /\ WorkersQuiet /\ SeenLive
    BY <1>2, <1>4, <1>8 DEF FreshFirst, PathKeys, OneKey, WorkersQuiet, SeenLive
  <1>10. ListsLive /\ OutcomesTrue
    BY <1>4 DEF ListsLive, OutcomesTrue
  <1>11. PICK wanted \in SUBSET Workload :
            /\ desired = [w \in Workload |-> [exists |-> TRUE, run |-> w \in wanted,
                                              gen |-> 1, blocked |-> 0]]
            /\ snaps = wanted \X {1}
    BY DEF Init
  <1>12. PICK lost \in SUBSET Workload :
            /\ lost # {} => Restored /\ \A v, w \in lost : v # w => ~Overlap(v, w)
            /\ agent = [exec |-> [i \in Id |-> IF i[1] \in lost /\ i[2] = 0 THEN "RUNNING" ELSE "NONE"],
                        hold |-> FALSE, rev |-> 0]
    BY DEF Init
  <1>13. \A i \in Id : agent.exec[i] = "RUNNING" => i[1] \in lost /\ i[2] = 0
    BY <1>12
  <1>14. SnapsKnown
    <2>1. ASSUME NEW i \in snaps PROVE i[2] = 1 /\ desired[i[1]].gen = 1
      BY <1>11
    <2>. QED
      BY <1>13, <2>1 DEF SnapsKnown
  <1>15. BarrierStands
    <2>1. 0 \in 0..MaxGen /\ \A w \in Workload : <<w, 0>> \in Workload \X (0..MaxGen)
      BY CoordinatorAssumption
    <2>2. \A w \in Workload : <<w, 0>> \in Id
      BY <2>1, CoordinatorAssumption
    <2>3. ASSUME NEW w \in Workload, agent.exec[<<w, 0>>] = "RUNNING" PROVE barrier # "NONE"
      <3>1. Restored
        BY <1>12, <1>13, <2>2, <2>3
      <3>. QED
        BY <3>1 DEF Init
    <2>. QED
      BY <1>2, <2>3 DEF BarrierStands
  <1>16. DeletedDead
    BY <1>11 DEF DeletedDead
  <1>17. NoOverlap
    <2>1. ASSUME NEW i \in Id, NEW j \in Id, i # j, agent.exec[i] = "RUNNING",
                 agent.exec[j] = "RUNNING"
          PROVE  ~Overlap(i[1], j[1])
      <3>1. i[1] \in lost /\ j[1] \in lost /\ i[2] = 0 /\ j[2] = 0
        BY <1>13, <2>1
      <3>2. i = <<i[1], i[2]>> /\ j = <<j[1], j[2]>>
        BY CoordinatorAssumption
      <3>. QED
        BY <1>12, <2>1, <3>1, <3>2
    <2>. QED
      BY <2>1 DEF NoOverlap
  <1>. QED
    BY <1>5, <1>7, <1>9, <1>10, <1>14, <1>15, <1>16, <1>17 DEF QuietInv, DispatchQuiet

\* The path and the dispatch stay in order.
LEMMA QuietStep ==
  ASSUME Before, [Next]_vars
  PROVE  PathInOrder' /\ DispatchQuiet'
  <1>. OneQuietSession /\ TypeOK /\ HoldInv /\ SessionQuiet /\ FreshFirst /\ MaxEpoch = 1
    BY DEF Before, CoordTypes, DispatchQuiet, OneQuietSession
  <1>1. CASE Operator
    BY <1>1, OperatorQuiet
  <1>2. ASSUME NEW r \in Worker, Reconcile(r) PROVE PathInOrder' /\ DispatchQuiet'
    <2>1. CASE ApplyRestoreBarrier(r)
      BY <2>1, BarrierStep
    <2>2. ASSUME NEW invalid \in SUBSET Workload, PrepareDispatch(r, invalid) \/ PrepareBlocks(r, invalid)
          PROVE  PathInOrder' /\ DispatchQuiet'
      BY <2>2, DispatchQuietly, BlocksQuiet
    <2>3. CASE Recheck(r)
      BY <2>3, RecheckQuiet
    <2>4. CASE SendRuntime(r)
      BY <2>4, SendQuiet
    <2>5. CASE SetDispatchSequence(r)
      BY <2>5, SequenceQuiet
    <2>. QED
      BY <1>2, <2>1, <2>2, <2>3, <2>4, <2>5, NeverHappens DEF Reconcile
  <1>3. CASE Server
    <2>1. CASE ServerConnect
      BY <2>1, ConnectQuiet
    <2>2. CASE \/ SessionConnected \/ Heartbeat \/ FactsReply \/ LateReply \/ HoldReply
               \/ ExpireRuntimeResult
      BY <2>2, SessionStepsQuiet
    <2>3. CASE ExecutionsReply
      BY <2>3, ExecutionsQuiet
    <2>4. CASE RuntimeReply
      BY <2>4, ResultQuiet
    <2>. QED
      BY <1>3, <2>1, <2>2, <2>3, <2>4, NeverHappens DEF Server
  <1>4. CASE Agent
    <2>1. CASE AgentHello \/ AgentPrepare(1)
      BY <2>1, RestQuiet
    <2>2. CASE AgentQuery(1, "ok") \/ AgentQuery(1, "error")
      BY <2>2, QueryQuiet
    <2>3. CASE AgentStop(1)
      BY <2>3, StopQuiet
    <2>4. CASE \/ AgentStart(1)
               \/ \E outcome \in {"rejected", "uncertain", "spawn"} : AgentStartFails(1, outcome)
      BY <2>4, StartQuiet
    <2>5. \A e \in 1..MaxEpoch : e = 1
      OBVIOUS
    <2>. QED
      BY <1>4, <2>1, <2>2, <2>3, <2>4, <2>5, NeverHappens DEF Agent
  <1>5. CASE Environment
    <2>1. ASSUME NEW i \in Id, ExecutionFails(i) PROVE PathInOrder' /\ DispatchQuiet'
      BY <2>1, FailsQuiet
    <2>2. CASE \/ \E kind \in Expiring : ObservationExpires(kind)
               \/ \E b \in SUBSET Resource : UnmanagedProcess(b)
      BY <2>2, RestQuiet
    <2>. QED
      BY <1>5, <2>1, <2>2, NeverHappens DEF Environment
  <1>6. CASE UNCHANGED vars
    BY <1>6, RestQuiet
  <1>. QED
    BY <1>1, <1>2, <1>3, <1>4, <1>5, <1>6 DEF Next

\* All of it is kept.
LEMMA OneSessionStep == OneSession /\ [Next]_vars => OneSession'
  <1>. SUFFICES ASSUME OneSession, [Next]_vars PROVE OneSession'
    OBVIOUS
  <1>1. OneQuietSession /\ CoordTypes /\ TypeOK /\ HoldInv /\ SessionQuiet /\ PathInOrder /\ DispatchQuiet
    BY DEF OneSession, QuietInv, CoordTypes
  <1>2. CoordTypes'
    BY <1>1, TypesStep
  <1>3. HoldInv'
    BY <1>1, HoldStep
  <1>4. SessionQuiet'
    <2>1. FreshFirst
      BY <1>1 DEF DispatchQuiet
    <2>. QED
      BY <1>1, <2>1, SessionKept
  <1>5. Before
    BY <1>1, <1>2 DEF Before
  <1>6. PathInOrder' /\ DispatchQuiet'
    BY <1>5, QuietStep
  <1>7. OneQuietSession'
    BY <1>1 DEF OneQuietSession
  <1>. QED
    BY <1>2, <1>3, <1>4, <1>6, <1>7 DEF OneSession, QuietInv

\* What the Agent has yet to carry out is on the path.
LEMMA OutstandingIsUnderway ==
  ASSUME TypeOK, MaxEpoch = 1
  PROVE  Outstanding(1) \subseteq Underway
  <1>1. inbox[1] \in Seq(Commands)
    BY PathTypes
  <1>2. \A c \in Range(inbox[1]) : \E n \in 1..Len(inbox[1]) : inbox[1][n] = c
    BY <1>1, RangeOf
  <1>. QED
    BY <1>2 DEF Outstanding, Underway

\* With one quiet session the Agent never has two runtime commands, whatever the
\* workers, the operator and the deadlines of the Controller do: a command is only
\* sent with the key of its Host, which outlives it on its whole way.
THEOREM DispatchIsSerialised == OneQuietSession /\ Spec => []Serialised
  <1>1. OneSession => Serialised
    <2>. SUFFICES ASSUME OneSession, epoch > 0, NEW c \in Outstanding(epoch), NEW d \in Outstanding(epoch)
                  PROVE  c = d
      BY DEF Serialised
    <2>1. TypeOK /\ MaxEpoch = 1 /\ PathInOrder
      BY DEF OneSession, CoordTypes, OneQuietSession, QuietInv
    <2>2. epoch = 1 /\ inbox[1] \in Seq(Commands)
      BY <2>1, PathTypes
    <2>3. \A b : b \in Range(inbox[1]) <=> \E n \in 1..Len(inbox[1]) : inbox[1][n] = b
      BY <2>2, RangeOf
    <2>4. CASE NoRuntime(inbox[1])
      BY <2>2, <2>3, <2>4 DEF Outstanding, NoRuntime
    <2>5. CASE busyCmd[1] = NoCommand
      <3>1. ~IsRuntime(busyCmd[1])
        BY <2>5 DEF NoCommand, Command, IsRuntime
      <3>2. PICK m \in 1..Len(inbox[1]) : inbox[1][m] = c /\ IsRuntime(c)
        BY <2>2, <2>3, <3>1 DEF Outstanding
      <3>3. PICK n \in 1..Len(inbox[1]) : inbox[1][n] = d /\ IsRuntime(d)
        BY <2>2, <2>3, <3>1 DEF Outstanding
      <3>4. m = n
        BY <2>1, <3>2, <3>3 DEF PathInOrder, InOrder
      <3>. QED
        BY <3>2, <3>3, <3>4
    <2>. QED
      BY <2>1, <2>4, <2>5 DEF PathInOrder
  <1>. QED
    BY <1>1, OneSessionInit, OneSessionStep, PTL DEF Spec

\* With one quiet session no two live executions of the Host claim the same resource: a
\* START is dispatched when nothing else that the Controller or a list on its way knows
\* of holds what it claims, and what it does not know of is the START itself.
THEOREM ClaimsNeverOverlap == OneQuietSession /\ Spec => []NoOverlap
  <1>1. OneSession => NoOverlap
    BY DEF OneSession, QuietInv, DispatchQuiet
  <1>. QED
    BY <1>1, OneSessionInit, OneSessionStep, PTL DEF Spec

\* With one quiet session a workload is deleted only when it has no live execution and
\* no START on its way, and neither comes back: the deletion looks at the list and at
\* the keys in flight under one lock.
THEOREM DeletedStaysDead == OneQuietSession /\ Spec => []RetiredIsDead
  <1>1. OneSession => RetiredIsDead
    <2>. SUFFICES ASSUME OneSession PROVE RetiredIsDead
      OBVIOUS
    <2>1. /\ TypeOK /\ MaxEpoch = 1 /\ PathKeys /\ OneKey /\ DeletedDead
      BY DEF OneSession, CoordTypes, OneQuietSession, QuietInv, DispatchQuiet
    <2>2. ASSUME NEW w \in Workload, ~desired[w].exists, NEW c \in Outstanding(1),
                 c.kind = "START", c.id[1] = w
          PROVE  FALSE
      <3>1. c \in Underway
        BY <2>1, OutstandingIsUnderway
      <3>2. PICK f \in inFlight : f.key = Key(c.kind, c.id, 1)
        BY <2>1, <3>1 DEF PathKeys
      <3>3. f.key.id = c.id
        BY <3>2 DEF Key
      <3>. QED
        BY <2>1, <2>2, <3>3 DEF OneKey
    <2>3. \A e \in 1..MaxEpoch : e = 1
      BY <2>1
    <2>. QED
      BY <2>1, <2>2, <2>3 DEF RetiredIsDead, DeletedDead
  <1>. QED
    BY <1>1, OneSessionInit, OneSessionStep, PTL DEF Spec

(***************************************************************************)
(* The restore barrier, for any sessions, holds and freshness timeouts.    *)
(* Nothing can make an execution of a discarded history live again, so     *)
(* that a list which does not show one can be trusted however old it is.   *)
(***************************************************************************)

\* A command that may be on its way: a START is of a generation of this database, and
\* while the barrier b stands there is no runtime command at all.
Allowed(b, c) == (b # "NONE" => ~IsRuntime(c)) /\ (c.kind = "START" => c.id[2] > 0)

\* Everything that can become a START is of this history, wherever it is on its way.
OrdersKnown ==
    /\ \A i \in snaps : i[2] > 0
    /\ \A r \in Worker : worker[r].pc # "idle" =>
          barrier = "NONE" /\ (worker[r].key.act = "START" => worker[r].key.id[2] > 0)
    /\ \A e \in 1..MaxEpoch :
          /\ \A n \in 1..Len(inbox[e]) : Allowed(barrier, inbox[e][n])
          /\ busyCmd[e] # NoCommand => busyCmd[e].kind = "START" /\ Allowed(barrier, busyCmd[e])
    /\ \A c \in pending : Allowed(barrier, c)

\* The Agent still runs what a discarded history started.
Lost(w) == agent.exec[<<w, 0>>] = "RUNNING"

\* No view of the executions the Controller has, or has yet to read, misses one of those.
LostSeen ==
    /\ barrier # "NONE" => inFlight = {}
    /\ \A w \in Workload : Lost(w) =>
          /\ barrier # "NONE"
          /\ "executions" \in obs.fresh => obs.execs[<<w, 0>>] = "RUNNING"
          /\ \A n \in 1..Len(replies) :
                replies[n].cmd.kind = "executions" => replies[n].execs[<<w, 0>>] = "RUNNING"

\* Its name.
LEMMA LostName == \A w \in Workload : <<w, 0>> \in Id /\ <<w, 0>>[2] = 0
  <1>1. 0 \in 0..MaxGen
    BY CoordinatorAssumption
  <1>2. \A w \in Workload : <<w, 0>> \in Workload \X (0..MaxGen) /\ <<w, 0>>[2] = 0
    BY <1>1
  <1>. QED
    BY <1>2, CoordinatorAssumption

\* What is on one path was on another, or is no runtime command.
NoNewOrder(b, q) ==
    \A n \in 1..Len(q) : ~IsRuntime(q[n]) \/ \E m \in 1..Len(b) : q[n] = b[m]

\* Queries are none, and what was taken or dropped is none.
LEMMA JoinsNoOrder ==
  ASSUME NEW b \in Seq(Commands), NEW s \in Seq(Commands),
         \A n \in 1..Len(s) : s[n].kind \in Queries
  PROVE  NoNewOrder(b, b \o s)
  <1>1. ASSUME NEW n \in 1..Len(b \o s)
        PROVE  \/ ~IsRuntime((b \o s)[n])
               \/ \E m \in 1..Len(b) : (b \o s)[n] = b[m]
    <2>1. Len(b) \in Nat /\ Len(s) \in Nat /\ Len(b \o s) = Len(b) + Len(s)
      BY JoinOf
    <2>2. CASE n <= Len(b)
      <3>1. n \in 1..Len(b)
        BY <2>1, <2>2
      <3>. QED
        BY <3>1, JoinOf
    <2>3. CASE n > Len(b)
      <3>1. n - Len(b) \in 1..Len(s) /\ n = Len(b) + (n - Len(b))
        BY <2>1, <2>3
      <3>2. (b \o s)[n] = s[n - Len(b)]
        BY <3>1, JoinOf
      <3>3. s[n - Len(b)].kind \in Queries
        BY <3>1
      <3>. QED
        BY <3>2, <3>3 DEF IsRuntime, Queries
    <2>. QED
      BY <2>1, <2>2, <2>3
  <1>2. PICK q : q = b \o s
    OBVIOUS
  <1>3. \A n \in 1..Len(q) : ~IsRuntime(q[n]) \/ \E m \in 1..Len(b) : q[n] = b[m]
    BY <1>1, <1>2
  <1>4. NoNewOrder(b, q)
    BY <1>3 DEF NoNewOrder
  <1>. QED
    BY <1>2, <1>4

\* Nor is there one in what was taken or dropped.
LEMMA LeavesNoOrder ==
  ASSUME NEW b \in Seq(Commands)
  PROVE  /\ NoNewOrder(b, b) /\ NoNewOrder(b, <<>>)
         /\ b # <<>> => NoNewOrder(b, Tail(b))
  <1>1. NoNewOrder(b, b)
    BY DEF NoNewOrder
  <1>2. NoNewOrder(b, <<>>)
    BY DEF NoNewOrder
  <1>3. ASSUME b # <<>> PROVE NoNewOrder(b, Tail(b))
    <2>1. /\ Len(b) \in Nat /\ Len(Tail(b)) = Len(b) - 1
          /\ \A n \in 1..Len(b) - 1 : Tail(b)[n] = b[n + 1]
      BY <1>3, SequenceOf
    <2>2. \A n \in 1..Len(Tail(b)) : n + 1 \in 1..Len(b) /\ Tail(b)[n] = b[n + 1]
      BY <2>1
    <2>. QED
      BY <2>2 DEF NoNewOrder
  <1>. QED
    BY <1>1, <1>2, <1>3

\* The queries of a session.
LEMMA QueriesNoOrder ==
  ASSUME TypeOK, NEW ks, NEW e \in 1..MaxEpoch,
         inbox' = [inbox EXCEPT ![epoch] = @ \o Absent(ks)]
  PROVE  NoNewOrder(inbox[e], inbox'[e])
  <1>1. /\ Absent(ks) \in Seq(Commands)
        /\ \A n \in 1..Len(Absent(ks)) : Absent(ks)[n].kind \in Queries
    BY AbsentType
  <1>2. inbox[e] \in Seq(Commands)
    BY DEF TypeOK
  <1>3. inbox'[e] = inbox[e] \/ inbox'[e] = inbox[e] \o Absent(ks)
    BY DEF TypeOK
  <1>4. NoNewOrder(inbox[e], inbox[e]) /\ NoNewOrder(inbox[e], inbox[e] \o Absent(ks))
    BY <1>1, <1>2, JoinsNoOrder, LeavesNoOrder
  <1>. QED
    BY <1>3, <1>4

\* Only a worker's send puts a runtime command there.
LEMMA OnlyWorkersOrder ==
  ASSUME TypeOK, Operator \/ Server \/ Agent \/ Environment, NEW e \in 1..MaxEpoch
  PROVE  NoNewOrder(inbox[e], inbox'[e])
  <1>0. inbox[e] \in Seq(Commands)
    BY DEF TypeOK
  <1>1. ASSUME inbox'[e] = inbox[e] PROVE NoNewOrder(inbox[e], inbox'[e])
    BY <1>0, <1>1, LeavesNoOrder
  <1>2. ASSUME inbox'[e] = <<>> PROVE NoNewOrder(inbox[e], inbox'[e])
    BY <1>0, <1>2, LeavesNoOrder
  <1>3. CASE Operator
    <2>1. inbox' = inbox
      BY <1>3 DEF Operator, UpdateDesiredWorkload, RetryWorkload, DeleteDesiredWorkload,
         SetMaintenanceHold, agentVars
    <2>. QED
      BY <1>1, <2>1
  <1>4. CASE ServerConnect
    <2>1. inbox' = [inbox EXCEPT ![epoch + 1] = <<HoldCommand("hello", hold)>>]
      BY <1>4 DEF ServerConnect, ConnectOnce
    <2>2. CASE e = epoch + 1
      <3>1. HoldCommand("hello", hold).kind = "hello"
        BY DEF HoldCommand, Command
      <3>2. PICK c : c = HoldCommand("hello", hold) /\ c.kind = "hello"
        BY <3>1
      <3>3. inbox'[e] = <<c>>
        BY <2>1, <2>2, <3>2 DEF TypeOK
      <3>4. \A n \in 1..Len(<<c>>) : <<c>>[n] = c
        OBVIOUS
      <3>5. ~IsRuntime(c)
        BY <3>2 DEF IsRuntime
      <3>. QED
        BY <3>3, <3>4, <3>5 DEF NoNewOrder
    <2>3. CASE e # epoch + 1
      BY <1>1, <2>1, <2>3 DEF TypeOK
    <2>. QED
      BY <2>2, <2>3
  <1>5. CASE SessionConnected \/ Heartbeat
    <2>1. \E ks : inbox' = [inbox EXCEPT ![epoch] = @ \o Absent(ks)]
      BY <1>5 DEF SessionConnected, Heartbeat
    <2>. QED
      BY <2>1, QueriesNoOrder
  <1>6. CASE ExecutionsReply
    <2>1. \/ inbox' = [inbox EXCEPT ![epoch] = @ \o Absent({"facts"})]
          \/ inbox' = [inbox EXCEPT ![epoch] = @ \o <<>>]
      BY <1>6 DEF ExecutionsReply
    <2>2. CASE inbox' = [inbox EXCEPT ![epoch] = @ \o <<>>]
      <3>1. inbox[e] \o <<>> = inbox[e]
        BY DEF TypeOK
      <3>2. inbox'[e] = inbox[e]
        BY <2>2, <3>1 DEF TypeOK
      <3>. QED
        BY <1>1, <3>2
    <2>. QED
      BY <2>1, <2>2, QueriesNoOrder
  <1>7. ASSUME Server PROVE \/ inbox' = inbox \/ ServerConnect \/ SessionConnected \/ Heartbeat
                            \/ ExecutionsReply
    BY <1>7 DEF Server, ServerEnds, SessionDisconnected, FactsReply, RuntimeReply,
       ExpireRuntimeResult, LateReply, HoldReply, HoldFails, HoldReturns, agentVars
  <1>8. CASE Agent
    <2>1. \/ inbox' = inbox
          \/ \E d : inbox[d] # <<>> /\ inbox' = [inbox EXCEPT ![d] = Tail(@)]
          \/ \E d : inbox' = [inbox EXCEPT ![d] = <<>>]
      BY <1>8 DEF Agent, AgentHello, AgentHold, AgentQuery, AgentStop, AgentPrepare, AgentStart,
         AgentQuit, AgentStartFails, Ready
    <2>2. ASSUME NEW d, inbox[d] # <<>>, inbox' = [inbox EXCEPT ![d] = Tail(@)]
          PROVE  NoNewOrder(inbox[e], inbox'[e])
      <3>1. CASE d = e
        <4>1. inbox'[e] = Tail(inbox[e]) /\ inbox[e] # <<>>
          BY <2>2, <3>1 DEF TypeOK
        <4>. QED
          BY <1>0, <4>1, LeavesNoOrder
      <3>2. CASE d # e
        BY <1>1, <2>2, <3>2 DEF TypeOK
      <3>. QED
        BY <3>1, <3>2
    <2>3. ASSUME NEW d, inbox' = [inbox EXCEPT ![d] = <<>>] PROVE NoNewOrder(inbox[e], inbox'[e])
      <3>1. inbox'[e] = <<>> \/ inbox'[e] = inbox[e]
        BY <2>3 DEF TypeOK
      <3>. QED
        BY <1>1, <1>2, <3>1
    <2>. QED
      BY <1>1, <2>1, <2>2, <2>3
  <1>9. CASE Environment
    <2>1. inbox' = inbox \/ inbox' = [d \in 1..MaxEpoch |-> <<>>]
      BY <1>9 DEF Environment, LinkBreaks, AgentRestarts, ExecutionFails, ObservationExpires,
         UnmanagedProcess, agentVars, TypeOK
    <2>. QED
      BY <1>1, <1>2, <2>1
  <1>. QED
    BY <1>1, <1>3, <1>4, <1>5, <1>6, <1>7, <1>8, <1>9

\* A command goroutine takes its START from its buffer.
LEMMA PreparesOrder ==
  ASSUME TypeOK, Operator \/ Server \/ Agent \/ Environment, NEW e \in 1..MaxEpoch
  PROVE  \/ busyCmd'[e] = busyCmd[e] \/ busyCmd'[e] = NoCommand
         \/ inbox[e] # <<>> /\ Head(inbox[e]).kind = "START" /\ busyCmd'[e] = Head(inbox[e])
  <1>1. CASE Operator \/ Server
    BY <1>1 DEF Operator, UpdateDesiredWorkload, RetryWorkload, DeleteDesiredWorkload,
       SetMaintenanceHold, Server, ServerConnect, SessionConnected, Heartbeat, ExecutionsReply,
       ServerEnds, SessionDisconnected, FactsReply, RuntimeReply, ExpireRuntimeResult, LateReply,
       HoldReply, HoldFails, HoldReturns, agentVars
  <1>2. CASE Agent
    <2>1. \/ busyCmd' = busyCmd
          \/ \E d : busyCmd' = [busyCmd EXCEPT ![d] = NoCommand]
          \/ \E d : /\ inbox[d] # <<>> /\ Head(inbox[d]).kind = "START"
                    /\ busyCmd' = [busyCmd EXCEPT ![d] = Head(inbox[d])]
      BY <1>2 DEF Agent, AgentHello, AgentHold, AgentQuery, AgentStop, AgentPrepare, AgentStart,
         AgentQuit, AgentStartFails, Ready
    <2>2. busyCmd \in [1..MaxEpoch -> Commands]
      BY DEF TypeOK
    <2>. QED
      BY <2>1, <2>2
  <1>3. CASE Environment
    <2>1. busyCmd' = busyCmd \/ busyCmd' = [d \in 1..MaxEpoch |-> NoCommand]
      BY <1>3 DEF Environment, LinkBreaks, AgentRestarts, ExecutionFails, ObservationExpires,
         UnmanagedProcess, agentVars, TypeOK
    <2>. QED
      BY <2>1
  <1>. QED
    BY <1>1, <1>2, <1>3

\* What the Controller waits for besides queries is what it waited for.
LEMMA PendingOrder ==
  ASSUME TypeOK, Operator \/ Server \/ Agent \/ Environment, NEW c \in pending'
  PROVE  c \in pending \/ c.kind \in Queries
  <1>0. ASSUME NEW ks PROVE \A d \in Range(Absent(ks)) : d.kind \in Queries
    BY AbsentType, RangeOf
  <1>1. CASE Operator \/ Agent \/ Environment
    BY <1>1 DEF Operator, UpdateDesiredWorkload, RetryWorkload, DeleteDesiredWorkload,
       SetMaintenanceHold, Agent, AgentHello, AgentHold, AgentQuery, AgentStop, AgentPrepare,
       AgentStart, AgentQuit, AgentStartFails, Environment, LinkBreaks, AgentRestarts,
       ExecutionFails, ObservationExpires, UnmanagedProcess, sessionVars
  <1>2. CASE SessionConnected \/ Heartbeat
    <2>1. \E ks : pending' \subseteq pending \cup Range(Absent(ks))
      BY <1>2 DEF SessionConnected, Heartbeat
    <2>. QED
      BY <1>0, <2>1
  <1>3. CASE ExecutionsReply
    <2>1. PICK new : /\ new = <<>> \/ new = Absent({"facts"})
                     /\ pending' \subseteq pending \cup Range(new)
      BY <1>3 DEF ExecutionsReply
    <2>2. Range(<<>>) = {}
      BY DEF Range
    <2>. QED
      BY <1>0, <2>1, <2>2
  <1>4. ASSUME Server PROVE \/ pending' \subseteq pending \/ SessionConnected \/ Heartbeat
                            \/ ExecutionsReply
    BY <1>4 DEF Server, ServerConnect, ServerEnds, SessionDisconnected, FactsReply, RuntimeReply,
       ExpireRuntimeResult, LateReply, HoldReply, HoldFails, HoldReturns, sessionVars
  <1>. QED
    BY <1>1, <1>2, <1>3, <1>4

\* What names the commands, for the steps in which no worker sends one.
LEMMA OrdersPassed ==
  ASSUME TypeOK, OrdersKnown, barrier' = barrier \/ barrier' = "NONE",
         NEW e \in 1..MaxEpoch, NoNewOrder(inbox[e], inbox'[e]),
         \/ busyCmd'[e] = busyCmd[e] \/ busyCmd'[e] = NoCommand
         \/ inbox[e] # <<>> /\ Head(inbox[e]).kind = "START" /\ busyCmd'[e] = Head(inbox[e])
  PROVE  /\ \A n \in 1..Len(inbox'[e]) : Allowed(barrier', inbox'[e][n])
         /\ busyCmd'[e] # NoCommand => busyCmd'[e].kind = "START" /\ Allowed(barrier', busyCmd'[e])
  <1>1. \A c : (Allowed(barrier, c) => Allowed(barrier', c)) /\ (~IsRuntime(c) => Allowed(barrier', c))
    BY DEF Allowed, IsRuntime
  <1>2. ASSUME NEW n \in 1..Len(inbox'[e]) PROVE Allowed(barrier', inbox'[e][n])
    <2>1. CASE ~IsRuntime(inbox'[e][n])
      BY <1>1, <2>1
    <2>2. ASSUME NEW m \in 1..Len(inbox[e]), inbox'[e][n] = inbox[e][m] PROVE Allowed(barrier', inbox'[e][n])
      <3>1. Allowed(barrier, inbox[e][m])
        BY DEF OrdersKnown
      <3>. QED
        BY <1>1, <2>2, <3>1
    <2>. QED
      BY <2>1, <2>2 DEF NoNewOrder
  <1>3. ASSUME busyCmd'[e] # NoCommand PROVE busyCmd'[e].kind = "START" /\ Allowed(barrier', busyCmd'[e])
    <2>1. CASE busyCmd'[e] = busyCmd[e]
      <3>1. busyCmd[e].kind = "START" /\ Allowed(barrier, busyCmd[e])
        BY <1>3, <2>1 DEF OrdersKnown
      <3>. QED
        BY <1>1, <2>1, <3>1
    <2>2. CASE inbox[e] # <<>> /\ Head(inbox[e]).kind = "START" /\ busyCmd'[e] = Head(inbox[e])
      <3>1. inbox[e] \in Seq(Commands) /\ inbox[e] # <<>>
        BY <2>2 DEF TypeOK
      <3>2. Head(inbox[e]) = inbox[e][1] /\ 1 \in 1..Len(inbox[e])
        BY <3>1, SequenceOf
      <3>3. Allowed(barrier, inbox[e][1])
        BY <3>2 DEF OrdersKnown
      <3>. QED
        BY <1>1, <2>2, <3>2, <3>3
    <2>. QED
      BY <1>3, <2>1, <2>2
  <1>. QED
    BY <1>2, <1>3

\* Steps of anyone but a worker.
LEMMA OthersKeepOrders ==
  ASSUME CoordTypes, OrdersKnown, Operator \/ Server \/ Agent \/ Environment
  PROVE  OrdersKnown'
  <1>. TypeOK
    BY DEF CoordTypes
  <1>1. worker' = worker
    BY OthersLeaveWorkers
  <1>2. barrier' = barrier
    BY DEF Operator, UpdateDesiredWorkload, RetryWorkload, DeleteDesiredWorkload,
       SetMaintenanceHold, Server, ServerConnect, SessionConnected, Heartbeat, ExecutionsReply,
       ServerEnds, SessionDisconnected, FactsReply, RuntimeReply, ExpireRuntimeResult, LateReply,
       HoldReply, HoldFails, HoldReturns, Agent, AgentHello, AgentHold, AgentQuery, AgentStop,
       AgentPrepare, AgentStart, AgentQuit, AgentStartFails, Environment, LinkBreaks,
       AgentRestarts, ExecutionFails, ObservationExpires, UnmanagedProcess, configVars
  <1>3. \A i \in snaps' : i[2] > 0
    <2>1. \/ snaps' = snaps
          \/ \E w \in Workload : snaps' = snaps \cup {<<w, desired[w].gen + 1>>}
      BY DEF Operator, UpdateDesiredWorkload, RetryWorkload, DeleteDesiredWorkload,
         SetMaintenanceHold, Server, ServerConnect, SessionConnected, Heartbeat, ExecutionsReply,
         ServerEnds, SessionDisconnected, FactsReply, RuntimeReply, ExpireRuntimeResult,
         LateReply, HoldReply, HoldFails, HoldReturns, Agent, AgentHello, AgentHold, AgentQuery,
         AgentStop, AgentPrepare, AgentStart, AgentQuit, AgentStartFails, Environment,
         LinkBreaks, AgentRestarts, ExecutionFails, ObservationExpires, UnmanagedProcess,
         configVars
    <2>2. \A w \in Workload : desired[w].gen + 1 > 0
      BY DEF TypeOK
    <2>3. \A w \in Workload : <<w, desired[w].gen + 1>>[2] > 0
      BY <2>2
    <2>. QED
      BY <2>1, <2>3 DEF OrdersKnown
  <1>4. \A e \in 1..MaxEpoch :
           /\ \A n \in 1..Len(inbox'[e]) : Allowed(barrier', inbox'[e][n])
           /\ busyCmd'[e] # NoCommand => busyCmd'[e].kind = "START" /\ Allowed(barrier', busyCmd'[e])
    BY <1>2, OnlyWorkersOrder, PreparesOrder, OrdersPassed
  <1>5. ASSUME NEW c \in pending' PROVE Allowed(barrier', c)
    <2>1. CASE c \in pending
      BY <1>2, <2>1 DEF OrdersKnown, Allowed
    <2>2. CASE c.kind \in Queries
      BY <2>2 DEF Allowed, IsRuntime, Queries
    <2>. QED
      BY <2>1, <2>2, PendingOrder
  <1>6. \A r \in Worker : worker'[r].pc # "idle" =>
           barrier' = "NONE" /\ (worker'[r].key.act = "START" => worker'[r].key.id[2] > 0)
    BY <1>1, <1>2 DEF OrdersKnown
  <1>. QED
    BY <1>3, <1>4, <1>5, <1>6 DEF OrdersKnown

\* A START is of an execution whose snapshot the database has.
LEMMA StartHasSnapshot ==
  ASSUME TypeOK, NEW w \in Workload, PlanOf(w).act = "START"
  PROVE  PlanOf(w).ids \subseteq snaps
  BY DEF PlanOf, Plan, NoAction

\* A step after which each of them does what it did, or is of this history.
LEMMA WorkersKeptKnown ==
  ASSUME OrdersKnown,
         barrier' = barrier \/ barrier' = "NONE" \/ \A q \in Worker : worker[q].pc = "idle",
         \A q \in Worker : worker'[q].pc # "idle" =>
            \/ worker[q].pc # "idle" /\ worker'[q].key = worker[q].key
            \/ barrier' = "NONE" /\ (worker'[q].key.act = "START" => worker'[q].key.id[2] > 0)
  PROVE  \A q \in Worker : worker'[q].pc # "idle" =>
            barrier' = "NONE" /\ (worker'[q].key.act = "START" => worker'[q].key.id[2] > 0)
  BY DEF OrdersKnown

\* A step of a worker that sends nothing.
LEMMA NothingSent ==
  ASSUME TypeOK, OrdersKnown, UNCHANGED <<snaps, pending, inbox, busyCmd>>,
         barrier' = barrier \/ barrier # "NONE",
         \A q \in Worker : worker'[q].pc # "idle" =>
            \/ worker[q].pc # "idle" /\ worker'[q].key = worker[q].key
            \/ barrier' = "NONE" /\ (worker'[q].key.act = "START" => worker'[q].key.id[2] > 0)
  PROVE  OrdersKnown'
  <1>1. \A c : Allowed(barrier, c) => Allowed(barrier', c)
    BY DEF Allowed
  <1>2. \A q \in Worker : worker'[q].pc # "idle" =>
           barrier' = "NONE" /\ (worker'[q].key.act = "START" => worker'[q].key.id[2] > 0)
    <2>1. barrier' = barrier \/ \A q \in Worker : worker[q].pc = "idle"
      BY DEF OrdersKnown
    <2>. QED
      BY <2>1, WorkersKeptKnown
  <1>3. \A e \in 1..MaxEpoch :
           /\ \A n \in 1..Len(inbox'[e]) : Allowed(barrier', inbox'[e][n])
           /\ busyCmd'[e] # NoCommand => busyCmd'[e].kind = "START" /\ Allowed(barrier', busyCmd'[e])
    BY <1>1 DEF OrdersKnown
  <1>4. /\ \A c \in pending' : Allowed(barrier', c)
        /\ \A i \in snaps' : i[2] > 0
    BY <1>1 DEF OrdersKnown
  <1>. QED
    BY <1>2, <1>3, <1>4 DEF OrdersKnown

\* What a worker sends may be sent.
LEMMA SentIsAllowed ==
  ASSUME CoordTypes, OrdersKnown, NEW r \in Worker, worker[r].pc = "send"
  PROVE  Allowed(barrier, Command(worker[r].key.act, worker[r].key.id, session.seq + 1))
  BY DEF OrdersKnown, Allowed, Command

\* And it is what a send adds to a path.
LEMMA SentKnown ==
  ASSUME CoordTypes, OrdersKnown, NEW r \in Worker, worker[r].pc = "send",
         barrier' = barrier, UNCHANGED <<snaps, busyCmd>>,
         \/ inbox' = inbox
         \/ inbox' = [inbox EXCEPT ![epoch] = Append(@,
                         Command(worker[r].key.act, worker[r].key.id, session.seq + 1))],
         \/ pending' = pending
         \/ pending' = pending \cup
               {Command(worker[r].key.act, worker[r].key.id, session.seq + 1)},
         \A q \in Worker : worker'[q].pc # "idle" =>
            worker[q].pc # "idle" /\ worker'[q].key = worker[q].key
  PROVE  OrdersKnown'
  <1>0. TypeOK /\ worker[r].key.act \in {"START", "STOP"}
    BY DEF CoordTypes, WorkersAct
  <1>1. PICK c \in Commands :
           /\ c = Command(worker[r].key.act, worker[r].key.id, session.seq + 1)
           /\ Allowed(barrier, c)
    BY <1>0, SentTypes, SentIsAllowed
  <1>2. \A q \in Worker : worker'[q].pc # "idle" =>
           barrier' = "NONE" /\ (worker'[q].key.act = "START" => worker'[q].key.id[2] > 0)
    BY WorkersKeptKnown
  <1>3. ASSUME NEW e \in 1..MaxEpoch, NEW n \in 1..Len(inbox'[e])
        PROVE  Allowed(barrier, inbox'[e][n])
    <2>1. PICK b \in Seq(Commands) : b = inbox[e]
      BY <1>0 DEF TypeOK
    <2>2. inbox'[e] = b \/ inbox'[e] = Append(b, c)
      <3>1. inbox' = inbox \/ inbox' = [inbox EXCEPT ![epoch] = Append(@, c)]
        BY <1>1
      <3>2. e \in DOMAIN inbox
        BY <1>0 DEF TypeOK
      <3>. QED
        BY <2>1, <3>1, <3>2
    <2>3. \A m \in 1..Len(b) : Allowed(barrier, b[m])
      BY <2>1 DEF OrdersKnown
    <2>4. CASE inbox'[e] = b
      BY <2>3, <2>4
    <2>5. CASE inbox'[e] = Append(b, c)
      <3>1. /\ Len(b) \in Nat /\ Len(Append(b, c)) = Len(b) + 1
            /\ Append(b, c)[Len(b) + 1] = c
            /\ \A m \in 1..Len(b) : Append(b, c)[m] = b[m]
        BY SequenceOf
      <3>2. n \in 1..Len(b) \/ n = Len(b) + 1
        BY <2>5, <3>1
      <3>. QED
        BY <1>1, <2>3, <2>5, <3>1, <3>2
    <2>. QED
      BY <2>2, <2>4, <2>5
  <1>4. \A e \in 1..MaxEpoch : busyCmd'[e] # NoCommand =>
           busyCmd'[e].kind = "START" /\ Allowed(barrier, busyCmd'[e])
    BY DEF OrdersKnown
  <1>5. \A d \in pending' : Allowed(barrier, d)
    BY <1>1 DEF OrdersKnown
  <1>6. \A i \in snaps' : i[2] > 0
    BY DEF OrdersKnown
  <1>. QED
    BY <1>2, <1>3, <1>4, <1>5, <1>6 DEF OrdersKnown

\* Steps of a worker.
LEMMA WorkersKeepOrders ==
  ASSUME CoordTypes, OrdersKnown, NEW r \in Worker, Reconcile(r)
  PROVE  OrdersKnown'
  <1>. DEFINE Same(q) == worker[q].pc # "idle" /\ worker'[q].key = worker[q].key
  <1>0. TypeOK
    BY DEF CoordTypes
  <1>1. CASE ApplyRestoreBarrier(r) \/ \E invalid \in SUBSET Workload : PrepareBlocks(r, invalid)
    <2>1. /\ UNCHANGED <<snaps, coordVars, sessionVars, agentVars>>
          /\ barrier' = barrier \/ barrier # "NONE"
      BY <1>1 DEF ApplyRestoreBarrier, PrepareBlocks, BarrierLifted
    <2>2. UNCHANGED <<snaps, worker, pending, inbox, busyCmd>>
      BY <2>1 DEF coordVars, sessionVars, agentVars
    <2>. QED
      BY <1>0, <2>1, <2>2, NothingSent
  <1>2. ASSUME NEW invalid \in SUBSET Workload, PrepareDispatch(r, invalid) PROVE OrdersKnown'
    <2>1. /\ UNCHANGED <<snaps, barrier, sessionVars, agentVars>>
          /\ barrier = "NONE" /\ Dispatching(invalid) # {}
      BY <1>2 DEF PrepareDispatch, BarrierLifted
    <2>2. PICK w \in Workload : w = First(Dispatching(invalid))
      <3>1. Dispatching(invalid) \subseteq Workload
        BY DEF Dispatching
      <3>. QED
        BY <2>1, <3>1, LeastOf
    <2>3. PICK i \in PlanOf(w).ids :
             worker' = [worker EXCEPT ![r] =
                          [pc |-> "reserved", key |-> Key(PlanOf(w).act, i, obs.epoch),
                           seq |-> 0, seen |-> obs]]
      BY <1>2, <2>2 DEF PrepareDispatch
    <2>4. PlanOf(w).act = "START" => i[2] > 0
      BY <1>0, StartHasSnapshot DEF OrdersKnown
    <2>5. /\ Key(PlanOf(w).act, i, obs.epoch).act = PlanOf(w).act
          /\ Key(PlanOf(w).act, i, obs.epoch).id = i
      BY DEF Key
    <2>6. /\ worker'[r].key = Key(PlanOf(w).act, i, obs.epoch)
          /\ \A q \in Worker : q # r => worker'[q] = worker[q]
      BY <1>0, <2>3 DEF TypeOK
    <2>7. \A q \in Worker : worker'[q].pc # "idle" =>
             \/ Same(q)
             \/ barrier' = "NONE" /\ (worker'[q].key.act = "START" => worker'[q].key.id[2] > 0)
      BY <2>1, <2>4, <2>5, <2>6
    <2>. QED
      BY <1>0, <2>1, <2>7, NothingSent DEF sessionVars, agentVars
  <1>3. CASE Recheck(r) \/ SetDispatchSequence(r)
    <2>1. UNCHANGED <<configVars, sessionVars, agentVars>>
      BY <1>3 DEF Recheck, SetDispatchSequence
    <2>2. \/ worker' = [worker EXCEPT ![r].pc = "send"] /\ worker[r].pc # "idle"
          \/ worker' = [worker EXCEPT ![r] = IdleWorker]
      BY <1>3 DEF Recheck, SetDispatchSequence
    <2>3. \A q \in Worker : worker'[q].pc # "idle" => Same(q)
      BY <1>0, <2>2, WorkerUpdates
    <2>4. UNCHANGED <<snaps, barrier, pending, inbox, busyCmd>>
      BY <2>1 DEF configVars, sessionVars, agentVars
    <2>. QED
      BY <1>0, <2>3, <2>4, NothingSent
  <1>4. CASE SendRuntime(r) \/ SendFails(r)
    <2>1. worker[r].pc = "send" /\ UNCHANGED <<snaps, barrier, busyCmd>>
      BY <1>4 DEF SendRuntime, SendFails, configVars
    <2>2. \/ inbox' = inbox
          \/ inbox' = [inbox EXCEPT ![epoch] = Append(@,
                          Command(worker[r].key.act, worker[r].key.id, session.seq + 1))]
      BY <1>4 DEF SendRuntime, Send, SendFails
    <2>3. \/ pending' = pending
          \/ pending' = pending \cup
                {Command(worker[r].key.act, worker[r].key.id, session.seq + 1)}
      BY <1>4 DEF SendRuntime, Send, SendFails
    <2>4. \/ worker' = [worker EXCEPT ![r].pc = "sent", ![r].seq = session.seq + 1]
          \/ worker' = [worker EXCEPT ![r] = IdleWorker]
      BY <1>4 DEF SendRuntime, SendFails
    <2>5. \A q \in Worker : worker'[q].pc # "idle" => Same(q)
      BY <1>0, <2>1, <2>4, WorkerUpdates
    <2>. QED
      BY <2>1, <2>2, <2>3, <2>5, SentKnown
  <1>. QED
    BY <1>1, <1>2, <1>3, <1>4 DEF Reconcile

\* The entry does not miss what is lost.
Sees(o, w) == "executions" \in o.fresh => o.execs[<<w, 0>>] = "RUNNING"

\* Whatever the store's methods make of it, unless they are given another list.
LEMMA StoreSees ==
  ASSUME NEW w \in Workload, NEW o \in Entry, Sees(o, w), NEW e
  PROVE  /\ Sees(Connect(o, e), w) /\ Sees(SetInventory(o, e), w)
         /\ Sees(SetAgentState(o, e), w) /\ Sees(MarkReady(o, e), w)
         /\ Sees(RequireFreshBootstrap(o, e), w) /\ Sees(Disconnect(o, e), w)
         /\ \A b : Sees(SetUnmanagedProcesses(o, e, b), w)
         /\ \A kind : Sees(Expire(o, kind), w)
         /\ \A x, seq : x[<<w, 0>>] = "RUNNING" => Sees(SetExecutions(o, e, x, seq), w)
  <1>1. o.fresh \subseteq {"executions", "inventory", "processes"}
    BY DEF Entry
  <1>2. Sees(Connect(o, e), w)
    BY DEF Sees, Connect, NewEntry
  <1>3. /\ Sees(SetInventory(o, e), w) /\ Sees(SetAgentState(o, e), w)
        /\ Sees(MarkReady(o, e), w)
        /\ Sees(RequireFreshBootstrap(o, e), w) /\ Sees(Disconnect(o, e), w)
    BY <1>1 DEF Sees, Entry, SetInventory, SetAgentState, MarkReady, RequireFreshBootstrap,
       Disconnect
  <1>4. /\ \A b : Sees(SetUnmanagedProcesses(o, e, b), w)
        /\ \A kind : Sees(Expire(o, kind), w)
    BY <1>1 DEF Sees, Entry, SetUnmanagedProcesses, Expire
  <1>5. \A x, seq : x[<<w, 0>>] = "RUNNING" => Sees(SetExecutions(o, e, x, seq), w)
    BY <1>1 DEF Sees, Entry, SetExecutions
  <1>. QED
    BY <1>2, <1>3, <1>4, <1>5

\* What is lost was lost before: no START names it.
LEMMA LostFades ==
  ASSUME CoordTypes, OrdersKnown, NEW w \in Workload, agent'.exec[<<w, 0>>] = "RUNNING",
         Operator \/ Server \/ Agent \/ Environment
  PROVE  Lost(w)
  <1>. TypeOK
    BY DEF CoordTypes
  <1>0. /\ agent \in AgentRow /\ \E i \in Id : i = <<w, 0>> /\ i[2] = 0
    BY LostName DEF TypeOK, AgentRow
  <1>1. PICK i \in Id : i = <<w, 0>> /\ i[2] = 0
    BY <1>0
  <1>2. ASSUME NEW c, agent' = ApplyHold(c) PROVE agent.exec[i] = "RUNNING"
    BY <1>0, <1>1, <1>2 DEF ApplyHold, AgentRow
  <1>3. ASSUME NEW j, NEW status, status # "RUNNING", agent' = [agent EXCEPT !.exec[j] = status]
        PROVE  agent.exec[i] = "RUNNING"
    BY <1>0, <1>1, <1>3 DEF AgentRow
  <1>4. ASSUME NEW e \in 1..MaxEpoch, AgentStart(e) PROVE agent.exec[i] = "RUNNING"
    <2>1. busyCmd[e].id[2] > 0
      BY <1>4 DEF AgentStart, OrdersKnown, Allowed
    <2>2. busyCmd[e].id # i
      BY <1>1, <2>1
    <2>3. agent' = agent \/ agent' = [agent EXCEPT !.exec[busyCmd[e].id] = "RUNNING"]
      BY <1>4 DEF AgentStart
    <2>. QED
      BY <1>0, <1>1, <2>2, <2>3 DEF AgentRow
  <1>5. ASSUME agent' = agent PROVE agent.exec[i] = "RUNNING"
    BY <1>1, <1>5
  <1>6. CASE Operator \/ Server
    <2>1. agent' = agent
      BY <1>6 DEF Operator, UpdateDesiredWorkload, RetryWorkload, DeleteDesiredWorkload,
         SetMaintenanceHold, Server, ServerConnect, SessionConnected, Heartbeat, ExecutionsReply,
         ServerEnds, SessionDisconnected, FactsReply, RuntimeReply, ExpireRuntimeResult,
         LateReply, HoldReply, HoldFails, HoldReturns, agentVars
    <2>. QED
      BY <1>1, <1>5, <2>1 DEF Lost
  <1>7. CASE Agent
    <2>1. \/ agent' = agent \/ \E c : agent' = ApplyHold(c)
          \/ \E j, status : status # "RUNNING" /\ agent' = [agent EXCEPT !.exec[j] = status]
          \/ \E e \in 1..MaxEpoch : AgentStart(e)
      <3>1. CASE AgentHello \/ AgentHold
        BY <3>1 DEF AgentHello, AgentHold
      <3>2. ASSUME NEW e \in 1..MaxEpoch, AgentStop(e)
            PROVE  agent' = agent
                   \/ \E j, status : status # "RUNNING"
                                     /\ agent' = [agent EXCEPT !.exec[j] = status]
        <4>1. agent' = agent
              \/ agent' = [agent EXCEPT !.exec[Head(inbox[e]).id] = "STOPPED"]
          BY <3>2 DEF AgentStop
        <4>. QED
          BY <4>1
      <3>3. ASSUME NEW e \in 1..MaxEpoch, NEW outcome, AgentStartFails(e, outcome)
            PROVE  agent' = agent
                   \/ \E j, status : status # "RUNNING"
                                     /\ agent' = [agent EXCEPT !.exec[j] = status]
        <4>1. agent' = agent
              \/ agent' = [agent EXCEPT !.exec[busyCmd[e].id] = "FAILED"]
          BY <3>3 DEF AgentStartFails
        <4>. QED
          BY <4>1
      <3>4. ASSUME NEW e \in 1..MaxEpoch,
                   AgentQuery(e, "ok") \/ AgentQuery(e, "error") \/ AgentPrepare(e) \/ AgentQuit(e)
            PROVE  agent' = agent
        BY <3>4 DEF AgentQuery, AgentPrepare, AgentQuit
      <3>. QED
        BY <1>7, <3>1, <3>2, <3>3, <3>4 DEF Agent
    <2>. QED
      BY <1>1, <1>2, <1>3, <1>4, <1>5, <2>1 DEF Lost
  <1>8. CASE Environment
    <2>1. \/ agent' = agent
          \/ agent' = [exec |-> [j \in Id |-> "NONE"], hold |-> FALSE, rev |-> 0]
          \/ \E j : agent' = [agent EXCEPT !.exec[j] = "FAILED"]
      BY <1>8 DEF Environment, LinkBreaks, AgentRestarts, ExecutionFails, ObservationExpires,
         UnmanagedProcess, agentVars
    <2>2. agent' # [exec |-> [j \in Id |-> "NONE"], hold |-> FALSE, rev |-> 0]
      <3>1. ASSUME agent' = [exec |-> [j \in Id |-> "NONE"], hold |-> FALSE, rev |-> 0]
            PROVE  FALSE
        <4>1. agent'.exec[i] = "NONE"
          BY <3>1
        <4>. QED
          BY <1>1, <4>1
      <3>. QED
        BY <3>1
    <2>3. ASSUME NEW j, agent' = [agent EXCEPT !.exec[j] = "FAILED"]
          PROVE  agent.exec[i] = "RUNNING"
      BY <1>3, <2>3
    <2>4. agent.exec[i] = "RUNNING"
      BY <1>5, <2>1, <2>2, <2>3
    <2>. QED
      BY <1>1, <2>4 DEF Lost
  <1>. QED
    BY <1>6, <1>7, <1>8

\* While something is lost no runtime result changes the entry: none is awaited.
LEMMA EntrySees ==
  ASSUME CoordTypes, OrdersKnown, LostSeen, NEW w \in Workload, Lost(w),
         Operator \/ Server \/ Agent \/ Environment
  PROVE  Sees(obs', w)
  <1>0. obs \in Entry /\ Sees(obs, w) /\ barrier # "NONE"
    BY DEF CoordTypes, TypeOK, LostSeen, Sees
  <1>1. \A c \in pending : ~IsRuntime(c)
    BY <1>0 DEF OrdersKnown, Allowed
  <1>2. ASSUME obs' = obs PROVE Sees(obs', w)
    BY <1>0, <1>2
  <1>3. CASE Operator \/ Agent
    <2>1. obs' = obs
      BY <1>3 DEF Operator, UpdateDesiredWorkload, RetryWorkload, DeleteDesiredWorkload,
         SetMaintenanceHold, Agent, AgentHello, AgentHold, AgentQuery, AgentStop, AgentPrepare,
         AgentStart, AgentQuit, AgentStartFails, coordVars
    <2>. QED
      BY <1>2, <2>1
  <1>4. CASE SessionConnected
    <2>1. obs' = Connect(obs, epoch)
      BY <1>4 DEF SessionConnected
    <2>. QED
      BY <1>0, <2>1, StoreSees
  <1>5. CASE SessionDisconnected
    <2>1. obs' = Disconnect(obs, epoch)
      BY <1>5 DEF SessionDisconnected, Disconnected
    <2>. QED
      BY <1>0, <2>1, StoreSees
  <1>6. CASE HoldReturns
    <2>1. obs' = obs \/ obs' = RequireFreshBootstrap(obs, epoch)
      BY <1>6 DEF HoldReturns
    <2>. QED
      BY <1>0, <2>1, StoreSees
  <1>7. CASE ExecutionsReply
    <2>1. PICK m \in Replies :
             /\ m = replies[1] /\ Len(replies) > 0 /\ m.cmd.kind = "executions"
             /\ obs' = MarkReady(SetExecutions(obs, epoch, m.execs, m.cmd.seq), epoch)
      BY <1>7, TakeTypes DEF ExecutionsReply, CoordTypes
    <2>2. 1 \in 1..Len(replies)
      <3>1. Len(replies) \in Nat
        BY DEF CoordTypes, TypeOK
      <3>. QED
        BY <2>1, <3>1
    <2>3. m.execs[<<w, 0>>] = "RUNNING"
      BY <2>1, <2>2 DEF LostSeen
    <2>4. PICK o : o = SetExecutions(obs, epoch, m.execs, m.cmd.seq)
      OBVIOUS
    <2>5. Sees(o, w)
      BY <1>0, <2>3, <2>4, StoreSees
    <2>6. o \in Entry
      <3>1. m.cmd.seq \in Nat /\ m.execs \in [Id -> Statuses]
        BY <2>1 DEF Replies, Commands
      <3>2. epoch \in Nat
        BY CoordinatorAssumption DEF CoordTypes, TypeOK
      <3>. QED
        BY <1>0, <2>4, <3>1, <3>2, ExecutionsType
    <2>. QED
      BY <2>1, <2>4, <2>5, <2>6, StoreSees
  <1>8. CASE FactsReply
    <2>0. PICK k : k = SetInventory(SetAgentState(obs, epoch), epoch)
      OBVIOUS
    <2>1. PICK b \in SUBSET Resource :
             \/ obs' = MarkReady(k, epoch)
             \/ obs' = MarkReady(SetUnmanagedProcesses(k, epoch, b), epoch)
      <3>1. PICK m : /\ Take(m)
                     /\ \/ obs' = MarkReady(k, epoch)
                        \/ obs' = MarkReady(SetUnmanagedProcesses(k, epoch, m.busy), epoch)
        BY <1>8, <2>0 DEF FactsReply
      <3>2. m.busy \in SUBSET Resource
        BY <3>1, TakeTypes DEF CoordTypes
      <3>. QED
        BY <3>1, <3>2
    <2>2. epoch \in Nat
      BY CoordinatorAssumption DEF CoordTypes, TypeOK
    <2>3. PICK a : a = SetAgentState(obs, epoch)
      OBVIOUS
    <2>4. a \in Entry /\ Sees(a, w)
      BY <1>0, <2>2, <2>3, StoreSees, EntryTypes
    <2>5. k \in Entry /\ Sees(k, w)
      BY <2>0, <2>2, <2>3, <2>4, StoreSees, EntryTypes
    <2>6. PICK p : p = SetUnmanagedProcesses(k, epoch, b)
      OBVIOUS
    <2>7. p \in Entry /\ Sees(p, w)
      BY <2>2, <2>5, <2>6, StoreSees, ProcessesType
    <2>. QED
      BY <2>1, <2>5, <2>6, <2>7, StoreSees
  <1>9. ~RuntimeReply /\ ~ExpireRuntimeResult
    BY <1>1 DEF RuntimeReply, ExpireRuntimeResult
  <1>10. CASE Environment
    <2>1. obs' = obs \/ \E kind : obs' = Expire(obs, kind)
      BY <1>10 DEF Environment, LinkBreaks, AgentRestarts, ExecutionFails, ObservationExpires,
         UnmanagedProcess, coordVars
    <2>. QED
      BY <1>0, <2>1, StoreSees
  <1>11. ASSUME Server
         PROVE  \/ obs' = obs \/ SessionConnected \/ SessionDisconnected \/ HoldReturns
                \/ ExecutionsReply \/ FactsReply \/ RuntimeReply \/ ExpireRuntimeResult
    BY <1>11 DEF Server, ServerConnect, Heartbeat, ServerEnds, LateReply, HoldReply, HoldFails,
       coordVars
  <1>. QED
    BY <1>2, <1>3, <1>4, <1>5, <1>6, <1>7, <1>8, <1>9, <1>10, <1>11

\* The lists on their way do not miss what is lost.
ListsSee(w) ==
    \A n \in 1..Len(replies) :
        replies[n].cmd.kind = "executions" => replies[n].execs[<<w, 0>>] = "RUNNING"

\* A new one neither.
LEMMA RepliesSee ==
  ASSUME CoordTypes, NEW w \in Workload, Lost(w), ListsSee(w),
         Operator \/ Server \/ Agent \/ Environment
  PROVE  ListsSee(w)'
  <1>0. PICK q \in Seq(Replies) : q = replies
    BY DEF CoordTypes, TypeOK
  <1>1. ASSUME replies' = q \/ replies' = <<>> PROVE ListsSee(w)'
    <2>1. CASE replies' = q
      BY <1>0, <2>1 DEF ListsSee
    <2>2. CASE replies' = <<>>
      BY <2>2 DEF ListsSee
    <2>. QED
      BY <1>1, <2>1, <2>2
  <1>2. ASSUME q # <<>>, replies' = Tail(q) PROVE ListsSee(w)'
    <2>1. /\ Len(q) \in Nat /\ Len(Tail(q)) = Len(q) - 1
          /\ \A n \in 1..Len(q) - 1 : Tail(q)[n] = q[n + 1]
      BY <1>2, SequenceOf
    <2>2. \A n \in 1..Len(Tail(q)) : n + 1 \in 1..Len(q) /\ Tail(q)[n] = q[n + 1]
      BY <2>1
    <2>. QED
      BY <1>0, <1>2, <2>2 DEF ListsSee
  <1>3. ASSUME NEW e, NEW c, NEW outcome, NEW busy, Reply(e, c, outcome, agent.exec, busy)
        PROVE  ListsSee(w)'
    <2>1. PICK m : m = [cmd |-> c, outcome |-> outcome, execs |-> agent.exec, busy |-> busy]
      OBVIOUS
    <2>2. replies' = q \/ replies' = Append(q, m)
      BY <1>0, <1>3, <2>1 DEF Reply
    <2>3. m.execs[<<w, 0>>] = "RUNNING"
      BY <2>1 DEF Lost
    <2>4. CASE replies' = Append(q, m)
      <3>1. /\ Len(q) \in Nat /\ Len(Append(q, m)) = Len(q) + 1
            /\ Append(q, m)[Len(q) + 1] = m
            /\ \A n \in 1..Len(q) : Append(q, m)[n] = q[n]
        OBVIOUS
      <3>2. \A n \in 1..Len(Append(q, m)) : n \in 1..Len(q) \/ n = Len(q) + 1
        BY <3>1
      <3>. QED
        BY <1>0, <2>3, <2>4, <3>1, <3>2 DEF ListsSee
    <2>. QED
      BY <1>1, <2>2, <2>4
  <1>4. CASE Operator \/ Environment
    <2>1. replies' = replies
      BY <1>4 DEF Operator, UpdateDesiredWorkload, RetryWorkload, DeleteDesiredWorkload,
         SetMaintenanceHold, Environment, LinkBreaks, AgentRestarts, ExecutionFails,
         ObservationExpires, UnmanagedProcess, sessionVars
    <2>. QED
      BY <1>0, <1>1, <2>1
  <1>5. CASE Server
    <2>1. \/ replies' = replies \/ replies' = <<>>
          \/ replies # <<>> /\ replies' = Tail(replies)
      BY <1>5 DEF Server, ServerConnect, SessionConnected, Heartbeat, ExecutionsReply, Take,
         ServerEnds, SessionDisconnected, FactsReply, RuntimeReply, ExpireRuntimeResult,
         LateReply, HoldReply, HoldFails, HoldReturns, sessionVars
    <2>. QED
      BY <1>0, <1>1, <1>2, <2>1
  <1>6. CASE Agent
    <2>1. replies' = replies
          \/ \E e, c, outcome, busy : Reply(e, c, outcome, agent.exec, busy)
      BY <1>6 DEF Agent, AgentHello, AgentHold, AgentQuery, AgentStop, AgentPrepare, AgentStart,
         AgentQuit, AgentStartFails, sessionVars
    <2>. QED
      BY <1>0, <1>1, <1>3, <2>1
  <1>. QED
    BY <1>4, <1>5, <1>6

\* Steps of anyone but a worker.
LEMMA OthersKeepLost ==
  ASSUME CoordTypes, OrdersKnown, LostSeen, Operator \/ Server \/ Agent \/ Environment
  PROVE  LostSeen'
  <1>. TypeOK
    BY DEF CoordTypes
  <1>1. barrier' = barrier
    BY DEF Operator, UpdateDesiredWorkload, RetryWorkload, DeleteDesiredWorkload,
       SetMaintenanceHold, Server, ServerConnect, SessionConnected, Heartbeat, ExecutionsReply,
       ServerEnds, SessionDisconnected, FactsReply, RuntimeReply, ExpireRuntimeResult, LateReply,
       HoldReply, HoldFails, HoldReturns, Agent, AgentHello, AgentHold, AgentQuery, AgentStop,
       AgentPrepare, AgentStart, AgentQuit, AgentStartFails, Environment, LinkBreaks,
       AgentRestarts, ExecutionFails, ObservationExpires, UnmanagedProcess, configVars
  <1>2. inFlight' \subseteq inFlight
    BY DEF Operator, UpdateDesiredWorkload, RetryWorkload, DeleteDesiredWorkload,
       SetMaintenanceHold, Server, ServerConnect, SessionConnected, Heartbeat, ExecutionsReply,
       ServerEnds, SessionDisconnected, Disconnected, FactsReply, RuntimeReply,
       ExpireRuntimeResult, RuntimeResult, Without, LateReply,
       HoldReply, HoldFails, HoldReturns, Agent, AgentHello, AgentHold, AgentQuery, AgentStop,
       AgentPrepare, AgentStart, AgentQuit, AgentStartFails, Environment, LinkBreaks,
       AgentRestarts, ExecutionFails, ObservationExpires, UnmanagedProcess, coordVars
  <1>3. ASSUME NEW w \in Workload, agent'.exec[<<w, 0>>] = "RUNNING"
        PROVE  /\ barrier' # "NONE"
               /\ "executions" \in obs'.fresh => obs'.execs[<<w, 0>>] = "RUNNING"
               /\ \A n \in 1..Len(replies') :
                     replies'[n].cmd.kind = "executions" => replies'[n].execs[<<w, 0>>] = "RUNNING"
    <2>1. Lost(w)
      BY <1>3, LostFades
    <2>2. barrier # "NONE" /\ ListsSee(w)
      BY <2>1 DEF LostSeen, ListsSee
    <2>3. Sees(obs', w)
      BY <2>1, EntrySees
    <2>4. ListsSee(w)'
      BY <2>1, <2>2, RepliesSee
    <2>. QED
      BY <1>1, <2>2, <2>3, <2>4 DEF Sees, ListsSee
  <1>4. barrier' # "NONE" => inFlight' = {}
    BY <1>1, <1>2 DEF LostSeen
  <1>. QED
    BY <1>3, <1>4 DEF LostSeen, Lost

\* Steps of a worker that leave the barrier alone.
LEMMA LostUntouched ==
  ASSUME LostSeen, UNCHANGED <<barrier, agent, replies>>,
         barrier # "NONE" => inFlight' \subseteq inFlight,
         \A w \in Workload : Sees(obs, w) => Sees(obs', w)
  PROVE  LostSeen'
  <1>1. ASSUME NEW w \in Workload, Lost(w)
        PROVE  "executions" \in obs'.fresh => obs'.execs[<<w, 0>>] = "RUNNING"
    <2>1. Sees(obs, w)
      BY <1>1 DEF LostSeen, Sees
    <2>. QED
      BY <2>1 DEF Sees
  <1>2. \A w \in Workload : Lost(w)' <=> Lost(w)
    BY DEF Lost
  <1>3. barrier' # "NONE" => inFlight' = {}
    BY DEF LostSeen
  <1>. QED
    BY <1>1, <1>2, <1>3 DEF LostSeen

\* The barrier is lifted only when the list shows nothing of a discarded history.
LEMMA BarrierSees ==
  ASSUME CoordTypes, OrdersKnown, LostSeen, NEW r \in Worker, ApplyRestoreBarrier(r)
  PROVE  LostSeen'
  <1>1. /\ UNCHANGED <<obs, inFlight, replies, agent>>
        /\ "executions" \in obs.fresh /\ barrier # "NONE"
        /\ barrier' = IF BarrierConflict THEN "CONFLICT" ELSE "NONE"
    BY DEF ApplyRestoreBarrier, MayPrepare, Usable, BarrierLifted, coordVars, sessionVars, agentVars
  <1>2. ASSUME NEW w \in Workload, Lost(w) PROVE barrier' # "NONE"
    <2>1. PICK i \in Id : i = <<w, 0>> /\ i[2] = 0
      BY LostName
    <2>2. i \notin snaps
      <3>1. ~(i[2] > 0)
        BY <2>1
      <3>. QED
        BY <3>1 DEF OrdersKnown
    <2>3. obs.execs[i] = "RUNNING"
      BY <1>1, <1>2, <2>1 DEF LostSeen
    <2>4. BarrierConflict
      BY <2>2, <2>3 DEF BarrierConflict, HoldsResources
    <2>. QED
      BY <1>1, <2>4
  <1>3. \A w \in Workload : Lost(w)' <=> Lost(w)
    BY <1>1 DEF Lost
  <1>4. inFlight' = {}
    BY <1>1 DEF LostSeen
  <1>. QED
    BY <1>1, <1>2, <1>3, <1>4 DEF LostSeen

\* Steps of a worker.
LEMMA WorkersKeepLost ==
  ASSUME CoordTypes, OrdersKnown, LostSeen, NEW r \in Worker, Reconcile(r)
  PROVE  LostSeen'
  <1>. TypeOK
    BY DEF CoordTypes
  <1>1. CASE \E invalid \in SUBSET Workload : PrepareDispatch(r, invalid) \/ PrepareBlocks(r, invalid)
    <2>1. /\ UNCHANGED <<barrier, obs, sessionVars, agentVars>> /\ barrier = "NONE"
      BY <1>1 DEF PrepareDispatch, PrepareBlocks, BarrierLifted, coordVars
    <2>. QED
      BY <2>1, LostUntouched DEF sessionVars, agentVars
  <1>2. CASE Recheck(r) \/ SendRuntime(r) \/ SetDispatchSequence(r)
    <2>1. worker[r].pc # "idle"
      BY <1>2 DEF Recheck, SendRuntime, SetDispatchSequence
    <2>2. barrier = "NONE"
      BY <2>1 DEF OrdersKnown
    <2>3. UNCHANGED <<barrier, obs, replies, agent>>
      BY <1>2 DEF Recheck, SendRuntime, SetDispatchSequence, configVars, sessionVars, agentVars
    <2>. QED
      BY <2>2, <2>3, LostUntouched
  <1>3. CASE SendFails(r)
    <2>1. UNCHANGED <<barrier, replies, agent>> /\ Disconnected(worker[r].key.epoch)
      BY <1>3 DEF SendFails, configVars
    <2>2. obs' = Disconnect(obs, worker[r].key.epoch) /\ inFlight' \subseteq inFlight
      BY <2>1 DEF Disconnected
    <2>3. obs \in Entry
      BY DEF TypeOK
    <2>4. \A w \in Workload : Sees(obs, w) => Sees(obs', w)
      BY <2>2, <2>3, StoreSees
    <2>. QED
      BY <2>1, <2>2, <2>4, LostUntouched
  <1>. QED
    BY <1>1, <1>2, <1>3, BarrierSees DEF Reconcile

\* The first state.
LEMMA BarrierInit == Init => OrdersKnown /\ LostSeen
  <1>. SUFFICES ASSUME Init PROVE OrdersKnown /\ LostSeen
    OBVIOUS
  <1>1. \A i \in snaps : i[2] > 0
    <2>1. PICK wanted : snaps = wanted \X {1}
      BY DEF Init
    <2>. QED
      BY <2>1
  <1>2. \A e \in 1..MaxEpoch : inbox[e] = <<>> /\ busyCmd[e] = NoCommand
    BY DEF Init
  <1>3. \A r \in Worker : worker[r].pc = "idle"
    BY DEF Init, IdleWorker
  <1>4. OrdersKnown
    <2>1. pending = {} /\ 1..Len(<<>>) = {}
      BY DEF Init
    <2>. QED
      BY <1>1, <1>2, <1>3, <2>1 DEF OrdersKnown
  <1>5. \A w \in Workload : Lost(w) => barrier # "NONE"
    <2>1. PICK lost \in SUBSET Workload :
             /\ lost # {} => Restored
             /\ agent = [exec |-> [i \in Id |-> IF i[1] \in lost /\ i[2] = 0
                                                THEN "RUNNING" ELSE "NONE"],
                         hold |-> FALSE, rev |-> 0]
      BY DEF Init
    <2>2. ASSUME NEW w \in Workload, Lost(w) PROVE Restored
      <3>1. PICK i \in Id : i = <<w, 0>>
        BY LostName
      <3>2. agent.exec[i] = "RUNNING"
        BY <2>2, <3>1 DEF Lost
      <3>3. i[1] \in lost
        BY <2>1, <3>2
      <3>. QED
        BY <2>1, <3>3
    <2>. QED
      BY <2>2 DEF Init
  <1>6. "executions" \notin obs.fresh /\ inFlight = {} /\ replies = <<>>
    BY DEF Init, NoEntry, NewEntry
  <1>7. 1..Len(replies) = {}
    BY <1>6
  <1>8. LostSeen
    BY <1>5, <1>6, <1>7 DEF LostSeen
  <1>. QED
    BY <1>4, <1>8

\* What makes the barrier quiet is inductive, with no bound on the sessions or the holds.
LEMMA BarrierInvStep ==
  ASSUME CoordTypes, OrdersKnown, LostSeen, [Next]_vars
  PROVE  OrdersKnown' /\ LostSeen'
  <1>1. CASE Operator \/ Server \/ Agent \/ Environment
    BY <1>1, OthersKeepOrders, OthersKeepLost
  <1>2. ASSUME NEW r \in Worker, Reconcile(r) PROVE OrdersKnown' /\ LostSeen'
    BY <1>2, WorkersKeepOrders, WorkersKeepLost
  <1>3. CASE UNCHANGED vars
    <2>1. UNCHANGED <<snaps, worker, barrier, inbox, busyCmd, pending, inFlight, agent, obs, replies>>
      BY <1>3 DEF vars, configVars, coordVars, sessionVars, agentVars
    <2>2. OrdersKnown'
      BY <2>1 DEF OrdersKnown
    <2>3. \A w \in Workload : Lost(w)' <=> Lost(w)
      BY <2>1 DEF Lost
    <2>4. LostSeen'
      BY <2>1, <2>3 DEF LostSeen
    <2>. QED
      BY <2>2, <2>4
  <1>. QED
    BY <1>1, <1>2, <1>3 DEF Next

\* While the restore barrier stands nothing is reserved for the Host or on its way to its
\* Agent, and as long as an execution of the discarded history lives it stands: for any
\* workloads, workers, sessions, holds, faults and observations that get too old.
THEOREM BarrierStaysQuiet == Spec => []BarrierQuiet
  <1>. DEFINE IInv == CoordTypes /\ OrdersKnown /\ LostSeen
  <1>1. Init => IInv
    BY TypesInit, BarrierInit
  <1>2. IInv /\ [Next]_vars => IInv'
    BY TypesStep, BarrierInvStep
  <1>3. IInv => BarrierQuiet
    <2>. SUFFICES ASSUME IInv PROVE BarrierQuiet
      OBVIOUS
    <2>1. \A w \in Workload : agent.exec[<<w, 0>>] = "RUNNING" => barrier # "NONE"
      BY DEF LostSeen, Lost
    <2>2. ASSUME barrier # "NONE", NEW e \in 1..MaxEpoch PROVE Outstanding(e) = {}
      <3>1. \A c \in Range(inbox[e]) : ~IsRuntime(c)
        <4>1. inbox[e] \in Seq(Commands)
          BY DEF CoordTypes, TypeOK
        <4>2. \A n \in 1..Len(inbox[e]) : ~IsRuntime(inbox[e][n])
          BY <2>2 DEF OrdersKnown, Allowed
        <4>. QED
          BY <4>1, <4>2, RangeOf
      <3>2. ~IsRuntime(busyCmd[e])
        <4>1. ~IsRuntime(NoCommand)
          BY DEF IsRuntime, NoCommand, Command
        <4>. QED
          BY <2>2, <4>1 DEF OrdersKnown, Allowed
      <3>. QED
        BY <3>1, <3>2 DEF Outstanding
    <2>3. barrier # "NONE" => inFlight = {}
      BY DEF LostSeen
    <2>. QED
      BY <2>1, <2>2, <2>3 DEF BarrierQuiet
  <1>. QED
    BY <1>1, <1>2, <1>3, PTL DEF Spec
=============================================================================
