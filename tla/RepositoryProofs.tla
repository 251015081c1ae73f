-------------------------- MODULE RepositoryProofs --------------------------
(***************************************************************************)
(* Proofs about SubscriptionRepository, for any set of handlers, rows,     *)
(* accounts, purchases and events, and for any client that calls the       *)
(* primitives in order (RepositorySpec).                                   *)
(***************************************************************************)
EXTENDS SubscriptionRequirements, TLAPS

(* A statement in flight is a statement: its parts have their types. *)
LEMMA StagedType ==
  ASSUME RepositoryTypeOK, NEW h \in Handlers, Staged(h)
  PROVE  /\ write[h] \in Statement
         /\ write[h].op \in {"create", "update", "upsert"}
         /\ write[h].row \in Row
BY DEF RepositoryTypeOK, Staged, Statement

(* A handler's job has its type. *)
LEMMA JobType ==
  ASSUME RepositoryTypeOK, NEW h \in Handlers
  PROVE  /\ job[h] \in Job
         /\ job[h].event \in EventIDs \cup {Nil}
         /\ job[h].ids \in SUBSET RowIDs
BY DEF RepositoryTypeOK, Job

(* A statement of either kind is not the absence of one. *)
LEMMA StatementIsNotNoWrite ==
  ASSUME NEW op \in {"create", "update", "upsert"}, NEW row \in Row
  PROVE  /\ [op |-> op, row |-> row] \in Statement
         /\ [op |-> op, row |-> row] # NoWrite
<1>1. [op |-> op, row |-> row] \in Statement
  BY DEF Statement
<1>2. [op |-> op, row |-> row].op # NoWrite.op
  BY DEF NoWrite
<1> QED
  BY <1>1, <1>2

(* The empty job is a job. *)
LEMMA NoJobType ==
  NoJob \in Job /\ NoJob.event = Nil /\ NoJob.ids = {} /\ NoJob.purchase = Nil
BY DEF NoJob, Job, Kind, Status, NoTime

(* The types hold initially. *)
LEMMA TypeInit == RepositoryInit => RepositoryTypeOK
BY NoJobType, RepositoryAssumption
   DEF RepositoryInit, RepositoryTypeOK, PC

(* Closing a handler keeps the types of what it resets. *)
LEMMA TypeClose ==
  ASSUME RepositoryTypeOK, NEW h \in Handlers, Close(h),
         subs' \subseteq Row, events' \subseteq EventIDs
  PROVE  RepositoryTypeOK'
BY NoJobType DEF RepositoryTypeOK, Close, PC

(* What a commit stores is made of rows. *)
LEMMA PersistType ==
  ASSUME RepositoryTypeOK, NEW h \in Handlers
  PROVE  Persist(write[h]) \subseteq Row
<1>1. CASE write[h] = NoWrite
  BY <1>1 DEF Persist, RepositoryTypeOK
<1>2. CASE write[h] # NoWrite
  <2>1. write[h].row \in Row
    BY <1>2, StagedType DEF Staged
  <2>2. \A r \in subs : [write[h].row EXCEPT !.user = r.user] \in Row
    BY <2>1 DEF RepositoryTypeOK, Row
  <2> QED
    BY <1>2, <2>1, <2>2 DEF Persist, RepositoryTypeOK, WithID
<1> QED
  BY <1>1, <1>2
-----------------------------------------------------------------------------
(* Staging a statement keeps the types. *)
LEMMA TypeStage ==
  ASSUME RepositoryTypeOK, NEW h \in Handlers, NEW row \in Row,
         NEW op \in {"create", "update", "upsert"},
         Stage(h, [op |-> op, row |-> row])
  PROVE  RepositoryTypeOK'
BY StatementIsNotNoWrite DEF RepositoryTypeOK, Stage, PC

(* Type correctness is kept by what the client does. *)
LEMMA TypeClient ==
  ASSUME RepositoryTypeOK, NEW h \in Handlers, ClientStep(h)
  PROVE  RepositoryTypeOK'
<1>1. CASE OpenRequest(h)
  BY <1>1 DEF OpenRequest, Open, RepositoryTypeOK, PC
<1>2. CASE Reply(h)
  BY <1>2 DEF Reply, Answered, RepositoryTypeOK, PC
<1>3. CASE ReplyRecording(h)
  <2>1. events' \subseteq EventIDs
    BY <1>3, JobType DEF ReplyRecording, RecordOnly, RepositoryTypeOK
  <2> QED
    BY <1>3, <2>1, TypeClose DEF ReplyRecording, RepositoryTypeOK
<1>4. CASE StageCreate(h)
  BY <1>4, TypeStage DEF StageCreate
<1>5. CASE StageUpdate(h)
  BY <1>5, TypeStage DEF StageUpdate
<1>6. CASE StageUpsert(h)
  BY <1>6, TypeStage DEF StageUpsert
<1>7. CASE StageNothing(h)
  BY <1>7 DEF StageNothing, RepositoryTypeOK, PC
<1>8. CASE \E user \in Users : OpenDelete(h, user)
  <2>1. PICK user \in Users : OpenDelete(h, user)
    BY <1>8
  <2> DEFINE ids == {r.id : r \in {s \in subs : s.user = user}}
             j == [NoJob EXCEPT !.kind = "delete", !.user = user, !.ids = ids]
  <2>2. ids \in SUBSET RowIDs
    BY DEF RepositoryTypeOK, Row
  <2>3. j \in Job
    BY <2>2, NoJobType DEF Job, Kind
  <2> HIDE DEF j
  <2>4. Open(h, j, "delete")
    BY <2>1 DEF OpenDelete, j
  <2> QED
    BY <2>3, <2>4 DEF Open, RepositoryTypeOK, PC
<1> QED
  BY <1>1, <1>2, <1>3, <1>4, <1>5, <1>6, <1>7, <1>8 DEF ClientStep

(* Type correctness is kept by what the repository does. *)
LEMMA TypeRepository ==
  ASSUME RepositoryTypeOK, NEW h \in Handlers, RepositoryStep(h) \/ Rollback(h)
  PROVE  RepositoryTypeOK'
<1>1. CASE RecordEvent(h)
  BY <1>1 DEF RecordEvent, RepositoryTypeOK, PC
<1>2. CASE SkipDuplicateEvent(h)
  BY <1>2, TypeClose DEF SkipDuplicateEvent, RepositoryTypeOK
<1>3. CASE ExecWrite(h)
  BY <1>3 DEF ExecWrite, RepositoryTypeOK, PC
<1>4. CASE WriteFails(h)
  BY <1>4, TypeClose DEF WriteFails, RepositoryTypeOK
<1>5. CASE Commit(h)
  <2>1. events' \subseteq EventIDs
    BY <1>5, JobType DEF Commit, RepositoryTypeOK
  <2>2. subs' \subseteq Row
    BY <1>5, PersistType DEF Commit
  <2> QED
    BY <1>5, <2>1, <2>2, TypeClose DEF Commit
<1>6. CASE ExecDelete(h)
  <2>1. \A o \in Handlers : [job[o] EXCEPT !.ids = @ \ job[h].ids] \in Job
    BY JobType DEF Job
  <2>2. job' \in [Handlers -> Job]
    BY <1>6, <2>1, NoJobType DEF ExecDelete
  <2> QED
    BY <1>6, <2>2 DEF ExecDelete, RepositoryTypeOK, PC
<1>7. CASE Rollback(h)
  BY <1>7, TypeClose DEF Rollback, RepositoryTypeOK
<1> QED
  BY <1>1, <1>2, <1>3, <1>4, <1>5, <1>6, <1>7 DEF RepositoryStep, GoOn, Conclude

(* Type correctness is kept by every step. *)
LEMMA TypeStep ==
  ASSUME RepositoryTypeOK, [RepositoryNext]_vars
  PROVE  RepositoryTypeOK'
<1>1. CASE RecordAlone
  BY <1>1 DEF RecordAlone, RecordOnly, RepositoryTypeOK
<1>2. CASE Tick
  BY <1>2, RepositoryAssumption DEF Tick, RepositoryTypeOK
<1>3. ASSUME NEW h \in Handlers, ClientStep(h) \/ RepositoryStep(h) \/ Rollback(h)
      PROVE  RepositoryTypeOK'
  BY <1>3, TypeClient, TypeRepository
<1>4. CASE UNCHANGED vars
  BY <1>4 DEF vars, RepositoryTypeOK
<1> QED
  BY <1>1, <1>2, <1>3, <1>4 DEF RepositoryNext
-----------------------------------------------------------------------------
(* What a step of h leaves alone of the other handlers. *)
Frame(h) ==
  \A o \in Handlers \ {h} : /\ pc'[o] = pc[o]
                            /\ write'[o] = write[o]
                            /\ job'[o].event = job[o].event

Step(h) == ClientStep(h) \/ RepositoryStep(h) \/ Rollback(h)

(* A handler that closes disturbs no other. *)
LEMMA FrameClose ==
  ASSUME RepositoryTypeOK, NEW h \in Handlers, Close(h)
  PROVE  Frame(h) /\ pc'[h] = "idle" /\ job'[h] = NoJob /\ write'[h] = NoWrite
BY DEF Close, Frame, RepositoryTypeOK

(* No step of a handler disturbs another one. *)
LEMMA FrameStep ==
  ASSUME RepositoryTypeOK, NEW h \in Handlers, Step(h)
  PROVE  Frame(h)
<1>1. CASE ClientStep(h) \/ RecordEvent(h) \/ ExecWrite(h)
  <2>1. CASE ReplyRecording(h)
    BY <2>1, FrameClose DEF ReplyRecording
  <2>2. CASE StageCreate(h) \/ StageUpdate(h) \/ StageUpsert(h)
    BY <2>2 DEF StageCreate, StageUpdate, StageUpsert, Stage, Frame, RepositoryTypeOK
  <2>3. CASE OpenRequest(h) \/ Reply(h) \/ StageNothing(h)
    BY <2>3 DEF OpenRequest, Reply, StageNothing, Open, Answered, Frame, RepositoryTypeOK
  <2>4. ASSUME NEW user \in Users, OpenDelete(h, user)
        PROVE  Frame(h)
    BY <2>4 DEF OpenDelete, Open, Frame, RepositoryTypeOK
  <2>5. CASE RecordEvent(h) \/ ExecWrite(h)
    BY <2>5 DEF RecordEvent, ExecWrite, Frame, RepositoryTypeOK
  <2> QED
    BY <1>1, <2>1, <2>2, <2>3, <2>4, <2>5 DEF ClientStep
<1>2. CASE SkipDuplicateEvent(h) \/ WriteFails(h) \/ Commit(h) \/ Rollback(h)
  BY <1>2, FrameClose DEF SkipDuplicateEvent, WriteFails, Commit, Rollback
<1>3. CASE ExecDelete(h)
  <2>1. \A o \in Handlers \ {h} : job'[o] = [job[o] EXCEPT !.ids = @ \ job[h].ids]
    BY <1>3 DEF ExecDelete
  <2>2. \A o \in Handlers \ {h} : job'[o].event = job[o].event
    BY <2>1, JobType DEF Job
  <2> QED
    BY <1>3, <2>2 DEF ExecDelete, Frame, RepositoryTypeOK
<1> QED
  BY <1>1, <1>2, <1>3 DEF Step, RepositoryStep, GoOn, Conclude
-----------------------------------------------------------------------------
(* A statement exists from its staging to the end of its transaction. *)
LEMMA PhasesStep ==
  ASSUME RepositoryInvariant, NEW h \in Handlers, Step(h)
  PROVE  PhasesMatch'
<1>1. Frame(h) /\ RepositoryTypeOK /\ PhasesMatch
  BY FrameStep DEF RepositoryInvariant
<1>2. SUFFICES /\ Staged(h)' => pc'[h] \in {"write", "commit"}
               /\ pc'[h] = "write" => Staged(h)'
               /\ pc'[h] = "record" => job'[h].event # Nil
  BY <1>1 DEF PhasesMatch, Frame, Staged
<1>3. CASE Close(h)
  BY <1>3, <1>1, FrameClose DEF Staged
<1>4. CASE OpenRequest(h) \/ Reply(h)
  BY <1>4, <1>1
     DEF OpenRequest, Reply, Open, Answered, EventBefore, PhasesMatch, Staged,
         RepositoryTypeOK
<1>5. CASE StageCreate(h) \/ StageUpdate(h) \/ StageUpsert(h)
  <2>1. PICK op \in {"create", "update", "upsert"}, row \in Row :
          Stage(h, [op |-> op, row |-> row])
    BY <1>5 DEF StageCreate, StageUpdate, StageUpsert
  <2> QED
    BY <1>1, <2>1, StatementIsNotNoWrite DEF Stage, Staged, RepositoryTypeOK
<1>6. CASE StageNothing(h) \/ RecordEvent(h) \/ ExecWrite(h)
  BY <1>6, <1>1
     DEF StageNothing, RecordEvent, ExecWrite, PhasesMatch, Staged, RepositoryTypeOK
<1>7. ASSUME NEW user \in Users, OpenDelete(h, user)
      PROVE  pc'[h] = "delete" /\ write'[h] = write[h] /\ pc[h] = "idle"
  BY <1>7, <1>1 DEF OpenDelete, Open, RepositoryTypeOK
<1>8. CASE ExecDelete(h)
  BY <1>8, <1>1 DEF ExecDelete, PhasesMatch, Staged, RepositoryTypeOK
<1> QED
  BY <1>1, <1>3, <1>4, <1>5, <1>6, <1>7, <1>8
     DEF Step, ClientStep, RepositoryStep, GoOn, Conclude, ReplyRecording,
         SkipDuplicateEvent,
         WriteFails, Commit, Rollback, PhasesMatch, Staged
-----------------------------------------------------------------------------
(* A step that records nothing and gives h no event it did not hold. *)
LEMMA EventQuiet ==
  ASSUME EventHeldOnce, NEW h \in Handlers, Frame(h), events' = events,
         HoldsEvent(h)' => HoldsEvent(h) /\ job'[h].event = job[h].event
  PROVE  EventHeldOnce'
BY DEF EventHeldOnce, Frame, HoldsEvent

(* Recording an event nobody holds. *)
LEMMA EventFreeRecorded ==
  ASSUME EventHeldOnce, NEW e, EventFree(e), NEW h \in Handlers, Frame(h),
         events' \in {events, events \cup {e}}, HoldsEvent(h)' => FALSE
  PROVE  EventHeldOnce'
BY DEF EventHeldOnce, Frame, HoldsEvent, EventFree

(* An event is applied by one transaction at most. *)
LEMMA EventStep ==
  ASSUME RepositoryInvariant, NEW h \in Handlers, Step(h)
  PROVE  EventHeldOnce'
<1>1. Frame(h) /\ RepositoryTypeOK /\ PhasesMatch /\ EventHeldOnce
  BY FrameStep DEF RepositoryInvariant
<1>2. ASSUME Close(h)
      PROVE  ~HoldsEvent(h)'
  BY <1>1, <1>2, FrameClose DEF HoldsEvent
<1>3. CASE OpenRequest(h) \/ Reply(h)
  BY <1>3, <1>1, EventQuiet
     DEF OpenRequest, Reply, Open, Answered, EventBefore, HoldsEvent, RepositoryTypeOK
<1>4. CASE StageCreate(h) \/ StageUpdate(h) \/ StageUpsert(h) \/ StageNothing(h)
           \/ ExecWrite(h)
  BY <1>4, <1>1, EventQuiet
     DEF StageCreate, StageUpdate, StageUpsert, StageNothing, ExecWrite, Stage,
         HoldsEvent, RepositoryTypeOK
<1>5. CASE SkipDuplicateEvent(h) \/ WriteFails(h) \/ Rollback(h)
  BY <1>5, <1>1, <1>2, EventQuiet DEF SkipDuplicateEvent, WriteFails, Rollback
<1>6. CASE ReplyRecording(h)
  BY <1>6, <1>1, <1>2, EventFreeRecorded DEF ReplyRecording, RecordOnly
<1>7. ASSUME NEW user \in Users, OpenDelete(h, user)
      PROVE  EventHeldOnce'
  BY <1>7, <1>1, EventQuiet DEF OpenDelete, Open, HoldsEvent, RepositoryTypeOK
<1>8. CASE ExecDelete(h)
  BY <1>8, <1>1, EventQuiet DEF ExecDelete, HoldsEvent, RepositoryTypeOK
<1>9. CASE RecordEvent(h)
  BY <1>9, <1>1
     DEF RecordEvent, EventHeldOnce, EventFree, HoldsEvent, Frame, RepositoryTypeOK
<1>10. CASE Commit(h)
  <2>1. events' \subseteq events \cup {job[h].event} /\ ~HoldsEvent(h)' /\ Close(h)
    BY <1>10, <1>2 DEF Commit
  <2>2. ASSUME NEW o \in Handlers \ {h}, HoldsEvent(o)
        PROVE  job[o].event \notin events'
    <3>1. CASE job[h].event = Nil
      BY <1>10, <2>2, <3>1, <1>1 DEF Commit, EventHeldOnce
    <3>2. CASE job[h].event # Nil
      <4>1. HoldsEvent(h)
        BY <1>10, <3>2 DEF Commit, HoldsEvent
      <4> QED
        BY <2>1, <2>2, <4>1, <1>1 DEF EventHeldOnce
    <3> QED
      BY <3>1, <3>2
  <2> QED
    BY <2>1, <2>2, <1>1 DEF EventHeldOnce, HoldsEvent, Frame
<1> QED
  BY <1>3, <1>4, <1>5, <1>6, <1>7, <1>8, <1>9, <1>10
     DEF Step, ClientStep, RepositoryStep, GoOn, Conclude
-----------------------------------------------------------------------------
TableInvariant ==
  /\ OneRowPerPurchase
  /\ IDsMeanOnePurchase
  /\ SentStatementsHold

(* A statement's fate depends on the table and on nothing else. *)
LEMMA SucceedsSame ==
  ASSUME NEW o \in Handlers, subs' = subs, write'[o] = write[o], Succeeds(write[o])
  PROVE  Succeeds(write[o])'
<1>1. \A id : WithID(id)' = WithID(id)
  BY DEF WithID
<1>2. \A purchase : Stored(purchase)' = Stored(purchase)
  BY DEF Stored
<1> QED
  BY <1>1, <1>2 DEF Succeeds

(* Sent statements still hold when the table stays and h sends nothing that *)
(* fails or that another one's locks keep off.                              *)
LEMMA SentQuiet ==
  ASSUME SentStatementsHold, NEW h \in Handlers, Frame(h), subs' = subs,
         Locked(h)' => /\ write'[h] = write[h]
                       /\ Succeeds(write[h])
                       /\ \A o \in Handlers \ {h} : Locked(o) =>
                            /\ write[o].row.id # write[h].row.id
                            /\ write[o].row.purchase # write[h].row.purchase
  PROVE  SentStatementsHold'
<1>1. ASSUME NEW o \in Handlers, Locked(o)'
      PROVE  Succeeds(write[o]) /\ write'[o] = write[o]
  BY <1>1 DEF SentStatementsHold, Frame, Locked, Staged
<1>2. ASSUME NEW o \in Handlers, Locked(o)'
      PROVE  Succeeds(write[o])'
  BY <1>1, <1>2, SucceedsSame
<1>3. ASSUME NEW o \in Handlers, NEW k \in Handlers \ {o}, Locked(o)', Locked(k)'
      PROVE  /\ write'[k].row.id # write'[o].row.id
             /\ write'[k].row.purchase # write'[o].row.purchase
  BY <1>1, <1>3 DEF SentStatementsHold, Frame, Locked, Staged
<1> QED
  BY <1>2, <1>3 DEF SentStatementsHold

(* A step that leaves the table alone and stages or sends nothing. *)
LEMMA TableQuiet ==
  ASSUME TableInvariant, NEW h \in Handlers, Frame(h), subs' = subs,
         Staged(h)' => write'[h] = write[h] /\ (Locked(h)' => Locked(h))
  PROVE  TableInvariant'
<1>1. OneRowPerPurchase'
  BY DEF TableInvariant, OneRowPerPurchase
<1>2. IDsMeanOnePurchase'
  BY DEF TableInvariant, IDsMeanOnePurchase, Frame, Staged
<1>3. SentStatementsHold'
  BY SentQuiet DEF TableInvariant, SentStatementsHold, Staged, Locked
<1> QED
  BY <1>1, <1>2, <1>3 DEF TableInvariant

(* A new id is in no row and in no other statement. *)
LEMMA TableCreate ==
  ASSUME RepositoryInvariant, NEW h \in Handlers, StageCreate(h)
  PROVE  TableInvariant'
<1>1. PICK row \in Row : row.id \in FreshIDs /\ Stage(h, [op |-> "create", row |-> row])
  BY DEF StageCreate
<1>2. /\ Frame(h)
      /\ subs' = subs
      /\ write'[h] = [op |-> "create", row |-> row]
      /\ pc'[h] = "write"
  BY <1>1 DEF Stage, RepositoryInvariant, RepositoryTypeOK, Frame
<1>3. /\ \A r \in subs : r.id # row.id
      /\ \A o \in Handlers : Staged(o) => write[o].row.id # row.id
  BY <1>1 DEF FreshIDs, WithID, Staged
<1>4. OneRowPerPurchase'
  BY <1>2 DEF RepositoryInvariant, OneRowPerPurchase
<1>5. IDsMeanOnePurchase'
  BY <1>2, <1>3 DEF RepositoryInvariant, IDsMeanOnePurchase, Frame, Staged
<1>6. SentStatementsHold'
  BY <1>2, SentQuiet DEF RepositoryInvariant, Locked
<1> QED
  BY <1>4, <1>5, <1>6 DEF TableInvariant

(* A row that was read passes its id and purchase to the statement. *)
LEMMA TableOverwrite ==
  ASSUME RepositoryInvariant, NEW h \in Handlers, StageUpdate(h) \/ StageUpsert(h)
  PROVE  TableInvariant'
<1>1. PICK op \in {"update", "upsert"}, row \in Row, r \in subs :
        /\ row.id = r.id /\ row.purchase = r.purchase
        /\ Stage(h, [op |-> op, row |-> row])
  BY DEF StageUpdate, StageUpsert
<1>2. /\ Frame(h)
      /\ subs' = subs
      /\ write'[h] = [op |-> op, row |-> row]
      /\ pc'[h] = "write"
  BY <1>1 DEF Stage, RepositoryInvariant, RepositoryTypeOK, Frame
<1>3. \A s \in subs : s.id = row.id => s = r
  BY <1>1 DEF RepositoryInvariant, OneRowPerPurchase
<1>4. OneRowPerPurchase'
  BY <1>2 DEF RepositoryInvariant, OneRowPerPurchase
<1>5. \A o \in Handlers \ {h} : Staged(o) /\ write[o].row.id = row.id =>
        write[o].row.purchase = row.purchase /\ write[o].op # "create"
  BY <1>1 DEF RepositoryInvariant, IDsMeanOnePurchase
<1>6. IDsMeanOnePurchase'
  BY <1>1, <1>2, <1>3, <1>5 DEF RepositoryInvariant, IDsMeanOnePurchase, Frame, Staged
<1>7. SentStatementsHold'
  BY <1>2, SentQuiet DEF RepositoryInvariant, Locked
<1> QED
  BY <1>4, <1>6, <1>7 DEF TableInvariant

(* A statement is sent only when nothing that is locked is in its way. *)
LEMMA TableExecWrite ==
  ASSUME RepositoryInvariant, NEW h \in Handlers, ExecWrite(h)
  PROVE  TableInvariant'
<1>1. /\ Frame(h)
      /\ subs' = subs
      /\ write' = write
      /\ Staged(h)
      /\ pc'[h] = "commit"
      /\ Succeeds(write[h])
  BY DEF ExecWrite, RepositoryInvariant, RepositoryTypeOK, PhasesMatch, Frame
<1>2. \A o \in Handlers \ {h} : Locked(o) =>
        /\ write[o].row.id # write[h].row.id
        /\ write[o].row.purchase # write[h].row.purchase
  BY DEF ExecWrite, Blocked, Locks, Locked, Staged
<1>3. OneRowPerPurchase'
  BY <1>1 DEF RepositoryInvariant, OneRowPerPurchase
<1>4. IDsMeanOnePurchase'
  BY <1>1 DEF RepositoryInvariant, IDsMeanOnePurchase, Staged
<1>5. SentStatementsHold'
  BY <1>1, <1>2, SentQuiet DEF RepositoryInvariant
<1> QED
  BY <1>3, <1>4, <1>5 DEF TableInvariant

(* A cleanup removes no row that a sent statement has locked. *)
LEMMA TableDelete ==
  ASSUME RepositoryInvariant, NEW h \in Handlers, ExecDelete(h)
  PROVE  TableInvariant'
<1>1. /\ Frame(h)
      /\ pc'[h] = "idle"
      /\ write' = write
      /\ ~Staged(h)
      /\ subs' = {r \in subs : r.id \notin job[h].ids}
  BY FrameStep DEF ExecDelete, RepositoryInvariant, RepositoryTypeOK, PhasesMatch,
                   Step, RepositoryStep, GoOn, Conclude
<1>2. \A o \in Handlers : Locked(o) => write[o].row.id \notin job[h].ids
  BY DEF ExecDelete, Locks, Locked, Staged
<1>3. OneRowPerPurchase'
  BY <1>1 DEF RepositoryInvariant, OneRowPerPurchase
<1>4. IDsMeanOnePurchase'
  BY <1>1 DEF RepositoryInvariant, IDsMeanOnePurchase, Staged
<1>5. ASSUME NEW o \in Handlers, Locked(o)
      PROVE  Succeeds(write[o])'
  <2>1. Succeeds(write[o]) /\ write'[o] = write[o]
    BY <1>1, <1>5 DEF RepositoryInvariant, SentStatementsHold
  <2>2. WithID(write[o].row.id)' = WithID(write[o].row.id)
    BY <1>1, <1>2, <1>5 DEF WithID
  <2>3. Stored(write[o].row.purchase)' \subseteq Stored(write[o].row.purchase)
    BY <1>1 DEF Stored
  <2>4. write[o].op \in {"create", "update", "upsert"}
    BY <1>5, StagedType DEF RepositoryInvariant, Locked
  <2> QED
    BY <2>1, <2>2, <2>3, <2>4 DEF Succeeds, WithID, Stored
<1>6. SentStatementsHold'
  BY <1>1, <1>5 DEF RepositoryInvariant, SentStatementsHold, Frame, Staged, Locked
<1> QED
  BY <1>3, <1>4, <1>6 DEF TableInvariant

(* What a commit puts in the table: one row with the statement's id and      *)
(* purchase, in the place of the row that had the id, if any.                *)
LEMMA CommittedRow ==
  ASSUME RepositoryInvariant, NEW h \in Handlers, Staged(h)
  PROVE  \E user \in Users :
           LET new == [write[h].row EXCEPT !.user = user]
           IN  /\ Persist(write[h]) = (subs \ WithID(write[h].row.id)) \cup {new}
               /\ new.id = write[h].row.id
               /\ new.purchase = write[h].row.purchase
               /\ \A r \in WithID(write[h].row.id) : new.user = r.user
<1> DEFINE row == write[h].row
           old == WithID(row.id)
<1>1. row \in Row /\ subs \subseteq Row
  BY StagedType DEF RepositoryInvariant, RepositoryTypeOK
<1>2. CASE old = {}
  <2>1. row = [row EXCEPT !.user = row.user]
    BY <1>1 DEF Row
  <2>2. Persist(write[h]) = (subs \ old) \cup {row}
    BY <1>2 DEF Persist, Staged
  <2> QED
    BY <1>1, <1>2, <2>1, <2>2 DEF Row
<1>3. CASE old # {}
  <2>1. PICK r \in subs : r \in old
    BY <1>3 DEF WithID
  <2>2. old = {r}
    BY <2>1 DEF RepositoryInvariant, OneRowPerPurchase, WithID
  <2> DEFINE new == [row EXCEPT !.user = r.user]
  <2>3. Persist(write[h]) = (subs \ old) \cup {new}
    BY <1>3, <2>2 DEF Persist, Staged
  <2>4. r.user \in Users /\ new.id = row.id /\ new.purchase = row.purchase
        /\ new.user = r.user
    BY <1>1 DEF Row
  <2> QED
    BY <2>2, <2>3, <2>4
<1> QED
  BY <1>2, <1>3

(* A commit keeps every other statement true to the table. *)
LEMMA TableCommit ==
  ASSUME RepositoryInvariant, NEW h \in Handlers, Commit(h), Staged(h)
  PROVE  TableInvariant'
<1> DEFINE id == write[h].row.id
           purchase == write[h].row.purchase
<1>1. PICK user \in Users :
        LET new == [write[h].row EXCEPT !.user = user]
        IN  /\ Persist(write[h]) = (subs \ WithID(id)) \cup {new}
            /\ new.id = id
            /\ new.purchase = purchase
  BY CommittedRow
<1> DEFINE new == [write[h].row EXCEPT !.user = user]
<1>2. /\ subs' = (subs \ WithID(id)) \cup {new}
      /\ new.id = id
      /\ new.purchase = purchase
  BY <1>1 DEF Commit
<1> HIDE DEF new
<1>3. Frame(h) /\ ~Staged(h)' /\ Locked(h)
  BY FrameClose DEF Commit, RepositoryInvariant, Staged, Locked
<1>4. \A r \in subs : r.id = id => r.purchase = purchase
  BY <1>3 DEF RepositoryInvariant, IDsMeanOnePurchase, Locked
<1>5. \A r \in subs : r.purchase = purchase => r.id = id
  <2>1. Succeeds(write[h]) /\ write[h].op \in {"create", "update", "upsert"}
    BY <1>3, StagedType DEF RepositoryInvariant, SentStatementsHold
  <2>2. WithID(id) # {} \/ Stored(purchase) = {}
    BY <2>1 DEF Succeeds
  <2> QED
    BY <1>4, <2>2 DEF WithID, Stored, RepositoryInvariant, OneRowPerPurchase
<1>6. OneRowPerPurchase'
  BY <1>2, <1>4, <1>5 DEF RepositoryInvariant, OneRowPerPurchase, WithID
<1>7. IDsMeanOnePurchase'
  <2>1. ASSUME NEW o \in Handlers \ {h}, Staged(o), write[o].row.id = id
        PROVE  write[o].row.purchase = purchase /\ write[o].op # "create"
    BY <1>3, <2>1 DEF RepositoryInvariant, IDsMeanOnePurchase, Locked
  <2>2. ASSUME NEW o \in Handlers \ {h}, Staged(o), NEW r \in subs',
               r.id = write[o].row.id
        PROVE  r.purchase = write[o].row.purchase /\ write[o].op # "create"
    BY <1>2, <2>1, <2>2 DEF RepositoryInvariant, IDsMeanOnePurchase, WithID
  <2> QED
    BY <1>3, <2>2 DEF RepositoryInvariant, IDsMeanOnePurchase, Frame, Staged
<1>8. SentStatementsHold'
  <2>1. ASSUME NEW o \in Handlers \ {h}, Locked(o)
        PROVE  /\ write[o].row.id # id
               /\ write[o].row.purchase # purchase
               /\ Succeeds(write[o])
    BY <1>3, <2>1 DEF RepositoryInvariant, SentStatementsHold
  <2>2. ASSUME NEW o \in Handlers \ {h}, Locked(o)
        PROVE  /\ WithID(write[o].row.id)' = WithID(write[o].row.id)
               /\ Stored(write[o].row.purchase)' \subseteq Stored(write[o].row.purchase)
    BY <1>2, <1>3, <2>1, <2>2 DEF WithID, Stored, Frame
  <2>3. ASSUME NEW o \in Handlers \ {h}, Locked(o)
        PROVE  Succeeds(write[o])'
    <3>1. write'[o] = write[o]
      BY <1>3 DEF Frame
    <3>2. o \in Handlers /\ Staged(o)
      BY <2>3 DEF Locked
    <3>3. write[o].op \in {"create", "update", "upsert"}
      BY <1>3, <3>2, StagedType DEF RepositoryInvariant
    <3> QED
      BY <2>1, <2>2, <2>3, <3>1, <3>3 DEF Succeeds
  <2> QED
    BY <1>3, <2>3 DEF RepositoryInvariant, SentStatementsHold, Frame, Locked, Staged
<1> QED
  BY <1>6, <1>7, <1>8 DEF TableInvariant

(* Every step of a handler keeps the table invariant. *)
LEMMA TableStep ==
  ASSUME RepositoryInvariant, NEW h \in Handlers, Step(h)
  PROVE  TableInvariant'
<1>1. Frame(h) /\ RepositoryTypeOK /\ PhasesMatch /\ TableInvariant
  BY FrameStep DEF RepositoryInvariant, TableInvariant
<1>2. ASSUME Close(h), subs' = subs
      PROVE  TableInvariant'
  BY <1>1, <1>2, TableQuiet, FrameClose DEF Staged
<1>3. CASE OpenRequest(h) \/ Reply(h) \/ RecordEvent(h)
  BY <1>1, <1>3, TableQuiet
     DEF OpenRequest, Reply, RecordEvent, Open, Answered, PhasesMatch, Staged, Locked,
         RepositoryTypeOK
<1>4. CASE ReplyRecording(h) \/ SkipDuplicateEvent(h) \/ WriteFails(h) \/ Rollback(h)
  BY <1>2, <1>4 DEF ReplyRecording, SkipDuplicateEvent, WriteFails, Rollback
<1>5. CASE StageNothing(h)
  BY <1>1, <1>5, TableQuiet DEF StageNothing, PhasesMatch, Staged, Locked,
                                RepositoryTypeOK
<1>6. ASSUME NEW user \in Users, OpenDelete(h, user)
      PROVE  TableInvariant'
  BY <1>1, <1>6, TableQuiet DEF OpenDelete, Open, PhasesMatch, Staged, Locked,
                                RepositoryTypeOK
<1>7. CASE Commit(h)
  <2>1. CASE Staged(h)
    BY <1>7, <2>1, TableCommit
  <2>2. CASE ~Staged(h)
    BY <1>2, <1>7, <2>2 DEF Commit, Persist, Staged
  <2> QED
    BY <2>1, <2>2
<1> QED
  BY <1>3, <1>4, <1>5, <1>6, <1>7, TableCreate, TableOverwrite, TableExecWrite,
     TableDelete
     DEF Step, ClientStep, RepositoryStep, GoOn, Conclude
-----------------------------------------------------------------------------
(* The empty tables satisfy the invariant. *)
LEMMA InvariantInit == RepositoryInit => RepositoryInvariant
<1> SUFFICES ASSUME RepositoryInit PROVE RepositoryInvariant
  OBVIOUS
<1>1. RepositoryTypeOK
  BY TypeInit
<1>2. \A h \in Handlers : ~Staged(h) /\ pc[h] = "idle"
  BY DEF RepositoryInit, Staged
<1> QED
  BY <1>1, <1>2
     DEF RepositoryInit, RepositoryInvariant, PhasesMatch, EventHeldOnce, HoldsEvent,
         OneRowPerPurchase, IDsMeanOnePurchase, SentStatementsHold, Locked

(* Every step of the repository and its clients keeps the invariant. *)
LEMMA InvariantStep ==
  RepositoryInvariant /\ [RepositoryNext]_vars => RepositoryInvariant'
<1> SUFFICES ASSUME RepositoryInvariant, [RepositoryNext]_vars
             PROVE  RepositoryInvariant'
  OBVIOUS
<1>1. RepositoryTypeOK'
  BY TypeStep DEF RepositoryInvariant
<1>2. ASSUME NEW h \in Handlers, Step(h)
      PROVE  RepositoryInvariant'
  BY <1>1, <1>2, PhasesStep, EventStep, TableStep
     DEF RepositoryInvariant, TableInvariant
<1>3. CASE UNCHANGED vars \/ Tick \/ RecordAlone
  <2>1. UNCHANGED <<subs, pc, job, write>>
    BY <1>3 DEF vars, Tick, RecordAlone
  <2>2. PhasesMatch'
    BY <2>1 DEF RepositoryInvariant, PhasesMatch, Staged
  <2>3. OneRowPerPurchase'
    BY <2>1 DEF RepositoryInvariant, OneRowPerPurchase
  <2>4. IDsMeanOnePurchase'
    BY <2>1 DEF RepositoryInvariant, IDsMeanOnePurchase, Staged
  <2>5. SentStatementsHold'
    <3>1. ASSUME NEW o \in Handlers, Succeeds(write[o])
          PROVE  Succeeds(write[o])'
      BY <2>1, <3>1, SucceedsSame
    <3> QED
      BY <2>1, <3>1 DEF RepositoryInvariant, SentStatementsHold, Locked, Staged
  <2>6. EventHeldOnce'
    <3>1. CASE UNCHANGED vars \/ Tick
      BY <3>1 DEF vars, Tick, RepositoryInvariant, EventHeldOnce, HoldsEvent
    <3>2. CASE RecordAlone
      BY <3>2 DEF RecordAlone, RecordOnly, EventFree, RepositoryInvariant,
                  EventHeldOnce, HoldsEvent
    <3> QED
      BY <1>3, <3>1, <3>2
  <2> QED
    BY <1>1, <2>2, <2>3, <2>4, <2>5, <2>6 DEF RepositoryInvariant
<1> QED
  BY <1>2, <1>3 DEF RepositoryNext, Step

(* The repository's tables and transactions satisfy the invariant, whatever  *)
(* the clients that call the primitives in order write.                      *)
THEOREM RepositoryCorrect == RepositorySpec => []RepositoryInvariant
BY InvariantInit, InvariantStep, PTL DEF RepositorySpec
-----------------------------------------------------------------------------
(* The rows a step of h can change, and how: a commit replaces the row of    *)
(* its id, a cleanup removes rows, and nothing else touches the table.       *)
LEMMA TableChanges ==
  ASSUME RepositoryInvariant, NEW h \in Handlers, Step(h), subs' # subs
  PROVE  \/ Commit(h) /\ Staged(h)
         \/ ExecDelete(h) /\ subs' \subseteq subs
BY DEF Step, ClientStep, RepositoryStep, GoOn, Conclude, OpenRequest, Reply,
       ReplyRecording, StageCreate,
       StageUpdate, StageUpsert, StageNothing, OpenDelete, Open, Answered, Stage,
       RecordEvent, SkipDuplicateEvent, ExecWrite, WriteFails, Rollback, Commit,
       Persist, Staged, ExecDelete

(* A step keeps the account of every row that stays. *)
LEMMA OwnerStep ==
  ASSUME RepositoryInvariant, [RepositoryNext]_vars,
         NEW r \in subs, NEW s \in subs', r.id = s.id
  PROVE  r.user = s.user
<1>1. CASE s \in subs
  BY <1>1 DEF RepositoryInvariant, OneRowPerPurchase
<1>2. CASE s \notin subs
  <2>1. PICK h \in Handlers : Step(h)
    BY <1>2 DEF RepositoryNext, RecordAlone, Tick, vars, Step
  <2>2. Commit(h) /\ Staged(h)
    BY <1>2, <2>1, TableChanges
  <2>3. PICK user \in Users :
          LET new == [write[h].row EXCEPT !.user = user]
          IN  /\ Persist(write[h]) = (subs \ WithID(write[h].row.id)) \cup {new}
              /\ new.id = write[h].row.id
              /\ \A q \in WithID(write[h].row.id) : new.user = q.user
    BY <2>2, CommittedRow
  <2>4. s = [write[h].row EXCEPT !.user = user]
    BY <1>2, <2>2, <2>3 DEF Commit
  <2>5. r \in WithID(write[h].row.id)
    BY <2>3, <2>4 DEF WithID
  <2> QED
    BY <2>3, <2>4, <2>5
<1> QED
  BY <1>1, <1>2

(* No webhook, verify or restore ever changes the account of a row. *)
THEOREM OwnersFixed == RepositorySpec => OwnerNeverChanges
<1>1. RepositoryInvariant /\ [RepositoryNext]_vars
      => [\A r \in subs, s \in subs' : r.id = s.id => r.user = s.user]_vars
  BY OwnerStep
<1> QED
  BY <1>1, RepositoryCorrect, PTL DEF RepositorySpec, OwnerNeverChanges
-----------------------------------------------------------------------------
(* Only a commit or a rollback ends a handler that is about to commit. *)
LEMMA Closing ==
  ASSUME RepositoryInvariant, [RepositoryNext]_vars, NEW h \in Handlers,
         pc[h] = "commit", pc'[h] = "idle"
  PROVE  Commit(h) \/ Rollback(h)
<1>1. PICK k \in Handlers : Step(k)
  BY DEF RepositoryNext, RecordAlone, Tick, vars, Step
<1>2. k = h
  BY <1>1, FrameStep DEF RepositoryInvariant, Frame
<1> QED
  BY <1>1, <1>2
     DEF Step, ClientStep, RepositoryStep, GoOn, Conclude, OpenRequest, Reply,
         ReplyRecording,
         StageCreate, StageUpdate, StageUpsert, StageNothing, OpenDelete, Open,
         Answered, Stage, RecordEvent, SkipDuplicateEvent, ExecWrite, WriteFails,
         ExecDelete

(* A transaction that changes anything records its event, then for the first *)
(* time: a redelivered notification is neither lost nor applied twice.       *)
THEOREM AppliedOnce == RepositorySpec => AppliedWithItsEvent
<1>1. ASSUME RepositoryInvariant, [RepositoryNext]_vars, NEW h \in Handlers,
             pc[h] = "commit", pc'[h] = "idle", job[h].event # Nil,
             subs' # subs \/ events' # events
      PROVE  events' = events \cup {job[h].event} /\ events' # events
  <2>1. Commit(h)
    BY <1>1, Closing DEF Rollback
  <2>2. HoldsEvent(h)
    BY <1>1 DEF HoldsEvent
  <2>3. job[h].event \notin events
    BY <1>1, <2>2 DEF RepositoryInvariant, EventHeldOnce
  <2> QED
    BY <1>1, <2>1, <2>3 DEF Commit
<1>2. RepositoryInvariant /\ [RepositoryNext]_vars
      => [\A h \in Handlers :
            /\ pc[h] = "commit" /\ pc'[h] = "idle"
            /\ job[h].event # Nil
            /\ subs' # subs \/ events' # events
            => events' = events \cup {job[h].event} /\ events' # events]_vars
  BY <1>1
<1> QED
  BY <1>2, RepositoryCorrect, PTL DEF RepositorySpec, AppliedWithItsEvent

(* An event that a transaction holds becomes visible at its commit only; a   *)
(* rollback, a crash included, leaves none behind.                           *)
THEOREM EventsCommitted == RepositorySpec => RecordedOnlyByCommit
<1> DEFINE Good == /\ events \subseteq events'
                   /\ \A e \in events' \ events :
                        \A h \in Handlers :
                          HoldsEvent(h) /\ job[h].event = e => pc[h] = "commit"
<1>1. ASSUME RepositoryInvariant, [RepositoryNext]_vars
      PROVE  Good
  <2>1. CASE events' = events
    BY <2>1
  <2>2. CASE \E e : EventFree(e) /\ events' \in {events, events \cup {e}}
    BY <2>2 DEF EventFree
  <2>3. ASSUME NEW k \in Handlers, Commit(k)
        PROVE  Good
    <3>1. events' = events \cup ({job[k].event} \ {Nil}) /\ pc[k] = "commit"
      BY <2>3 DEF Commit
    <3>2. job[k].event # Nil => HoldsEvent(k)
      BY <3>1 DEF HoldsEvent
    <3>3. ASSUME NEW h \in Handlers, HoldsEvent(h), job[k].event # Nil,
                 job[h].event = job[k].event
          PROVE  h = k
      BY <1>1, <3>2, <3>3 DEF RepositoryInvariant, EventHeldOnce
    <3> QED
      BY <3>1, <3>3
  <2>4. ASSUME NEW k \in Handlers, Step(k)
        PROVE  \/ events' = events
               \/ \E e : EventFree(e) /\ events' \in {events, events \cup {e}}
               \/ Commit(k)
    BY <2>4 DEF Step, ClientStep, RepositoryStep, GoOn, Conclude, OpenRequest, Reply,
         ReplyRecording,
                RecordOnly, StageCreate, StageUpdate, StageUpsert, StageNothing,
                OpenDelete, Open, Answered, Stage, RecordEvent, SkipDuplicateEvent,
                ExecWrite, WriteFails, Rollback, ExecDelete
  <2> QED
    BY <1>1, <2>1, <2>2, <2>3, <2>4
       DEF RepositoryNext, Step, RecordAlone, RecordOnly, Tick, vars
<1>2. RepositoryInvariant /\ [RepositoryNext]_vars => [Good]_vars
  BY <1>1
<1> QED
  BY <1>2, RepositoryCorrect, PTL DEF RepositorySpec, RecordedOnlyByCommit

(* No UPDATE brings back a row that was deleted while it was on its way. *)
THEOREM NothingRevived == RepositorySpec => UpdateNeverRevives
<1>1. ASSUME RepositoryInvariant, [RepositoryNext]_vars, NEW h \in Handlers,
             pc[h] = "commit", pc'[h] = "idle", Staged(h), write[h].op = "update"
      PROVE  {r.id : r \in subs'} \subseteq {r.id : r \in subs}
  <2>1. CASE Rollback(h)
    BY <2>1 DEF Rollback
  <2>2. CASE Commit(h)
    <3>1. WithID(write[h].row.id) # {}
      BY <1>1 DEF RepositoryInvariant, SentStatementsHold, Locked, Succeeds
    <3>2. PICK user \in Users :
            LET new == [write[h].row EXCEPT !.user = user]
            IN  /\ Persist(write[h]) = (subs \ WithID(write[h].row.id)) \cup {new}
                /\ new.id = write[h].row.id
      BY <1>1, CommittedRow
    <3> QED
      BY <2>2, <3>1, <3>2 DEF Commit, WithID
  <2> QED
    BY <1>1, <2>1, <2>2, Closing
<1>2. RepositoryInvariant /\ [RepositoryNext]_vars
      => [\A h \in Handlers :
            pc[h] = "commit" /\ pc'[h] = "idle" /\ write[h] # NoWrite
            /\ write[h].op = "update" =>
              {r.id : r \in subs'} \subseteq {r.id : r \in subs}]_vars
  BY <1>1 DEF Staged
<1> QED
  BY <1>2, RepositoryCorrect, PTL DEF RepositorySpec, UpdateNeverRevives
=============================================================================
