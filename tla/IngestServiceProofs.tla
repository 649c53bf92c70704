------------------------ MODULE IngestServiceProofs -------------------------
(***************************************************************************)
(* Proofs about the ingestion service, for any number of callers, any      *)
(* retention windows, checkpoint frequency and retries, and however many   *)
(* failures, crashes and restarts.                                         *)
(***************************************************************************)
EXTENDS IngestService, Integers, TLAPS

NatInterval == [first : Nat, last : Nat]

CallType == [pc : {"idle", "soroban", "classic", "done"}, latest : Nat, soroban : Nat,
             classic : Nat]

TypeInv ==
    /\ tip \in Nat /\ archive \in Nat
    /\ db \in NatInterval /\ classic \in NatInterval /\ soroban \in NatInterval
    /\ pc \in {"run", "prepare", "fetch", "begin", "insert", "fees", "soroban", "commit",
               "checkpoint", "failed", "backoff", "exited", "fatal"}
    /\ next \in Nat
    /\ retries \in Nat
    /\ stats \in [Callers -> CallType]
    /\ loadTestEnd \in Nat
    /\ faults \in Nat

\* The steps between getNextLedgerSequence and the commit.
InFlight == {"prepare", "fetch", "begin", "insert", "fees", "soroban", "commit"}

\* The ledger in flight is the one after the database, or a checkpoint when
\* the database is empty.
NextInv ==
    /\ archive % CheckpointFrequency = 0
    /\ pc \in InFlight =>
          /\ next # 0
          /\ db.last # 0 => next = db.last + 1
          /\ db.last = 0 => next % CheckpointFrequency = 0
    /\ pc = "checkpoint" => next = db.last /\ db.last # 0

\* The steps in which one ledger is in the fee windows, or in one of them, but
\* not in the database.
Appending == {"soroban", "commit"}

WindowInv ==
    /\ WindowsTrackDatabase
    /\ pc = "soroban" => /\ classic.last = next
                         /\ soroban.last # 0 => next = soroban.last + 1
    /\ pc = "commit" => classic.last = next /\ soroban.last = next

CallInv(c) ==
    /\ stats[c].pc = "soroban" => stats[c].latest <= db.last
    /\ stats[c].pc = "classic" /\ stats[c].soroban # 0 =>
           stats[c].latest <= stats[c].soroban /\ stats[c].soroban <= soroban.last
    /\ stats[c].pc = "done" /\ stats[c].soroban # 0 =>
           stats[c].latest <= stats[c].soroban /\ stats[c].soroban <= stats[c].classic

\* Without a failure the windows are never ahead, except between a cancelled
\* commit and the end of the process, and run() fails only for want of a
\* checkpoint or of ledgers.
FaultlessInv ==
    faults = 0 =>
        /\ pc # "fatal"
        /\ pc = "failed" => closing \/ err \in {"emptyArchives", "loadTestDone"}
        /\ \/ pc \in Appending
           \/ classic.last \in {0, db.last}
           \/ closing /\ pc \in {"failed", "exited"}

\* The ledgers that the fee windows can have: those stored since they were empty.
Fresh == After(db, unseen)

CompleteInv ==
    /\ db.last = 0 => db = NoLedgers
    /\ db.last # 0 => db.first \in 1..db.last
    /\ unseen \in Nat /\ unseen <= db.last
    /\ pc \notin Appending =>
          /\ classic.last = 0 =>
                Fresh = NoLedgers /\ classic = NoLedgers /\ soroban = NoLedgers
          /\ db.last = 0 => classic.last % CheckpointFrequency = 0
          /\ classic.last = db.last => /\ classic = NewestOf(Fresh, ClassicRetention)
                                       /\ soroban = NewestOf(Fresh, SorobanRetention)
    /\ pc = "soroban" =>
          /\ classic = Push(NewestOf(Fresh, ClassicRetention), next, ClassicRetention)
          /\ soroban = NewestOf(Fresh, SorobanRetention)
    /\ pc = "commit" =>
          /\ classic = Push(NewestOf(Fresh, ClassicRetention), next, ClassicRetention)
          /\ soroban = Push(NewestOf(Fresh, SorobanRetention), next, SorobanRetention)

IndInv ==
    /\ TypeInv /\ NextInv /\ WindowInv /\ FaultlessInv
    /\ \A c \in Callers : CallInv(c)
    /\ CompleteInv

-----------------------------------------------------------------------------
(***************************************************************************)
(* Intervals and checkpoints.                                              *)
(***************************************************************************)
LEMMA PushType ==
    ASSUME NEW i \in NatInterval, NEW s \in Nat, NEW n \in Nat
    PROVE  Push(i, s, n) \in NatInterval /\ Push(i, s, n).last = s
  BY DEF Push, NatInterval

LEMMA NewestType ==
    ASSUME NEW i \in NatInterval, NEW n \in Nat
    PROVE  NewestOf(i, n) \in NatInterval /\ NewestOf(i, n).last = i.last
  BY DEF Push, NewestOf, NatInterval, NoLedgers

\* The ledgers after one of an interval are an interval.
LEMMA AfterType ==
    ASSUME NEW i \in NatInterval, NEW u \in Nat
    PROVE  /\ After(i, u) \in NatInterval
           /\ i.last > u => After(i, u).last = i.last
           /\ i.last <= u => After(i, u) = NoLedgers
  BY DEF After, NatInterval, NoLedgers

\* What a process that starts feeds to a fee window are the newest ledgers after
\* those that it leaves out.
LEMMA LoadedType ==
    ASSUME NEW i \in NatInterval, NEW n \in Nat, NEW m \in Nat, NEW backfill \in BOOLEAN
    PROVE  /\ LoadedWindow(i, n, backfill) \in NatInterval
           /\ LoadedWindow(i, n, backfill).last \in {0, i.last}
           /\ LoadedWindow(i, n, backfill).last = LoadedWindow(i, m, backfill).last
           /\ NotLoaded(i, backfill) \in 0..i.last
           /\ i = NoLedgers \/ i.first \in 1..i.last =>
                 LoadedWindow(i, n, backfill) = NewestOf(After(i, NotLoaded(i, backfill)), n)
  <1>1. CASE backfill \/ loadTestEnd # 0
    <2>1. /\ LoadedWindow(i, n, backfill) = NoLedgers /\ NotLoaded(i, backfill) = i.last
          /\ LoadedWindow(i, m, backfill) = NoLedgers
      BY <1>1 DEF LoadedWindow, NotLoaded
    <2>2. After(i, i.last) = NoLedgers /\ NewestOf(NoLedgers, n) = NoLedgers
      BY DEF After, NewestOf, NatInterval, NoLedgers
    <2>3. NoLedgers \in NatInterval /\ NoLedgers.last = 0 /\ i.last \in 0..i.last
      BY DEF NoLedgers, NatInterval
    <2>4. QED
      BY <1>1, <2>1, <2>2, <2>3
  <1>2. CASE ~(backfill \/ loadTestEnd # 0)
    <2>1. /\ LoadedWindow(i, n, backfill) = NewestOf(i, n) /\ NotLoaded(i, backfill) = 0
          /\ LoadedWindow(i, m, backfill) = NewestOf(i, m)
      BY <1>2 DEF LoadedWindow, NotLoaded
    <2>2. /\ i = NoLedgers \/ i.first \in 1..i.last => After(i, 0) = i
          /\ 0 \in 0..i.last
      BY DEF After, NatInterval, NoLedgers
    <2>3. QED
      BY <1>2, <2>1, <2>2, NewestType
  <1>3. QED
    BY <1>1, <1>2

\* Feeding a ledger to the newest n of an interval gives the newest n of the
\* interval that has moved on to that ledger: a fee window that holds the end
\* of the database still does after both took the same ledger.
LEMMA NewestOfPush ==
    ASSUME NEW i \in NatInterval, NEW s \in Nat \ {0}, NEW h \in Nat, NEW n \in 1..h,
           \/ i = NoLedgers
           \/ i.first \in 1..i.last /\ s = i.last + 1
    PROVE  Push(NewestOf(i, n), s, n) = NewestOf(Push(i, s, h), n)
  <1>1. CASE i = NoLedgers
    BY <1>1 DEF Push, NewestOf, NoLedgers, NatInterval
  <1>2. CASE i.first \in 1..i.last /\ s = i.last + 1
    BY <1>2 DEF Push, NewestOf, NoLedgers, NatInterval
  <1>3. QED
    BY <1>1, <1>2

\* The same when the fee window holds only ledgers after u.
LEMMA NewestAfterPush ==
    ASSUME NEW i \in NatInterval, NEW s \in Nat \ {0}, NEW h \in Nat, NEW n \in 1..h,
           NEW u \in 0..i.last,
           \/ i = NoLedgers
           \/ i.first \in 1..i.last /\ s = i.last + 1
    PROVE  Push(NewestOf(After(i, u), n), s, n) = NewestOf(After(Push(i, s, h), u), n)
  <1>1. /\ After(i, u) \in NatInterval
        /\ \/ After(i, u) = NoLedgers
           \/ After(i, u).first \in 1..After(i, u).last /\ s = After(i, u).last + 1
    BY DEF After, NatInterval, NoLedgers
  <1>2. After(Push(i, s, h), u) = Push(After(i, u), s, h)
    <2>1. CASE i = NoLedgers
      BY <2>1 DEF After, Push, NatInterval, NoLedgers
    <2>2. CASE i.first \in 1..i.last /\ s = i.last + 1
      BY <2>2 DEF After, Push, NatInterval, NoLedgers
    <2>3. QED
      BY <2>1, <2>2
  <1>3. QED
    BY <1>1, <1>2, NewestOfPush

\* Two checkpoints are never neighbours.
LEMMA CheckpointsApart ==
    ASSUME NEW a \in Nat, NEW b \in Nat,
           a % CheckpointFrequency = 0, b % CheckpointFrequency = 0
    PROVE  b # a + 1
  <1> DEFINE n == CheckpointFrequency
  <1>1. n \in Nat /\ n > 1
    BY BoundAssumption
  <1>2. a = n * (a \div n) /\ b = n * (b \div n) /\ a \div n \in Nat /\ b \div n \in Nat
    BY <1>1
  <1>3. SUFFICES ASSUME b = a + 1 PROVE FALSE
    OBVIOUS
  <1>4. PICK d \in Int : d = (b \div n) - (a \div n)
    BY <1>2
  <1>5. n * d = 1
    BY <1>1, <1>2, <1>3, <1>4
  <1>6. QED
    BY <1>1, <1>5
-----------------------------------------------------------------------------
(***************************************************************************)
(* Every step keeps the invariant, part by part.                           *)
(***************************************************************************)
LEMMA Retentions == /\ HistoryRetentionWindow \in Nat \ {0}
                    /\ ClassicRetention \in 1..HistoryRetentionWindow
                    /\ SorobanRetention \in 1..HistoryRetentionWindow
  BY RetentionAssumption

\* A process that starts has empty fee windows or windows that end with the
\* database, and no call in progress.
LEMMA Reloaded ==
    ASSUME TypeInv, Crash \/ Restart
    PROVE  /\ classic' \in NatInterval /\ soroban' \in NatInterval
           /\ classic'.last \in {0, db.last} /\ soroban'.last = classic'.last
           /\ db = NoLedgers \/ db.first \in 1..db.last =>
                 /\ classic' = NewestOf(After(db, unseen'), ClassicRetention)
                 /\ soroban' = NewestOf(After(db, unseen'), SorobanRetention)
           /\ unseen' \in 0..db.last
           /\ stats' = [c \in Callers |-> IdleCall] /\ stats' \in [Callers -> CallType]
           /\ faults' \in Nat /\ (faults' = 0 => faults = 0)
  <1>1. PICK backfill \in Backfills :
           /\ classic' = LoadedWindow(db, ClassicRetention, backfill)
           /\ soroban' = LoadedWindow(db, SorobanRetention, backfill)
           /\ unseen' = NotLoaded(db, backfill)
    BY DEF Crash, Restart, StartAgain
  <1>2. /\ db \in NatInterval /\ ClassicRetention \in Nat /\ SorobanRetention \in Nat
        /\ backfill \in BOOLEAN
    BY Retentions, BoundAssumption DEF TypeInv
  <1>3. stats' = [c \in Callers |-> IdleCall] /\ stats' \in [Callers -> CallType]
    BY DEF Crash, Restart, StartAgain, IdleCall, CallType
  <1>4. faults' \in Nat /\ (faults' = 0 => faults = 0)
    BY DEF TypeInv, Crash, Restart
  <1>5. QED
    BY <1>1, <1>2, <1>3, <1>4, LoadedType

LEMMA TypeStep ==
    ASSUME TypeInv, [Next]_vars
    PROVE  TypeInv'
  <1>0. loadTestEnd' = loadTestEnd
    BY DEF Next, vars
  <1>1. CASE PrepareRange \/ GetLedger \/ NewTx \/ InsertLedgerCloseMeta \/ TimerFires \/
      CancelledInBackOff
    BY <1>0, <1>1 DEF TypeInv, NatInterval, PrepareRange, GetLedger, NewTx,
        InsertLedgerCloseMeta, TimerFires, CancelledInBackOff, Goto, windows
  <1>2. CASE EmptyArchives \/ Cancelled \/ LoadTestDone \/ RejectFees \/ Fault
    BY <1>0, <1>2 DEF TypeInv, NatInterval, EmptyArchives, Cancelled, LoadTestDone,
        RejectFees, Fault, Fallible, FailWith, windows
  <1>3. CASE StopRetrying \/ GiveUp \/ BackOff
    BY <1>0, <1>3 DEF TypeInv, NatInterval, StopRetrying, GiveUp, BackOff, RetriesUsed,
        windows
  <1>4. CASE ContinueAfterLatest
    BY <1>0, <1>4 DEF TypeInv, NatInterval, ContinueAfterLatest, NextAfterLatest, Goto,
        windows
  <1>5. CASE StartAtArchive
    BY <1>0, <1>5 DEF TypeInv, NatInterval, StartAtArchive, Goto, windows
  <1>6. CASE PostCommit
    BY <1>0, <1>6 DEF TypeInv, NatInterval, PostCommit, Goto, windows
  <1>7. CASE AppendClassicFees
    <2>1. classic' \in NatInterval /\ classic'.last = next
      BY <1>7, PushType, Retentions DEF TypeInv, AppendClassicFees
    <2>2. QED
      BY <1>0, <1>7, <2>1 DEF TypeInv, NatInterval, AppendClassicFees, Accepts, Goto
  <1>8. CASE AppendSorobanFees
    <2>1. soroban' \in NatInterval /\ soroban'.last = next
      BY <1>8, PushType, Retentions DEF TypeInv, AppendSorobanFees
    <2>2. QED
      BY <1>0, <1>8, <2>1 DEF TypeInv, NatInterval, AppendSorobanFees, Accepts, Goto
  <1>9. CASE Commit
    <2>1. db' \in NatInterval /\ db'.last = next
      BY <1>9, PushType, Retentions DEF TypeInv, Commit
    <2>2. QED
      BY <1>0, <1>9, <2>1 DEF TypeInv, NatInterval, Commit, windows
  <1>10. CASE Crash \/ Restart
    <2>1. /\ pc' = "run" /\ next' = 0 /\ retries' = 0
          /\ UNCHANGED <<tip, archive, db>>
      BY <1>10 DEF Crash, Restart, StartAgain
    <2>2. QED
      BY <1>0, <1>10, <2>1, Reloaded DEF TypeInv
  <1>11. CASE Close \/ CloseLedger
    BY <1>0, <1>11 DEF TypeInv, NatInterval, Close, CloseLedger, windows
  <1>12. CASE PublishCheckpoint
    BY <1>0, <1>12 DEF TypeInv, NatInterval, PublishCheckpoint, Checkpoints, windows
  <1>13. CASE \E c \in Callers : GetFeeStats(c)
    <2>1. PICK c \in Callers : GetFeeStats(c)
      BY <1>13
    <2>2. stats[c] \in CallType /\ db.last \in Nat /\ classic.last \in Nat /\ soroban.last \in Nat
      BY DEF TypeInv, NatInterval
    <2> DEFINE inRange == [IdleCall EXCEPT !.pc = "soroban", !.latest = db.last]
               inSoroban == [stats[c] EXCEPT !.pc = "classic", !.soroban = soroban.last]
               inClassic == [stats[c] EXCEPT !.pc = "done", !.classic = classic.last]
    <2>3. IdleCall \in CallType /\ inRange \in CallType /\ inSoroban \in CallType /\ inClassic \in CallType
      BY <2>2 DEF IdleCall, CallType
    <2>4. \E call \in CallType : SetCall(c, call)
      BY <2>1, <2>3
         DEF GetFeeStats, ReadLedgerRange, ReadSorobanFees, ReadClassicFees, Respond
    <2>5. QED
      BY <1>0, <2>4 DEF TypeInv, SetCall, windows
  <1>14. CASE UNCHANGED vars
    BY <1>14 DEF TypeInv, NatInterval, vars
  <1>15. QED
    BY <1>1, <1>2, <1>3, <1>4, <1>5, <1>6, <1>7, <1>8, <1>9, <1>10, <1>11, <1>12, <1>13,
        <1>14 DEF Next, ServiceStep

LEMMA NextStep ==
    ASSUME TypeInv, NextInv, [Next]_vars
    PROVE  NextInv'
  <1>0. loadTestEnd' = loadTestEnd
    BY DEF Next, vars
  <1>1. CASE PrepareRange \/ GetLedger \/ NewTx \/ InsertLedgerCloseMeta \/ TimerFires \/
      CancelledInBackOff
    BY <1>0, <1>1 DEF TypeInv, NextInv, InFlight, NatInterval, PrepareRange, GetLedger,
        NewTx, InsertLedgerCloseMeta, TimerFires, CancelledInBackOff, Goto, windows
  <1>2. CASE EmptyArchives \/ Cancelled \/ LoadTestDone \/ RejectFees \/ Fault
    BY <1>0, <1>2 DEF TypeInv, NextInv, InFlight, NatInterval, EmptyArchives, Cancelled,
        LoadTestDone, RejectFees, Fault, Fallible, FailWith, windows
  <1>3. CASE StopRetrying \/ GiveUp \/ BackOff
    BY <1>0, <1>3 DEF TypeInv, NextInv, InFlight, NatInterval, StopRetrying, GiveUp,
        BackOff, RetriesUsed, windows
  <1>4. CASE ContinueAfterLatest
    BY <1>0, <1>4 DEF TypeInv, NextInv, InFlight, NatInterval, ContinueAfterLatest,
        NextAfterLatest, Goto, windows
  <1>5. CASE StartAtArchive
    BY <1>0, <1>5 DEF TypeInv, NextInv, InFlight, NatInterval, StartAtArchive, Goto,
        windows
  <1>6. CASE PostCommit
    BY <1>0, <1>6 DEF TypeInv, NextInv, InFlight, NatInterval, PostCommit, Goto, windows
  <1>7. CASE AppendClassicFees
    BY <1>0, <1>7 DEF TypeInv, NextInv, InFlight, NatInterval, AppendClassicFees, Accepts,
        Goto
  <1>8. CASE AppendSorobanFees
    BY <1>0, <1>8 DEF TypeInv, NextInv, InFlight, NatInterval, AppendSorobanFees, Accepts,
        Goto
  <1>9. CASE Commit
    <2>1. db' \in NatInterval /\ db'.last = next
      BY <1>9, PushType, Retentions DEF TypeInv, Commit
    <2>2. QED
      BY <1>0, <1>9, <2>1 DEF TypeInv, NextInv, InFlight, NatInterval, Commit, windows
  <1>10. CASE Crash \/ Restart
    BY <1>0, <1>10 DEF TypeInv, NextInv, InFlight, NatInterval, Crash, Restart, StartAgain
  <1>11. CASE Close \/ CloseLedger
    BY <1>0, <1>11 DEF TypeInv, NextInv, InFlight, NatInterval, Close, CloseLedger,
        windows
  <1>12. CASE PublishCheckpoint
    BY <1>0, <1>12 DEF TypeInv, NextInv, InFlight, NatInterval, PublishCheckpoint,
        Checkpoints, windows
  <1>13. CASE \E c \in Callers : GetFeeStats(c)
    BY <1>0, <1>13 DEF TypeInv, NextInv, InFlight, NatInterval, GetFeeStats,
        ReadLedgerRange, ReadSorobanFees, ReadClassicFees, Respond, SetCall, IdleCall,
        windows
  <1>14. CASE UNCHANGED vars
    BY <1>14 DEF TypeInv, NextInv, InFlight, NatInterval, vars
  <1>15. QED
    BY <1>1, <1>2, <1>3, <1>4, <1>5, <1>6, <1>7, <1>8, <1>9, <1>10, <1>11, <1>12, <1>13,
        <1>14 DEF Next, ServiceStep

LEMMA WindowStep ==
    ASSUME TypeInv, NextInv, WindowInv, [Next]_vars
    PROVE  WindowInv'
  <1>0. loadTestEnd' = loadTestEnd
    BY DEF Next, vars
  <1>1. CASE PrepareRange \/ GetLedger \/ NewTx \/ InsertLedgerCloseMeta \/ TimerFires \/
      CancelledInBackOff
    BY <1>0, <1>1 DEF TypeInv, NextInv, InFlight, WindowInv, WindowsTrackDatabase,
        NatInterval, PrepareRange, GetLedger, NewTx, InsertLedgerCloseMeta, TimerFires,
        CancelledInBackOff, Goto, windows
  <1>2. CASE EmptyArchives \/ Cancelled \/ LoadTestDone \/ RejectFees \/ Fault
    <2>1. CASE EmptyArchives
      BY <1>0, <2>1
         DEF TypeInv, NextInv, InFlight, WindowInv, WindowsTrackDatabase, NatInterval,
             EmptyArchives, FailWith, windows
    <2>2. CASE Cancelled
      BY <1>0, <2>2
         DEF TypeInv, NextInv, InFlight, WindowInv, WindowsTrackDatabase, NatInterval,
             Cancelled, FailWith, windows
    <2>3. CASE LoadTestDone
      BY <1>0, <2>3
         DEF TypeInv, NextInv, InFlight, WindowInv, WindowsTrackDatabase, NatInterval,
             LoadTestDone, FailWith, windows
    <2>4. CASE RejectFees
      BY <1>0, <2>4
         DEF TypeInv, NextInv, InFlight, WindowInv, WindowsTrackDatabase, NatInterval,
             RejectFees, Accepts, FailWith, windows
    <2>5. CASE Fault
      BY <1>0, <2>5
         DEF TypeInv, NextInv, InFlight, WindowInv, WindowsTrackDatabase, NatInterval,
             Fault, Fallible, FailWith, windows
    <2>6. QED
      BY <1>2, <2>1, <2>2, <2>3, <2>4, <2>5
  <1>3. CASE StopRetrying \/ GiveUp \/ BackOff
    BY <1>0, <1>3 DEF TypeInv, NextInv, InFlight, WindowInv, WindowsTrackDatabase,
        NatInterval, StopRetrying, GiveUp, BackOff, RetriesUsed, windows
  <1>4. CASE ContinueAfterLatest
    BY <1>0, <1>4 DEF TypeInv, NextInv, InFlight, WindowInv, WindowsTrackDatabase,
        NatInterval, ContinueAfterLatest, NextAfterLatest, Goto, windows
  <1>5. CASE StartAtArchive
    BY <1>0, <1>5 DEF TypeInv, NextInv, InFlight, WindowInv, WindowsTrackDatabase,
        NatInterval, StartAtArchive, Goto, windows
  <1>6. CASE PostCommit
    BY <1>0, <1>6 DEF TypeInv, NextInv, InFlight, WindowInv, WindowsTrackDatabase,
        NatInterval, PostCommit, Goto, windows
  <1>7. CASE AppendClassicFees
    <2>1. classic' \in NatInterval /\ classic'.last = next
      BY <1>7, PushType, Retentions DEF TypeInv, AppendClassicFees
    <2>2. QED
      BY <1>0, <1>7, <2>1
         DEF TypeInv, NextInv, InFlight, WindowInv, WindowsTrackDatabase, NatInterval,
             AppendClassicFees, Accepts, Goto
  <1>8. CASE AppendSorobanFees
    <2>1. soroban' \in NatInterval /\ soroban'.last = next
      BY <1>8, PushType, Retentions DEF TypeInv, AppendSorobanFees
    <2>2. QED
      BY <1>0, <1>8, <2>1
         DEF TypeInv, NextInv, InFlight, WindowInv, WindowsTrackDatabase, NatInterval,
             AppendSorobanFees, Accepts, Goto
  <1>9. CASE Commit
    <2>1. db' \in NatInterval /\ db'.last = next
      BY <1>9, PushType, Retentions DEF TypeInv, Commit
    <2>2. QED
      BY <1>0, <1>9, <2>1
         DEF TypeInv, NextInv, InFlight, WindowInv, WindowsTrackDatabase, NatInterval,
             Commit, windows
  <1>10. CASE Crash \/ Restart
    BY <1>0, <1>10, Reloaded
       DEF TypeInv, NextInv, InFlight, WindowInv, WindowsTrackDatabase, Crash, Restart,
           StartAgain
  <1>11. CASE Close \/ CloseLedger
    BY <1>0, <1>11 DEF TypeInv, NextInv, InFlight, WindowInv, WindowsTrackDatabase,
        NatInterval, Close, CloseLedger, windows
  <1>12. CASE PublishCheckpoint
    BY <1>0, <1>12 DEF TypeInv, NextInv, InFlight, WindowInv, WindowsTrackDatabase,
        NatInterval, PublishCheckpoint, Checkpoints, windows
  <1>13. CASE \E c \in Callers : GetFeeStats(c)
    BY <1>0, <1>13 DEF TypeInv, NextInv, InFlight, WindowInv, WindowsTrackDatabase,
        NatInterval, GetFeeStats, ReadLedgerRange, ReadSorobanFees, ReadClassicFees,
        Respond, SetCall, IdleCall, windows
  <1>14. CASE UNCHANGED vars
    BY <1>14 DEF TypeInv, NextInv, InFlight, WindowInv, WindowsTrackDatabase, NatInterval,
        vars
  <1>15. QED
    BY <1>1, <1>2, <1>3, <1>4, <1>5, <1>6, <1>7, <1>8, <1>9, <1>10, <1>11, <1>12, <1>13,
        <1>14 DEF Next, ServiceStep

LEMMA FaultlessStep ==
    ASSUME TypeInv, NextInv, WindowInv, FaultlessInv, [Next]_vars
    PROVE  FaultlessInv'
  <1>0. loadTestEnd' = loadTestEnd
    BY DEF Next, vars
  <1>1. CASE PrepareRange \/ GetLedger \/ NewTx \/ InsertLedgerCloseMeta \/ TimerFires \/
      CancelledInBackOff
    BY <1>0, <1>1 DEF TypeInv, NextInv, InFlight, WindowInv, WindowsTrackDatabase,
        FaultlessInv, Appending, NatInterval, PrepareRange, GetLedger, NewTx,
        InsertLedgerCloseMeta, TimerFires, CancelledInBackOff, Goto, windows
  <1>2. CASE EmptyArchives \/ Cancelled \/ LoadTestDone \/ RejectFees \/ Fault
    <2>1. CASE EmptyArchives
      BY <1>0, <2>1
         DEF TypeInv, NextInv, InFlight, WindowInv, WindowsTrackDatabase, FaultlessInv,
             Appending, NatInterval, EmptyArchives, FailWith, windows
    <2>2. CASE Cancelled
      BY <1>0, <2>2
         DEF TypeInv, NextInv, InFlight, WindowInv, WindowsTrackDatabase, FaultlessInv,
             Appending, NatInterval, Cancelled, FailWith, windows
    <2>3. CASE LoadTestDone
      BY <1>0, <2>3
         DEF TypeInv, NextInv, InFlight, WindowInv, WindowsTrackDatabase, FaultlessInv,
             Appending, NatInterval, LoadTestDone, FailWith, windows
    <2>4. CASE RejectFees
      BY <1>0, <2>4
         DEF TypeInv, NextInv, InFlight, WindowInv, WindowsTrackDatabase, FaultlessInv,
             Appending, NatInterval, RejectFees, Accepts, FailWith, windows
    <2>5. CASE Fault
      BY <1>0, <2>5
         DEF TypeInv, NextInv, InFlight, WindowInv, WindowsTrackDatabase, FaultlessInv,
             Appending, NatInterval, Fault, Fallible, FailWith, windows
    <2>6. QED
      BY <1>2, <2>1, <2>2, <2>3, <2>4, <2>5
  <1>3. CASE StopRetrying \/ GiveUp \/ BackOff
    BY <1>0, <1>3, BoundAssumption
       DEF TypeInv, FaultlessInv, Appending, StopRetrying, GiveUp, BackOff, RetriesUsed,
           Permanent, windows
  <1>4. CASE ContinueAfterLatest
    BY <1>0, <1>4 DEF TypeInv, NextInv, InFlight, WindowInv, WindowsTrackDatabase,
        FaultlessInv, Appending, NatInterval, ContinueAfterLatest, NextAfterLatest, Goto,
        windows
  <1>5. CASE StartAtArchive
    BY <1>0, <1>5 DEF TypeInv, NextInv, InFlight, WindowInv, WindowsTrackDatabase,
        FaultlessInv, Appending, NatInterval, StartAtArchive, Goto, windows
  <1>6. CASE PostCommit
    BY <1>0, <1>6 DEF TypeInv, NextInv, InFlight, WindowInv, WindowsTrackDatabase,
        FaultlessInv, Appending, NatInterval, PostCommit, Goto, windows
  <1>7. CASE AppendClassicFees
    <2>1. classic' \in NatInterval /\ classic'.last = next
      BY <1>7, PushType, Retentions DEF TypeInv, AppendClassicFees
    <2>2. QED
      BY <1>0, <1>7, <2>1
         DEF TypeInv, NextInv, InFlight, WindowInv, WindowsTrackDatabase, FaultlessInv,
             Appending, NatInterval, AppendClassicFees, Accepts, Goto
  <1>8. CASE AppendSorobanFees
    <2>1. soroban' \in NatInterval /\ soroban'.last = next
      BY <1>8, PushType, Retentions DEF TypeInv, AppendSorobanFees
    <2>2. QED
      BY <1>0, <1>8, <2>1
         DEF TypeInv, NextInv, InFlight, WindowInv, WindowsTrackDatabase, FaultlessInv,
             Appending, NatInterval, AppendSorobanFees, Accepts, Goto
  <1>9. CASE Commit
    <2>1. db' \in NatInterval /\ db'.last = next
      BY <1>9, PushType, Retentions DEF TypeInv, Commit
    <2>2. QED
      BY <1>0, <1>9, <2>1
         DEF TypeInv, NextInv, InFlight, WindowInv, WindowsTrackDatabase, FaultlessInv,
             Appending, NatInterval, Commit, windows
  <1>10. CASE Crash \/ Restart
    BY <1>0, <1>10, Reloaded
       DEF TypeInv, NextInv, InFlight, WindowInv, WindowsTrackDatabase, FaultlessInv,
           Appending, Crash, Restart, StartAgain
  <1>11. CASE Close \/ CloseLedger
    BY <1>0, <1>11 DEF TypeInv, NextInv, InFlight, WindowInv, WindowsTrackDatabase,
        FaultlessInv, Appending, NatInterval, Close, CloseLedger, windows
  <1>12. CASE PublishCheckpoint
    BY <1>0, <1>12 DEF TypeInv, NextInv, InFlight, WindowInv, WindowsTrackDatabase,
        FaultlessInv, Appending, NatInterval, PublishCheckpoint, Checkpoints, windows
  <1>13. CASE \E c \in Callers : GetFeeStats(c)
    BY <1>0, <1>13 DEF TypeInv, NextInv, InFlight, WindowInv, WindowsTrackDatabase,
        FaultlessInv, Appending, NatInterval, GetFeeStats, ReadLedgerRange,
        ReadSorobanFees, ReadClassicFees, Respond, SetCall, IdleCall, windows
  <1>14. CASE UNCHANGED vars
    BY <1>14 DEF TypeInv, NextInv, InFlight, WindowInv, WindowsTrackDatabase,
        FaultlessInv, Appending, NatInterval, vars
  <1>15. QED
    BY <1>1, <1>2, <1>3, <1>4, <1>5, <1>6, <1>7, <1>8, <1>9, <1>10, <1>11, <1>12, <1>13,
        <1>14 DEF Next, ServiceStep

\* The windows are never behind the database, nor the classic one behind the
\* Soroban one.
LEMMA WindowsAhead ==
    ASSUME TypeInv, NextInv, WindowInv
    PROVE  /\ soroban.last # 0 => db.last <= soroban.last
           /\ soroban.last <= classic.last
  BY DEF TypeInv, NextInv, InFlight, WindowInv, WindowsTrackDatabase, NatInterval

\* Within one process the database and the Soroban window only move on.
LEMMA OnlyMovesOn ==
    ASSUME TypeInv, NextInv, WindowInv, [Next]_vars, ~(Crash \/ Restart)
    PROVE  db.last <= db'.last /\ soroban.last <= soroban'.last
  <1>0. db.last \in Nat /\ soroban.last \in Nat
    BY DEF TypeInv, NatInterval
  <1>1. CASE PrepareRange \/ GetLedger \/ NewTx \/ InsertLedgerCloseMeta \/ TimerFires \/
      CancelledInBackOff
    BY <1>0, <1>1 DEF PrepareRange, GetLedger, NewTx, InsertLedgerCloseMeta, TimerFires,
        CancelledInBackOff, Goto, windows
  <1>2. CASE EmptyArchives \/ Cancelled \/ LoadTestDone \/ RejectFees \/ Fault
    BY <1>0, <1>2 DEF EmptyArchives, Cancelled, LoadTestDone, RejectFees, Fault, Fallible,
        FailWith, windows
  <1>3. CASE StopRetrying \/ GiveUp \/ BackOff
    BY <1>0, <1>3 DEF StopRetrying, GiveUp, BackOff, RetriesUsed, windows
  <1>4. CASE ContinueAfterLatest
    BY <1>0, <1>4 DEF ContinueAfterLatest, NextAfterLatest, Goto, windows
  <1>5. CASE StartAtArchive
    BY <1>0, <1>5 DEF StartAtArchive, Goto, windows
  <1>6. CASE PostCommit
    BY <1>0, <1>6 DEF PostCommit, Goto, windows
  <1>7. CASE AppendClassicFees
    BY <1>0, <1>7 DEF AppendClassicFees, Accepts, Goto
  <1>8. CASE AppendSorobanFees
    <2>1. soroban'.last = next
      BY <1>8, PushType, Retentions DEF TypeInv, AppendSorobanFees
    <2>2. QED
      BY <1>0, <1>8, <2>1 DEF TypeInv, AppendSorobanFees, Accepts
  <1>9. CASE Commit
    <2>1. db'.last = next
      BY <1>9, PushType, Retentions DEF TypeInv, Commit
    <2>2. QED
      BY <1>0, <1>9, <2>1 DEF TypeInv, NextInv, InFlight, Commit, windows
  <1>11. CASE Close \/ CloseLedger
    BY <1>0, <1>11 DEF Close, CloseLedger, windows
  <1>12. CASE PublishCheckpoint
    BY <1>0, <1>12 DEF PublishCheckpoint, Checkpoints, windows
  <1>13. CASE \E c \in Callers : GetFeeStats(c)
    BY <1>0, <1>13 DEF GetFeeStats, ReadLedgerRange, ReadSorobanFees, ReadClassicFees,
        Respond, SetCall, IdleCall, windows
  <1>14. CASE UNCHANGED vars
    BY <1>0, <1>14 DEF vars
  <1>15. QED
    BY <1>1, <1>2, <1>3, <1>4, <1>5, <1>6, <1>7, <1>8, <1>9, <1>11, <1>12, <1>13, <1>14
    DEF Next, ServiceStep

LEMMA CallStep ==
    ASSUME TypeInv, NextInv, WindowInv, [Next]_vars, NEW c \in Callers, CallInv(c)
    PROVE  CallInv(c)'
  <1>0. /\ stats[c] \in CallType
        /\ db.last \in Nat /\ classic.last \in Nat /\ soroban.last \in Nat
    BY DEF TypeInv, NatInterval
  <1>1. CASE Crash \/ Restart
    BY <1>1, Reloaded DEF CallInv, IdleCall
  <1>2. CASE ~(Crash \/ Restart) /\ stats'[c] = stats[c]
    <2>1. db'.last \in Nat /\ soroban'.last \in Nat
      BY TypeStep DEF TypeInv, NatInterval
    <2>2. db.last <= db'.last /\ soroban.last <= soroban'.last
      BY <1>2, OnlyMovesOn
    <2>3. QED
      BY <1>0, <1>2, <2>1, <2>2 DEF CallInv, CallType
  <1>3. CASE GetFeeStats(c)
    <2>1. /\ soroban.last # 0 => db.last <= soroban.last
          /\ soroban.last <= classic.last
      BY WindowsAhead
    <2>2. DOMAIN stats = Callers
      BY DEF TypeInv
    <2>3. CASE ReadLedgerRange(c)
      BY <1>0, <2>2, <2>3 DEF CallInv, ReadLedgerRange, SetCall, IdleCall, windows
    <2>4. CASE ReadSorobanFees(c)
      BY <1>0, <2>1, <2>2, <2>4 DEF CallInv, CallType, ReadSorobanFees, SetCall, windows
    <2>5. CASE ReadClassicFees(c)
      BY <1>0, <2>1, <2>2, <2>5 DEF CallInv, CallType, ReadClassicFees, SetCall, windows
    <2>6. CASE Respond(c)
      BY <1>0, <2>2, <2>6 DEF CallInv, Respond, SetCall, IdleCall, windows
    <2>7. QED
      BY <1>3, <2>3, <2>4, <2>5, <2>6 DEF GetFeeStats
  <1>4. stats'[c] = stats[c] \/ GetFeeStats(c) \/ Crash \/ Restart
    <2>1. CASE PrepareRange \/ GetLedger \/ NewTx \/ InsertLedgerCloseMeta \/ TimerFires
        \/ CancelledInBackOff
      BY <2>1 DEF PrepareRange, GetLedger, NewTx, InsertLedgerCloseMeta, TimerFires,
          CancelledInBackOff, Goto, windows
    <2>2. CASE EmptyArchives \/ Cancelled \/ LoadTestDone \/ RejectFees \/ Fault
      BY <2>2 DEF EmptyArchives, Cancelled, LoadTestDone, RejectFees, Fault, Fallible,
          FailWith, windows
    <2>3. CASE StopRetrying \/ GiveUp \/ BackOff
      BY <2>3 DEF StopRetrying, GiveUp, BackOff, RetriesUsed, windows
    <2>4. CASE ContinueAfterLatest
      BY <2>4 DEF ContinueAfterLatest, NextAfterLatest, Goto, windows
    <2>5. CASE StartAtArchive
      BY <2>5 DEF StartAtArchive, Goto, windows
    <2>6. CASE PostCommit
      BY <2>6 DEF PostCommit, Goto, windows
    <2>7. CASE AppendClassicFees
      BY <2>7 DEF AppendClassicFees, Accepts, Goto
    <2>8. CASE AppendSorobanFees
      BY <2>8 DEF AppendSorobanFees, Accepts, Goto
    <2>9. CASE Commit
      BY <2>9 DEF Commit, windows
    <2>11. CASE Close \/ CloseLedger
      BY <2>11 DEF Close, CloseLedger, windows
    <2>12. CASE PublishCheckpoint
      BY <2>12 DEF PublishCheckpoint, Checkpoints, windows
    <2>13. CASE \E d \in Callers : GetFeeStats(d)
      <3>1. PICK d \in Callers : GetFeeStats(d)
        BY <2>13
      <3>2. PICK call : stats' = [stats EXCEPT ![d] = call]
        BY <3>1
           DEF GetFeeStats, ReadLedgerRange, ReadSorobanFees, ReadClassicFees, Respond,
            SetCall
      <3>3. CASE d # c
        BY <3>2, <3>3 DEF TypeInv
      <3>4. QED
        BY <3>1, <3>3
    <2>14. CASE UNCHANGED vars
      BY <2>14 DEF vars
    <2>15. QED
      BY <2>1, <2>2, <2>3, <2>4, <2>5, <2>6, <2>7, <2>8, <2>9, <2>11, <2>12, <2>13, <2>14
      DEF Next, ServiceStep
  <1>5. QED
    BY <1>1, <1>2, <1>3, <1>4

LEMMA CompleteStep ==
    ASSUME TypeInv, NextInv, WindowInv, CompleteInv, [Next]_vars
    PROVE  CompleteInv'
  <1>1. CASE /\ unseen' = unseen
             /\ \/ PrepareRange \/ GetLedger \/ NewTx \/ InsertLedgerCloseMeta
                \/ TimerFires \/ CancelledInBackOff
    BY <1>1 DEF CompleteInv, Fresh, Appending, PrepareRange, GetLedger, NewTx,
        InsertLedgerCloseMeta, TimerFires, CancelledInBackOff, Goto, windows
  <1>2. CASE unseen' = unseen /\ (EmptyArchives \/ Cancelled \/ LoadTestDone \/ RejectFees \/ Fault)
    <2>1. pc # "soroban" \/ ~RejectFees
      BY DEF WindowInv, RejectFees, Accepts
    <2>2. /\ UNCHANGED <<db, classic, soroban, unseen>> /\ pc' = "failed"
          /\ pc # "soroban"
      BY <1>2, <2>1
         DEF EmptyArchives, Cancelled, LoadTestDone, RejectFees, Fault, Fallible,
             FailWith, windows
    <2>3. CASE pc = "commit"
      BY <2>2, <2>3
         DEF TypeInv, NextInv, InFlight, WindowInv, CompleteInv, Fresh, Appending, NatInterval
    <2>4. CASE pc # "commit"
      BY <2>2, <2>4 DEF CompleteInv, Fresh, Appending
    <2>5. QED
      BY <2>3, <2>4
  <1>3. CASE unseen' = unseen /\ (StopRetrying \/ GiveUp \/ BackOff)
    BY <1>3 DEF CompleteInv, Fresh, Appending, StopRetrying, GiveUp, BackOff, RetriesUsed,
        windows
  <1>4. CASE unseen' = unseen /\ ContinueAfterLatest
    BY <1>4 DEF CompleteInv, Fresh, Appending, ContinueAfterLatest, NextAfterLatest, Goto,
        windows
  <1>5. CASE unseen' = unseen /\ StartAtArchive
    BY <1>5 DEF CompleteInv, Fresh, Appending, StartAtArchive, Goto, windows
  <1>6. CASE unseen' = unseen /\ PostCommit
    BY <1>6 DEF CompleteInv, Fresh, Appending, PostCommit, Goto, windows
  <1>7. CASE unseen' = unseen /\ AppendClassicFees
    <2>1. UNCHANGED <<db, soroban, next, unseen>> /\ pc = "fees" /\ pc' = "soroban"
      BY <1>7 DEF AppendClassicFees, Goto
    <2>2. /\ next \in Nat /\ next # 0 /\ classic.last \in Nat /\ db.last \in Nat
          /\ db.last # 0 => next = db.last + 1
          /\ db.last = 0 => next % CheckpointFrequency = 0
          /\ classic.last = 0 \/ next = classic.last + 1
      BY <1>7 DEF TypeInv, NextInv, InFlight, AppendClassicFees, Accepts, NatInterval
    <2>3. classic = NewestOf(Fresh, ClassicRetention) /\ soroban = NewestOf(Fresh, SorobanRetention)
      <3>1. CASE classic.last = 0
        <4>1. Fresh = NoLedgers /\ classic = NoLedgers /\ soroban = NoLedgers
          BY <2>1, <3>1 DEF CompleteInv, Appending
        <4>2. \A n : NewestOf(NoLedgers, n) = NoLedgers
          BY DEF NewestOf, NoLedgers
        <4>3. QED
          BY <4>1, <4>2
      <3>2. CASE classic.last # 0 /\ db.last # 0
        BY <2>1, <2>2, <3>2 DEF CompleteInv, Appending
      <3>3. CASE classic.last # 0 /\ db.last = 0
        BY <2>1, <2>2, <3>3, CheckpointsApart DEF CompleteInv, Appending
      <3>4. QED
        BY <3>1, <3>2, <3>3
    <2>4. classic' = Push(classic, next, ClassicRetention)
      BY <1>7 DEF AppendClassicFees
    <2>5. QED
      BY <2>1, <2>3, <2>4 DEF CompleteInv, Fresh, Appending
  <1>8. CASE unseen' = unseen /\ AppendSorobanFees
    BY <1>8 DEF CompleteInv, Fresh, Appending, AppendSorobanFees, Goto
  <1>9. CASE unseen' = unseen /\ Commit
    <2>1. /\ UNCHANGED <<classic, soroban, next, unseen>> /\ pc = "commit" /\ pc' = "checkpoint"
          /\ db' = Push(db, next, HistoryRetentionWindow)
      BY <1>9 DEF Commit, windows
    <2>2. /\ next \in Nat \ {0} /\ db \in NatInterval /\ unseen \in 0..db.last
          /\ db = NoLedgers \/ (db.first \in 1..db.last /\ next = db.last + 1)
      BY <2>1 DEF TypeInv, NextInv, InFlight, CompleteInv, NatInterval
    <2>3. /\ classic' = NewestOf(Fresh, ClassicRetention)'
          /\ soroban' = NewestOf(Fresh, SorobanRetention)'
      <3>1. /\ classic = Push(NewestOf(After(db, unseen), ClassicRetention), next, ClassicRetention)
            /\ soroban = Push(NewestOf(After(db, unseen), SorobanRetention), next, SorobanRetention)
        BY <2>1 DEF CompleteInv, Fresh
      <3>2. /\ classic = NewestOf(After(db', unseen), ClassicRetention)
            /\ soroban = NewestOf(After(db', unseen), SorobanRetention)
        BY <2>1, <2>2, <3>1, NewestAfterPush, Retentions
      <3>3. QED
        BY <2>1, <3>2 DEF Fresh
    <2>4. db'.last = next /\ db'.first \in 1..next
      BY <2>1, <2>2, Retentions DEF Push, NatInterval, NoLedgers
    <2>5. classic'.last = next
      BY <2>1 DEF WindowInv
    <2>6. unseen' \in Nat /\ unseen' <= db'.last
      BY <2>1, <2>2, <2>4 DEF NatInterval, NoLedgers
    <2>7. QED
      BY <2>1, <2>2, <2>3, <2>4, <2>5, <2>6 DEF CompleteInv, Appending
  <1>10. CASE Crash \/ Restart
    <2>1. db' = db /\ pc' = "run"
      BY <1>10 DEF Crash, Restart, StartAgain
    <2>2. db \in NatInterval /\ (db = NoLedgers \/ db.first \in 1..db.last)
      BY DEF TypeInv, CompleteInv
    <2>3. /\ classic' = NewestOf(Fresh, ClassicRetention)'
          /\ soroban' = NewestOf(Fresh, SorobanRetention)'
          /\ unseen' \in Nat /\ unseen' <= db.last
          /\ classic'.last \in {0, db.last}
      BY <1>10, <2>1, <2>2, Reloaded DEF Fresh, NatInterval
    <2>4. After(db, unseen') \in NatInterval
      BY <2>2, <2>3, AfterType
    <2>5. classic'.last = 0 => Fresh' = NoLedgers /\ classic' = NoLedgers /\ soroban' = NoLedgers
      <3>1. classic'.last = After(db, unseen').last
        BY <2>1, <2>3, <2>4, NewestType, Retentions DEF Fresh
      <3>2. After(db, unseen').last = 0 => After(db, unseen') = NoLedgers
        BY <2>2, <2>3 DEF After, NoLedgers, NatInterval
      <3>3. \A n : NewestOf(NoLedgers, n) = NoLedgers
        BY DEF NewestOf, NoLedgers
      <3>4. QED
        BY <2>1, <2>3, <3>1, <3>2, <3>3 DEF Fresh
    <2>6. 0 % CheckpointFrequency = 0
      BY BoundAssumption
    <2>7. QED
      BY <2>1, <2>2, <2>3, <2>5, <2>6 DEF CompleteInv, Appending
  <1>11. CASE unseen' = unseen /\ (Close \/ CloseLedger)
    BY <1>11 DEF CompleteInv, Fresh, Appending, Close, CloseLedger, windows
  <1>12. CASE unseen' = unseen /\ PublishCheckpoint
    BY <1>12 DEF CompleteInv, Fresh, Appending, PublishCheckpoint, Checkpoints, windows
  <1>13. CASE unseen' = unseen /\ (\E c \in Callers : GetFeeStats(c))
    BY <1>13 DEF CompleteInv, Fresh, Appending, GetFeeStats, ReadLedgerRange,
        ReadSorobanFees, ReadClassicFees, Respond, SetCall, IdleCall, windows
  <1>14. CASE UNCHANGED vars
    BY <1>14 DEF CompleteInv, Fresh, Appending, vars
  <1>15. QED
    BY <1>1, <1>2, <1>3, <1>4, <1>5, <1>6, <1>7, <1>8, <1>9, <1>10, <1>11, <1>12, <1>13,
        <1>14 DEF Next, ServiceStep

-----------------------------------------------------------------------------
(***************************************************************************)
(* The invariant.                                                          *)
(***************************************************************************)
LEMMA InitInv == Init => IndInv
  <1> SUFFICES ASSUME Init
               PROVE  IndInv
    OBVIOUS
  <1> USE DEF Init
  <1>1. db \in NatInterval /\ (db = NoLedgers \/ db.first \in 1..db.last)
    BY BoundAssumption DEF Interval, LedgerOrNone, NatInterval
  <1>2. /\ classic \in NatInterval /\ soroban \in NatInterval
        /\ classic.last \in {0, db.last} /\ soroban.last = classic.last
        /\ classic = NewestOf(Fresh, ClassicRetention)
        /\ soroban = NewestOf(Fresh, SorobanRetention)
        /\ unseen \in 0..db.last
    <2>1. ClassicRetention \in Nat /\ SorobanRetention \in Nat /\ Backfills \subseteq BOOLEAN
      BY Retentions, BoundAssumption
    <2>2. PICK backfill \in Backfills :
             /\ classic = LoadedWindow(db, ClassicRetention, backfill)
             /\ soroban = LoadedWindow(db, SorobanRetention, backfill)
             /\ unseen = NotLoaded(db, backfill)
      OBVIOUS
    <2> HIDE DEF Init
    <2>3. backfill \in BOOLEAN
      BY <2>1, <2>2
    <2>4. QED
      BY <1>1, <2>1, <2>2, <2>3, LoadedType DEF Fresh
  <1>3. TypeInv
    <2>1. tip \in Nat /\ archive \in Nat /\ loadTestEnd \in Nat
      BY BoundAssumption DEF LedgerOrNone, Checkpoints
    <2>2. stats \in [Callers -> CallType]
      BY DEF IdleCall, CallType
    <2>3. QED
      BY <1>1, <1>2, <2>1, <2>2 DEF TypeInv
  <1>4. NextInv
    BY BoundAssumption DEF NextInv, InFlight, Checkpoints
  <1>5. WindowInv
    BY <1>1, <1>2 DEF WindowInv, WindowsTrackDatabase
  <1>6. FaultlessInv
    BY <1>2 DEF FaultlessInv, Appending
  <1>7. ASSUME NEW c \in Callers
        PROVE  CallInv(c)
    BY DEF CallInv, IdleCall
  <1>8. CompleteInv
    <2>1. 0 % CheckpointFrequency = 0
      BY BoundAssumption
    <2>2. Fresh \in NatInterval /\ (Fresh.last = 0 => Fresh = NoLedgers)
      BY <1>1, <1>2 DEF Fresh, After, NoLedgers, NatInterval
    <2>3. classic.last = Fresh.last
      BY <1>2, <2>2, NewestType, Retentions
    <2>4. \A n : NewestOf(NoLedgers, n) = NoLedgers
      BY DEF NewestOf, NoLedgers
    <2>5. /\ db.last = 0 => db = NoLedgers
          /\ db.last # 0 => db.first \in 1..db.last
          /\ unseen \in Nat /\ unseen <= db.last
      BY <1>1, <1>2 DEF NoLedgers, NatInterval
    <2>6. QED
      BY <1>2, <2>1, <2>2, <2>3, <2>4, <2>5 DEF CompleteInv, Appending
  <1>9. QED
    BY <1>3, <1>4, <1>5, <1>6, <1>7, <1>8 DEF IndInv

LEMMA StepInv == IndInv /\ [Next]_vars => IndInv'
  <1> SUFFICES ASSUME IndInv, [Next]_vars
               PROVE  IndInv'
    OBVIOUS
  <1>1. TypeInv /\ NextInv /\ WindowInv /\ FaultlessInv
    BY DEF IndInv
  <1>2. TypeInv' /\ NextInv' /\ WindowInv' /\ FaultlessInv'
    BY <1>1, TypeStep, NextStep, WindowStep, FaultlessStep
  <1>3. ASSUME NEW c \in Callers
        PROVE  CallInv(c)'
    BY <1>1, CallStep DEF IndInv
  <1>4. CompleteInv'
    BY <1>1, CompleteStep DEF IndInv
  <1>5. QED
    BY <1>2, <1>3, <1>4 DEF IndInv

LEMMA AlwaysInv == Spec => []IndInv
  BY InitInv, StepInv, PTL DEF Spec

-----------------------------------------------------------------------------
(***************************************************************************)
(* What the ingestion service guarantees.                                  *)
(***************************************************************************)

\* Whatever fails, is retried, crashes or is restarted, between two ledgers the
\* two fee windows end at the same ledger, the newest of the database or the
\* one whose commit failed (ingest, IngestFees).
THEOREM WindowsFollow == Spec => []WindowsTrackDatabase
  <1>1. IndInv => WindowsTrackDatabase
    BY DEF IndInv, WindowInv
  <1>2. QED
    BY AlwaysInv, <1>1, PTL

\* A getFeeStats response covers the latest ledger it reports, however its
\* three reads interleave with the ledgers being ingested.
THEOREM FeeStatsCover == Spec => []FeeStatsCoverLatestLedger
  <1>1. IndInv => FeeStatsCoverLatestLedger
    BY DEF IndInv, CallInv, FeeStatsCoverLatestLedger
  <1>2. QED
    BY AlwaysInv, <1>1, PTL

\* log.Fatal in Start() is reached only after a failure of the environment:
\* without one IngestFees never rejects a ledger, and waiting for the first
\* checkpoint does not count as a try.
THEOREM FatalNeedsFault == Spec => []NoFatalWithoutFault
  <1>1. IndInv => NoFatalWithoutFault
    BY DEF IndInv, TypeInv, FaultlessInv, NoFatalWithoutFault
  <1>2. QED
    BY AlwaysInv, <1>1, PTL

\* The fee windows hold all the newest ledgers of the database they have room
\* for, after any sequence of failures and restarts (mustInitializeStorage,
\* ingest); when mustBackfill has reset them, or a load test has not filled them,
\* all those stored since.
THEOREM WindowsComplete == Spec => []FeeWindowsComplete
  <1>1. IndInv => FeeWindowsComplete
    <2>1. SUFFICES ASSUME IndInv, pc = "fetch", classic.last <= db.last
                   PROVE  /\ classic = NewestOf(Fresh, ClassicRetention)
                          /\ soroban = NewestOf(Fresh, SorobanRetention)
      BY DEF FeeWindowsComplete, Fresh
    <2>2. CASE classic.last = 0
      <3>1. \A n : NewestOf(NoLedgers, n) = NoLedgers
        BY DEF NewestOf, NoLedgers
      <3>2. QED
        BY <2>1, <2>2, <3>1 DEF IndInv, CompleteInv, Appending
    <2>3. CASE classic.last # 0
      <3>1. classic.last = db.last
        BY <2>1, <2>3
           DEF IndInv, WindowInv, WindowsTrackDatabase, TypeInv, NatInterval
      <3>2. QED
        BY <2>1, <3>1 DEF IndInv, CompleteInv, Appending
    <2>4. QED
      BY <2>2, <2>3
  <1>2. QED
    BY AlwaysInv, <1>1, PTL

-----------------------------------------------------------------------------
(***************************************************************************)
(* The database as RetainedLedgers promises it.  The service is modelled   *)
(* over an interval of ledgers; here it is shown that it only ever does to *)
(* this interval what the abstract window of ledgers allows, so that the   *)
(* composition with the ledger store, which implements that window, is     *)
(* sound.                                                                  *)
(***************************************************************************)
Retained == IF db.last = 0 THEN {} ELSE db.first..db.last

Store == INSTANCE RetainedLedgers WITH retained <- Retained

\* Every step of the service, of a getFeeStats call, of the network, of a crash
\* or a restart moves the window on by one ledger or leaves it alone.
DatabaseIsRetainedLedgers == [][Store!Next]_Retained

\* A ledger that has been fetched is one of the network's (or the load test's).
FetchedInv ==
    /\ tip <= MaxLedger /\ loadTestEnd <= MaxLedger
    /\ pc \in {"begin", "insert", "fees", "soroban", "commit"} => next <= MaxLedger
    /\ db.last # 0 => db.first \in 1..db.last

LEMMA FetchedInit == Init => FetchedInv
  BY BoundAssumption DEF Init, FetchedInv, LedgerOrNone, Interval, NoLedgers

LEMMA OnlyCommitWrites ==
    ASSUME [Next]_vars
    PROVE  Commit \/ db' = db
  BY DEF Next, ServiceStep, Fault, Close, Crash, Restart, CloseLedger, PublishCheckpoint,
         GetFeeStats, ContinueAfterLatest, StartAtArchive, EmptyArchives, Cancelled,
         PrepareRange, GetLedger, LoadTestDone, NewTx, InsertLedgerCloseMeta,
         AppendClassicFees, AppendSorobanFees, RejectFees, PostCommit, StopRetrying, GiveUp,
         BackOff, TimerFires, CancelledInBackOff, FailWith, StartAgain, SetCall,
         ReadLedgerRange, ReadSorobanFees, ReadClassicFees, Respond, vars

\* What Commit makes of the interval.
LEMMA CommitPushes ==
    ASSUME IndInv, FetchedInv, Commit
    PROVE  /\ next \in Nat \ {0} /\ next <= MaxLedger
           /\ db'.last = next /\ db'.first \in 1..next
           /\ Retained \subseteq Nat \ {0}
           /\ next \notin Retained
           /\ \A x \in Retained : x < next
           /\ Retained # {} => (next - 1) \in Retained
           /\ Retained' = {x \in Retained \cup {next} : x + HistoryRetentionWindow > next}
  <1> DEFINE H == HistoryRetentionWindow
             f == IF db.last = 0 THEN next ELSE db.first
             g == IF next + 1 > f + H THEN next + 1 - H ELSE f
  <1>1. /\ next \in Nat \ {0} /\ next <= MaxLedger /\ H \in Nat \ {0}
        /\ db.first \in Nat /\ db.last \in Nat
        /\ db.last # 0 => next = db.last + 1 /\ db.first \in 1..db.last
    BY Retentions DEF IndInv, TypeInv, NatInterval, NextInv, InFlight, FetchedInv, Commit
  <1>2. db' = [first |-> g, last |-> next]
    BY DEF Commit, Push
  <1>3. f \in 1..next /\ g \in 1..next /\ Retained' = g..next
    BY <1>1, <1>2 DEF Retained
  <1>4. Retained \cup {next} = f..next
    BY <1>1 DEF Retained
  <1>5. {x \in f..next : x + H > next} = g..next
    BY <1>1
  <1>6. /\ Retained \subseteq Nat \ {0}
        /\ next \notin Retained
        /\ \A x \in Retained : x < next
        /\ Retained # {} => (next - 1) \in Retained
    BY <1>1 DEF Retained
  <1>7. db'.last = next /\ db'.first = g
    BY <1>2
  <1> HIDE DEF H, f, g
  <1>8. Retained' = {x \in Retained \cup {next} : x + H > next}
    BY <1>3, <1>4, <1>5
  <1>9. QED
    BY <1>1, <1>3, <1>6, <1>7, <1>8 DEF H

LEMMA FetchedStep ==
    ASSUME IndInv, FetchedInv, [Next]_vars
    PROVE  FetchedInv'
  <1>1. /\ tip \in Nat /\ loadTestEnd \in Nat /\ MaxLedger \in Nat /\ next \in Nat
    BY BoundAssumption DEF IndInv, TypeInv
  <1>2. loadTestEnd' = loadTestEnd
    BY DEF Next, vars
  <1>3. tip' <= MaxLedger
    <2>1. tip' = tip \/ (tip' = tip + 1 /\ tip < MaxLedger)
      BY DEF Next, ServiceStep, Fault, Close, Crash, Restart, CloseLedger, PublishCheckpoint,
         GetFeeStats, ContinueAfterLatest, StartAtArchive, EmptyArchives, Cancelled,
         PrepareRange, GetLedger, LoadTestDone, NewTx, InsertLedgerCloseMeta, Commit,
         AppendClassicFees, AppendSorobanFees, RejectFees, PostCommit, StopRetrying, GiveUp,
         BackOff, TimerFires, CancelledInBackOff, FailWith, StartAgain, SetCall, Goto,
         ReadLedgerRange, ReadSorobanFees, ReadClassicFees, Respond, vars
    <2>2. QED
      BY <1>1, <2>1 DEF FetchedInv
  <1>4. db'.last # 0 => db'.first \in 1..db'.last
    <2>1. CASE Commit
      BY <2>1, CommitPushes
    <2>2. CASE db' = db
      BY <2>2 DEF FetchedInv
    <2>3. QED
      BY <2>1, <2>2, OnlyCommitWrites
  <1>5. ASSUME pc' \in {"begin", "insert", "fees", "soroban", "commit"}
        PROVE  next' <= MaxLedger
    <2>1. \/ GetLedger
          \/ next' = next /\ pc \in {"begin", "insert", "fees", "soroban", "commit"}
      BY <1>5
         DEF Next, ServiceStep, Fault, Close, Crash, Restart, CloseLedger, PublishCheckpoint,
         GetFeeStats, ContinueAfterLatest, StartAtArchive, EmptyArchives, Cancelled,
         PrepareRange, LoadTestDone, NewTx, InsertLedgerCloseMeta, Commit,
         AppendClassicFees, AppendSorobanFees, RejectFees, PostCommit, StopRetrying, GiveUp,
         BackOff, TimerFires, CancelledInBackOff, FailWith, StartAgain, SetCall, Goto,
         ReadLedgerRange, ReadSorobanFees, ReadClassicFees, Respond, vars
    <2>2. CASE GetLedger
      BY <1>1, <2>2 DEF GetLedger, Available, FetchedInv
    <2>3. QED
      BY <2>1, <2>2 DEF FetchedInv
  <1>6. QED
    BY <1>2, <1>3, <1>4, <1>5 DEF FetchedInv

\* The ingestion service writes to the database as RetainedLedgers says: each
\* step commits the successor of the newest ledger and trims exactly what left
\* the retention window, or changes nothing, through all failures, retries,
\* crashes and restarts (ingest, getNextLedgerSequence).
THEOREM IngestionRefinement == Spec => DatabaseIsRetainedLedgers
  <1>1. IndInv /\ FetchedInv /\ [Next]_vars => FetchedInv'
    BY FetchedStep
  <1>2. IndInv /\ FetchedInv /\ [Next]_vars => [Store!Next]_Retained
    <2> SUFFICES ASSUME IndInv, FetchedInv, [Next]_vars
                 PROVE  [Store!Next]_Retained
      OBVIOUS
    <2>1. CASE Commit
      <3>1. Store!Advance(next)
        BY <2>1, CommitPushes DEF Store!Advance, Store!Covered
      <3>2. next \in Store!Ledger
        BY <2>1, CommitPushes, BoundAssumption DEF Store!Ledger
      <3>3. QED
        BY <3>1, <3>2 DEF Store!Next
    <2>2. CASE db' = db
      BY <2>2 DEF Retained
    <2>3. QED
      BY <2>1, <2>2, OnlyCommitWrites
  <1>3. QED
    BY AlwaysInv, FetchedInit, <1>1, <1>2, PTL DEF Spec, DatabaseIsRetainedLedgers
=============================================================================
