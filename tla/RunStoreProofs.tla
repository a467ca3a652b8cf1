-------------------------- MODULE RunStoreProofs --------------------------
(* What the run store guarantees for any number of commands, runs, writes    *)
(* and killed processes: the safety properties that MCRunStore checks for    *)
(* three commands over two runs.  They follow from one inductive invariant,  *)
(* IInv: who holds which file lock at which place, and what the files say    *)
(* then.                                                                     *)
EXTENDS RunStore, TLAPS

\* The places of a process that has the gate for itself, shares it, has the lock.
GatePlaces == {"lock", "refused", "stale", "create", "load", "mend", "clean", "undo",
               "point", "publish", "unpoint", "unlock", "ungate"}
SharePlaces == {"probe", "read", "seen"}
LockPlaces == {"stale", "create", "load", "mend", "clean", "undo", "point", "publish",
               "drive", "leave", "unpoint", "unlock"}

\* The places of a process that has a run, and of one whose run the pointer names.
RunPlaces == {"load", "mend", "point", "publish", "drive", "leave", "unpoint"}
PointedPlaces == {"publish", "drive", "leave", "unpoint"}

\* A file lock is held by the processes whose place says so, and by them only.
LocksInv ==
  /\ \A p \in Pids : pc[p] \in GatePlaces <=> writer = p
  /\ \A p \in Pids : pc[p] \in SharePlaces <=> p \in readers
  /\ \A p \in Pids : pc[p] \in LockPlaces <=> lock = p
  /\ writer # None => readers = {}

\* A process knows its command and, where it needs one, its run.
JobInv ==
  \A p \in Pids :
    /\ pc[p] \in {"gate", "lock"} => job[p] \in {"start", "resume", "cleanup"}
    /\ pc[p] \in {"gate", "lock"} /\ job[p] = "resume" => run[p] \in Runs
    /\ pc[p] \in RunPlaces => run[p] \in Runs

\* The pointer names the process that set it, as long as that one has the lock.
PointInv == \A p \in Pids : pc[p] \in PointedPlaces => current = <<run[p], p>>

\* <<r, q>> is the run r that q drives, or q has been killed.
Driver(live) ==
  At(live[2], "dead") \/ (pc[live[2]] \in {"drive", "leave"} /\ run[live[2]] = live[1])

\* What a process that still holds the gate has been told, or is about to be.
ToldInv ==
  \A p \in Pids :
    /\ told[p] # None => pc[p] \in {"refused", "seen", "mark"}
    /\ pc[p] \in {"refused", "seen"} /\ told[p] # None => Driver(told[p])
    /\ At(p, "read") => current # None /\ Driver(current)
    /\ At(p, "refused") => told[p] # None
    /\ At(p, "mark") => told[p] # None
    /\ At(p, "seen") /\ told[p] = None => \A q \in Pids : pc[q] \notin {"drive", "leave"}

\* Who has been asked to stop drives a marked run, or is on its way out.
AskedInv ==
  \A p \in asked :
    /\ pc[p] \in {"drive", "leave", "unpoint", "unlock", "ungate"}
    /\ At(p, "drive") => run[p] \in marked

\* The kinds a record may have.
Kinded == {"event", "halted", "finished"}

\* What a write leaves of a log that was repaired is a log, and a load of it
\* answers what one did before, and perhaps the new record.
LEMMA WrittenLog ==
  ASSUME NEW l \in Logs, NEW rec \in Records, NEW wrote \in Parts
  PROVE  /\ Written(Repaired(l), rec, wrote) \in Logs
         /\ \/ Loaded(Written(Repaired(l), rec, wrote)) = Loaded(l)
            \/ Loaded(Written(Repaired(l), rec, wrote)) = Append(Loaded(l), rec)
<1> DEFINE k == Repaired(l)
<1>1. k \in Logs /\ k.tail # "part" /\ Loaded(k) = Loaded(l)
  BY DEF Repaired, Logs, Loaded
<1>2. LinesEnded(k) = Loaded(k) /\ Loaded(k) \in Seq(Records \cup {Broken})
  BY <1>1 DEF LinesEnded, Loaded, Logs
<1> HIDE DEF k
<1>3. CASE wrote = "none"
  <2>1. Written(k, rec, wrote) = k
    BY <1>3 DEF Written
  <2>. QED
    BY <1>1, <2>1 DEF k
<1>4. CASE wrote = "break"
  <2>1. Written(k, rec, wrote) = [lines |-> LinesEnded(k), tail |-> "none", last |-> Broken]
    BY <1>4 DEF Written
  <2>. QED
    BY <1>1, <1>2, <2>1 DEF k, Logs, Loaded
<1>5. CASE wrote \in {"part", "whole"}
  <2>1. Written(k, rec, wrote) = [lines |-> LinesEnded(k), tail |-> wrote, last |-> rec]
    BY <1>5 DEF Written
  <2>2. Written(k, rec, wrote) \in Logs
    BY <1>1, <1>2, <1>5, <2>1 DEF Logs
  <2>3. Loaded(Written(k, rec, wrote)) \in {Loaded(k), Append(Loaded(k), rec)}
    BY <1>2, <1>5, <2>1 DEF Loaded
  <2>. QED
    BY <1>1, <2>2, <2>3 DEF k
<1>6. CASE wrote = "all"
  <2>1. Written(k, rec, wrote)
        = [lines |-> Append(LinesEnded(k), rec), tail |-> "none", last |-> Broken]
    BY <1>6 DEF Written
  <2>2. Append(LinesEnded(k), rec) \in Seq(Records \cup {Broken})
    BY <1>2
  <2>3. Written(k, rec, wrote) \in Logs
    BY <2>1, <2>2 DEF Logs
  <2>4. Loaded(Written(k, rec, wrote)) = Append(Loaded(k), rec)
    BY <1>2, <2>1 DEF Loaded
  <2>. QED
    BY <1>1, <2>3, <2>4 DEF k
<1>. QED
  BY <1>3, <1>4, <1>5, <1>6 DEF Parts

LEMMA AppendType ==
  ASSUME TypeOK, NEW r \in Runs, NEW kind \in Kinded, AppendTo(r, kind)
  PROVE  log' \in [Runs -> Logs] /\ writes' \in Nat
<1>1. writes' \in Nat \ {0} /\ <<writes', kind>> \in Records
  BY DEF TypeOK, AppendTo, Records, Kinded
<1>2. PICK wrote \in Parts :
        log' = [log EXCEPT ![r] = Written(Repaired(log[r]), <<writes', kind>>, wrote)]
  BY DEF AppendTo, TypeOK
<1>3. Written(Repaired(log[r]), <<writes', kind>>, wrote) \in Logs
  BY <1>1, WrittenLog DEF TypeOK
<1>. QED
  BY <1>1, <1>2, <1>3 DEF TypeOK

\* While the lock is taken and its holder has not the gate, the pointer names a
\* driver.
LEMMA LiveDriver ==
  ASSUME TypeOK, LocksInv, PointInv, lock \in Pids, pc[lock] \notin GatePlaces
  PROVE  current = <<run[lock], lock>> /\ pc[lock] \in {"drive", "leave"}
  BY DEF TypeOK, LocksInv, PointInv, GatePlaces, LockPlaces, PointedPlaces

\* Every step keeps the file locks with their holders.
LEMMA LocksStep == TypeOK /\ LocksInv /\ JobInv /\ [Next]_vars => LocksInv'
<1> SUFFICES ASSUME TypeOK /\ LocksInv /\ JobInv, [Next]_vars PROVE LocksInv'
  OBVIOUS
<1> USE StoreAssumption DEF At, Goto, End, locks, store, TypeOK, LocksInv, JobInv,
        GatePlaces, SharePlaces, LockPlaces
<1>1. ASSUME NEW p \in Pids, Begin(p) PROVE LocksInv'
  BY <1>1 DEF Begin
<1>2. ASSUME NEW p \in Pids, TakeGate(p) PROVE LocksInv'
  BY <1>2 DEF TakeGate
<1>3. ASSUME NEW p \in Pids, TakeLock(p) PROVE LocksInv'
  BY <1>3 DEF TakeLock
<1>4. ASSUME NEW p \in Pids, Refused(p) PROVE LocksInv'
  BY <1>4 DEF Refused
<1>5. ASSUME NEW p \in Pids, LeaveGate(p) PROVE LocksInv'
  BY <1>5 DEF LeaveGate
<1>6. ASSUME NEW p \in Pids, GiveUp(p) PROVE LocksInv'
  BY <1>6 DEF GiveUp
<1>7. ASSUME NEW p \in Pids, ClearStale(p) PROVE LocksInv'
  BY <1>7 DEF ClearStale
<1>8. ASSUME NEW p \in Pids, Create(p) PROVE LocksInv'
  BY <1>8 DEF Create
<1>9. ASSUME NEW p \in Pids, Load(p) PROVE LocksInv'
  BY <1>9 DEF Load
<1>10. ASSUME NEW p \in Pids, Mend(p) PROVE LocksInv'
  BY <1>10 DEF Mend
<1>11. ASSUME NEW p \in Pids, ClearAbort(p) PROVE LocksInv'
  BY <1>11 DEF ClearAbort
<1>12. ASSUME NEW p \in Pids, SetCurrent(p) PROVE LocksInv'
  BY <1>12 DEF SetCurrent
<1>13. ASSUME NEW p \in Pids, Publish(p) PROVE LocksInv'
  BY <1>13 DEF Publish
<1>14. ASSUME NEW p \in Pids, Clean(p) PROVE LocksInv'
  BY <1>14 DEF Clean
<1>15. ASSUME NEW p \in Pids, Record(p) PROVE LocksInv'
  BY <1>15 DEF Record
<1>16. ASSUME NEW p \in Pids, StopNow(p) PROVE LocksInv'
  BY <1>16 DEF StopNow
<1>17. ASSUME NEW p \in Pids, Aborts(p) PROVE LocksInv'
  BY <1>17 DEF Aborts
<1>18. ASSUME NEW p \in Pids, Returns(p) PROVE LocksInv'
  BY <1>18 DEF Returns
<1>19. ASSUME NEW p \in Pids, Regate(p) PROVE LocksInv'
  BY <1>19 DEF Regate
<1>20. ASSUME NEW p \in Pids, ClearCurrent(p) PROVE LocksInv'
  BY <1>20 DEF ClearCurrent
<1>21. ASSUME NEW p \in Pids, Unlock(p) PROVE LocksInv'
  BY <1>21 DEF Unlock
<1>22. ASSUME NEW p \in Pids, ShareGate(p) PROVE LocksInv'
  BY <1>22 DEF ShareGate
<1>23. ASSUME NEW p \in Pids, Probe(p) PROVE LocksInv'
  BY <1>23 DEF Probe
<1>24. ASSUME NEW p \in Pids, ReadCurrent(p) PROVE LocksInv'
  BY <1>24 DEF ReadCurrent
<1>25. ASSUME NEW p \in Pids, Unshare(p) PROVE LocksInv'
  BY <1>25 DEF Unshare
<1>26. ASSUME NEW p \in Pids, MarkAbort(p) PROVE LocksInv'
  BY <1>26 DEF MarkAbort
<1>27. ASSUME NEW p \in Pids, Crash(p) PROVE LocksInv'
  BY <1>27 DEF Crash
<1>28. CASE UNCHANGED vars
  BY <1>28 DEF vars, locks, store
<1>29. QED
  BY <1>1, <1>2, <1>3, <1>4, <1>5, <1>6, <1>7, <1>8, <1>9, <1>10, <1>11, <1>12, <1>13,
     <1>14, <1>15, <1>16, <1>17, <1>18, <1>19, <1>20, <1>21, <1>22, <1>23, <1>24, <1>25,
     <1>26, <1>27, <1>28 DEF Next, Step

\* Every step keeps what a process knows of its command.
LEMMA JobStep == TypeOK /\ JobInv /\ [Next]_vars => JobInv'
<1> SUFFICES ASSUME TypeOK /\ JobInv, [Next]_vars PROVE JobInv'
  OBVIOUS
<1> USE StoreAssumption DEF At, Goto, End, locks, store, TypeOK, JobInv, RunPlaces
<1>1. ASSUME NEW p \in Pids, Begin(p) PROVE JobInv'
  <2>1. /\ pc' = [pc EXCEPT ![p] = pc'[p]] /\ pc[p] = "off" /\ pc'[p] \in {"look", "gate"}
        /\ job' = [job EXCEPT ![p] = job'[p]] /\ run' = [run EXCEPT ![p] = run'[p]]
        /\ pc'[p] = "gate" => job'[p] \in {"start", "resume", "cleanup"}
        /\ job'[p] = "resume" => run'[p] \in Runs
    BY <1>1 DEF Begin
  <2>. QED
    BY <1>1, <2>1 DEF Begin
<1>2. ASSUME NEW p \in Pids, TakeGate(p) PROVE JobInv'
  BY <1>2 DEF TakeGate
<1>3. ASSUME NEW p \in Pids, TakeLock(p) PROVE JobInv'
  BY <1>3 DEF TakeLock
<1>4. ASSUME NEW p \in Pids, Refused(p) PROVE JobInv'
  BY <1>4 DEF Refused
<1>5. ASSUME NEW p \in Pids, LeaveGate(p) PROVE JobInv'
  BY <1>5 DEF LeaveGate
<1>6. ASSUME NEW p \in Pids, GiveUp(p) PROVE JobInv'
  BY <1>6 DEF GiveUp
<1>7. ASSUME NEW p \in Pids, ClearStale(p) PROVE JobInv'
  BY <1>7 DEF ClearStale
<1>8. ASSUME NEW p \in Pids, Create(p) PROVE JobInv'
  BY <1>8 DEF Create
<1>9. ASSUME NEW p \in Pids, Load(p) PROVE JobInv'
  BY <1>9 DEF Load
<1>10. ASSUME NEW p \in Pids, Mend(p) PROVE JobInv'
  BY <1>10 DEF Mend
<1>11. ASSUME NEW p \in Pids, ClearAbort(p) PROVE JobInv'
  BY <1>11 DEF ClearAbort
<1>12. ASSUME NEW p \in Pids, SetCurrent(p) PROVE JobInv'
  BY <1>12 DEF SetCurrent
<1>13. ASSUME NEW p \in Pids, Publish(p) PROVE JobInv'
  BY <1>13 DEF Publish
<1>14. ASSUME NEW p \in Pids, Clean(p) PROVE JobInv'
  BY <1>14 DEF Clean
<1>15. ASSUME NEW p \in Pids, Record(p) PROVE JobInv'
  BY <1>15 DEF Record
<1>16. ASSUME NEW p \in Pids, StopNow(p) PROVE JobInv'
  BY <1>16 DEF StopNow
<1>17. ASSUME NEW p \in Pids, Aborts(p) PROVE JobInv'
  BY <1>17 DEF Aborts
<1>18. ASSUME NEW p \in Pids, Returns(p) PROVE JobInv'
  BY <1>18 DEF Returns
<1>19. ASSUME NEW p \in Pids, Regate(p) PROVE JobInv'
  BY <1>19 DEF Regate
<1>20. ASSUME NEW p \in Pids, ClearCurrent(p) PROVE JobInv'
  BY <1>20 DEF ClearCurrent
<1>21. ASSUME NEW p \in Pids, Unlock(p) PROVE JobInv'
  BY <1>21 DEF Unlock
<1>22. ASSUME NEW p \in Pids, ShareGate(p) PROVE JobInv'
  BY <1>22 DEF ShareGate
<1>23. ASSUME NEW p \in Pids, Probe(p) PROVE JobInv'
  BY <1>23 DEF Probe
<1>24. ASSUME NEW p \in Pids, ReadCurrent(p) PROVE JobInv'
  BY <1>24 DEF ReadCurrent
<1>25. ASSUME NEW p \in Pids, Unshare(p) PROVE JobInv'
  BY <1>25 DEF Unshare
<1>26. ASSUME NEW p \in Pids, MarkAbort(p) PROVE JobInv'
  BY <1>26 DEF MarkAbort
<1>27. ASSUME NEW p \in Pids, Crash(p) PROVE JobInv'
  BY <1>27 DEF Crash
<1>28. CASE UNCHANGED vars
  BY <1>28 DEF vars, locks, store
<1>29. QED
  BY <1>1, <1>2, <1>3, <1>4, <1>5, <1>6, <1>7, <1>8, <1>9, <1>10, <1>11, <1>12, <1>13,
     <1>14, <1>15, <1>16, <1>17, <1>18, <1>19, <1>20, <1>21, <1>22, <1>23, <1>24, <1>25,
     <1>26, <1>27, <1>28 DEF Next, Step

\* Only who has the lock moves the pointer.
LEMMA PointStep == TypeOK /\ LocksInv /\ JobInv /\ PointInv /\ [Next]_vars => PointInv'
<1> SUFFICES ASSUME TypeOK /\ LocksInv /\ JobInv /\ PointInv, [Next]_vars PROVE PointInv'
  OBVIOUS
<1> USE StoreAssumption DEF At, Goto, End, locks, store, TypeOK, LocksInv, JobInv,
        PointInv, PointedPlaces, GatePlaces, SharePlaces, LockPlaces
<1>1. ASSUME NEW p \in Pids, Begin(p) PROVE PointInv'
  BY <1>1 DEF Begin
<1>2. ASSUME NEW p \in Pids, TakeGate(p) PROVE PointInv'
  BY <1>2 DEF TakeGate
<1>3. ASSUME NEW p \in Pids, TakeLock(p) PROVE PointInv'
  BY <1>3 DEF TakeLock
<1>4. ASSUME NEW p \in Pids, Refused(p) PROVE PointInv'
  BY <1>4 DEF Refused
<1>5. ASSUME NEW p \in Pids, LeaveGate(p) PROVE PointInv'
  BY <1>5 DEF LeaveGate
<1>6. ASSUME NEW p \in Pids, GiveUp(p) PROVE PointInv'
  BY <1>6 DEF GiveUp
<1>7. ASSUME NEW p \in Pids, ClearStale(p) PROVE PointInv'
  BY <1>7 DEF ClearStale
<1>8. ASSUME NEW p \in Pids, Create(p) PROVE PointInv'
  BY <1>8 DEF Create
<1>9. ASSUME NEW p \in Pids, Load(p) PROVE PointInv'
  BY <1>9 DEF Load
<1>10. ASSUME NEW p \in Pids, Mend(p) PROVE PointInv'
  BY <1>10 DEF Mend
<1>11. ASSUME NEW p \in Pids, ClearAbort(p) PROVE PointInv'
  BY <1>11 DEF ClearAbort
<1>12. ASSUME NEW p \in Pids, SetCurrent(p) PROVE PointInv'
  BY <1>12 DEF SetCurrent
<1>13. ASSUME NEW p \in Pids, Publish(p) PROVE PointInv'
  BY <1>13 DEF Publish
<1>14. ASSUME NEW p \in Pids, Clean(p) PROVE PointInv'
  BY <1>14 DEF Clean
<1>15. ASSUME NEW p \in Pids, Record(p) PROVE PointInv'
  BY <1>15 DEF Record
<1>16. ASSUME NEW p \in Pids, StopNow(p) PROVE PointInv'
  BY <1>16 DEF StopNow
<1>17. ASSUME NEW p \in Pids, Aborts(p) PROVE PointInv'
  BY <1>17 DEF Aborts
<1>18. ASSUME NEW p \in Pids, Returns(p) PROVE PointInv'
  BY <1>18 DEF Returns
<1>19. ASSUME NEW p \in Pids, Regate(p) PROVE PointInv'
  BY <1>19 DEF Regate
<1>20. ASSUME NEW p \in Pids, ClearCurrent(p) PROVE PointInv'
  BY <1>20 DEF ClearCurrent
<1>21. ASSUME NEW p \in Pids, Unlock(p) PROVE PointInv'
  BY <1>21 DEF Unlock
<1>22. ASSUME NEW p \in Pids, ShareGate(p) PROVE PointInv'
  BY <1>22 DEF ShareGate
<1>23. ASSUME NEW p \in Pids, Probe(p) PROVE PointInv'
  BY <1>23 DEF Probe
<1>24. ASSUME NEW p \in Pids, ReadCurrent(p) PROVE PointInv'
  BY <1>24 DEF ReadCurrent
<1>25. ASSUME NEW p \in Pids, Unshare(p) PROVE PointInv'
  BY <1>25 DEF Unshare
<1>26. ASSUME NEW p \in Pids, MarkAbort(p) PROVE PointInv'
  BY <1>26 DEF MarkAbort
<1>27. ASSUME NEW p \in Pids, Crash(p) PROVE PointInv'
  BY <1>27 DEF Crash
<1>28. CASE UNCHANGED vars
  BY <1>28 DEF vars, locks, store
<1>29. QED
  BY <1>1, <1>2, <1>3, <1>4, <1>5, <1>6, <1>7, <1>8, <1>9, <1>10, <1>11, <1>12, <1>13,
     <1>14, <1>15, <1>16, <1>17, <1>18, <1>19, <1>20, <1>21, <1>22, <1>23, <1>24, <1>25,
     <1>26, <1>27, <1>28 DEF Next, Step

\* Nothing a process is told changes while it has the gate.
LEMMA ToldStep == TypeOK /\ LocksInv /\ JobInv /\ PointInv /\ ToldInv /\ [Next]_vars => ToldInv'
<1> SUFFICES ASSUME TypeOK /\ LocksInv /\ JobInv /\ PointInv /\ ToldInv, [Next]_vars PROVE ToldInv'
  OBVIOUS
<1> USE StoreAssumption DEF At, Goto, End, locks, store, TypeOK, LocksInv, PointInv,
        ToldInv, PointedPlaces, GatePlaces, SharePlaces, LockPlaces
<1>1. ASSUME NEW p \in Pids, Begin(p) PROVE ToldInv'
  <2>1. /\ pc' = [pc EXCEPT ![p] = pc'[p]] /\ pc[p] = "off" /\ pc'[p] \in {"look", "gate"}
        /\ job' = [job EXCEPT ![p] = job'[p]] /\ run' = [run EXCEPT ![p] = run'[p]]
        /\ pc'[p] = "gate" => job'[p] \in {"start", "resume", "cleanup"}
        /\ job'[p] = "resume" => run'[p] \in Runs
    BY <1>1 DEF Begin
  <2>2. \A live \in Runs \X Pids : Driver(live) => Driver(live)'
    BY <2>1 DEF Driver
  <2>. QED
    BY <1>1, <2>1, <2>2 DEF Begin
<1>2. ASSUME NEW p \in Pids, TakeGate(p) PROVE ToldInv'
  BY <1>2 DEF TakeGate, Driver
<1>3. ASSUME NEW p \in Pids, TakeLock(p) PROVE ToldInv'
  <2>1. pc' = [pc EXCEPT ![p] = pc'[p]] /\ pc'[p] \in {"stale", "load", "clean"}
    BY <1>3 DEF TakeLock, JobInv
  <2>. QED
    BY <1>3, <2>1 DEF TakeLock
<1>4. ASSUME NEW p \in Pids, Refused(p) PROVE ToldInv'
  <2>1. lock \in Pids /\ lock # p /\ pc[lock] \notin GatePlaces
    BY <1>4 DEF Refused
  <2>2. current = <<run[lock], lock>> /\ pc[lock] \in {"drive", "leave"}
    BY <2>1, LiveDriver
  <2>3. current \in Runs \X Pids /\ current # None /\ Driver(current)
    BY <2>2, <2>1 DEF Driver, JobInv, RunPlaces
  <2>4. \A live \in Runs \X Pids : Driver(live) => Driver(live)'
    BY <1>4 DEF Refused, Driver
  <2>. QED
    BY <1>4, <2>3, <2>4 DEF Refused
<1>5. ASSUME NEW p \in Pids, LeaveGate(p) PROVE ToldInv'
  BY <1>5 DEF LeaveGate, Driver
<1>6. ASSUME NEW p \in Pids, GiveUp(p) PROVE ToldInv'
  BY <1>6 DEF GiveUp, Driver
<1>7. ASSUME NEW p \in Pids, ClearStale(p) PROVE ToldInv'
  BY <1>7 DEF ClearStale, Driver
<1>8. ASSUME NEW p \in Pids, Create(p) PROVE ToldInv'
  BY <1>8 DEF Create, Driver
<1>9. ASSUME NEW p \in Pids, Load(p) PROVE ToldInv'
  BY <1>9 DEF Load, Driver
<1>10. ASSUME NEW p \in Pids, Mend(p) PROVE ToldInv'
  BY <1>10 DEF Mend, Driver
<1>11. ASSUME NEW p \in Pids, ClearAbort(p) PROVE ToldInv'
  BY <1>11 DEF ClearAbort, Driver
<1>12. ASSUME NEW p \in Pids, SetCurrent(p) PROVE ToldInv'
  BY <1>12 DEF SetCurrent, Driver
<1>13. ASSUME NEW p \in Pids, Publish(p) PROVE ToldInv'
  BY <1>13 DEF Publish, Driver
<1>14. ASSUME NEW p \in Pids, Clean(p) PROVE ToldInv'
  BY <1>14 DEF Clean, Driver
<1>15. ASSUME NEW p \in Pids, Record(p) PROVE ToldInv'
  BY <1>15 DEF Record, Driver
<1>16. ASSUME NEW p \in Pids, StopNow(p) PROVE ToldInv'
  BY <1>16 DEF StopNow, Driver
<1>17. ASSUME NEW p \in Pids, Aborts(p) PROVE ToldInv'
  BY <1>17 DEF Aborts, Driver
<1>18. ASSUME NEW p \in Pids, Returns(p) PROVE ToldInv'
  BY <1>18 DEF Returns, Driver
<1>19. ASSUME NEW p \in Pids, Regate(p) PROVE ToldInv'
  BY <1>19 DEF Regate, Driver
<1>20. ASSUME NEW p \in Pids, ClearCurrent(p) PROVE ToldInv'
  BY <1>20 DEF ClearCurrent, Driver
<1>21. ASSUME NEW p \in Pids, Unlock(p) PROVE ToldInv'
  BY <1>21 DEF Unlock, Driver
<1>22. ASSUME NEW p \in Pids, ShareGate(p) PROVE ToldInv'
  BY <1>22 DEF ShareGate, Driver
<1>23. ASSUME NEW p \in Pids, Probe(p) PROVE ToldInv'
  <2>1. \A live \in Runs \X Pids : Driver(live) => Driver(live)'
    BY <1>23 DEF Probe, Driver
  <2>2. CASE lock = None
    <3>1. \A q \in Pids : pc[q] \notin {"drive", "leave"}
      BY <2>2
    <3>2. /\ pc[p] = "probe" /\ pc' = [pc EXCEPT ![p] = "seen"]
          /\ UNCHANGED <<run, told, current>>
      BY <1>23, <2>2 DEF Probe
    <3>3. told[p] = None /\ \A q \in Pids : pc'[q] \notin {"drive", "leave"}
      BY <3>1, <3>2
    <3>4. told'[p] = None /\ pc'[p] = "seen"
      BY <3>2, <3>3
    <3>5. ASSUME NEW q \in Pids, q # p
          PROVE  /\ told'[q] = told[q] /\ pc'[q] = pc[q]
                 /\ told[q] # None => told[q] \in Runs \X Pids
                 /\ current # None => current \in Runs \X Pids
      BY <3>2, <3>5
    <3>6. current' = current
      BY <3>2
    <3>. QED
      BY <2>1, <3>3, <3>4, <3>5, <3>6, SMTT(30)
  <2>3. CASE lock # None
    <3>1. lock \in Pids /\ lock # p /\ pc[lock] \notin GatePlaces
      BY <1>23, <2>3 DEF Probe
    <3>2. current = <<run[lock], lock>> /\ pc[lock] \in {"drive", "leave"}
      BY <3>1, LiveDriver
    <3>3. current \in Runs \X Pids /\ current # None /\ Driver(current)
      BY <3>1, <3>2 DEF Driver, JobInv, RunPlaces
    <3>4. /\ pc[p] = "probe" /\ pc' = [pc EXCEPT ![p] = "read"]
          /\ UNCHANGED <<run, told, current>>
      BY <1>23, <2>3 DEF Probe
    <3>. QED
      BY <2>1, <3>3, <3>4, SMTT(30)
  <2>. QED
    BY <2>2, <2>3
<1>24. ASSUME NEW p \in Pids, ReadCurrent(p) PROVE ToldInv'
  BY <1>24 DEF ReadCurrent, Driver
<1>25. ASSUME NEW p \in Pids, Unshare(p) PROVE ToldInv'
  <2>1. /\ pc[p] = "seen" /\ pc'[p] \in {"done", "mark"} /\ pc' = [pc EXCEPT ![p] = pc'[p]]
        /\ told' = [told EXCEPT ![p] = told'[p]] /\ current' = current
        /\ run' = [run EXCEPT ![p] = run'[p]]
        /\ pc'[p] = "done" => told'[p] = None
        /\ pc'[p] = "mark" => told'[p] # None
    BY <1>25 DEF Unshare
  <2>2. \A live \in Runs \X Pids : Driver(live) => Driver(live)'
    BY <2>1 DEF Driver
  <2>. QED
    BY <2>1, <2>2
<1>26. ASSUME NEW p \in Pids, MarkAbort(p) PROVE ToldInv'
  <2>1. /\ pc' = [pc EXCEPT ![p] = "done"] /\ told' = [told EXCEPT ![p] = None]
        /\ run' = [run EXCEPT ![p] = None] /\ current' = current /\ pc[p] = "mark"
    BY <1>26 DEF MarkAbort
  <2>2. \A live \in Runs \X Pids : Driver(live) => Driver(live)'
    BY <2>1 DEF Driver
  <2>. QED
    BY <2>1, <2>2
<1>27. ASSUME NEW p \in Pids, Crash(p) PROVE ToldInv'
  BY <1>27 DEF Crash, Driver
<1>28. CASE UNCHANGED vars
  BY <1>28 DEF vars, locks, store, Driver
<1>29. QED
  BY <1>1, <1>2, <1>3, <1>4, <1>5, <1>6, <1>7, <1>8, <1>9, <1>10, <1>11, <1>12, <1>13,
     <1>14, <1>15, <1>16, <1>17, <1>18, <1>19, <1>20, <1>21, <1>22, <1>23, <1>24, <1>25,
     <1>26, <1>27, <1>28 DEF Next, Step

\* Only who takes a run up removes its marker.
LEMMA AskedStep == TypeOK /\ LocksInv /\ JobInv /\ AskedInv /\ [Next]_vars => AskedInv'
<1> SUFFICES ASSUME TypeOK /\ LocksInv /\ JobInv /\ AskedInv, [Next]_vars PROVE AskedInv'
  OBVIOUS
<1> USE StoreAssumption DEF At, Goto, End, locks, store, TypeOK, LocksInv, AskedInv,
        JobInv, GatePlaces, SharePlaces, LockPlaces
<1>1. ASSUME NEW p \in Pids, Begin(p) PROVE AskedInv'
  BY <1>1 DEF Begin
<1>2. ASSUME NEW p \in Pids, TakeGate(p) PROVE AskedInv'
  BY <1>2 DEF TakeGate
<1>3. ASSUME NEW p \in Pids, TakeLock(p) PROVE AskedInv'
  BY <1>3 DEF TakeLock
<1>4. ASSUME NEW p \in Pids, Refused(p) PROVE AskedInv'
  BY <1>4 DEF Refused
<1>5. ASSUME NEW p \in Pids, LeaveGate(p) PROVE AskedInv'
  BY <1>5 DEF LeaveGate
<1>6. ASSUME NEW p \in Pids, GiveUp(p) PROVE AskedInv'
  BY <1>6 DEF GiveUp
<1>7. ASSUME NEW p \in Pids, ClearStale(p) PROVE AskedInv'
  BY <1>7 DEF ClearStale
<1>8. ASSUME NEW p \in Pids, Create(p) PROVE AskedInv'
  BY <1>8 DEF Create
<1>9. ASSUME NEW p \in Pids, Load(p) PROVE AskedInv'
  BY <1>9 DEF Load
<1>10. ASSUME NEW p \in Pids, Mend(p) PROVE AskedInv'
  BY <1>10 DEF Mend
<1>11. ASSUME NEW p \in Pids, ClearAbort(p) PROVE AskedInv'
  <2>1. \A q \in Pids : ~At(q, "drive")
    BY <1>11 DEF ClearAbort
  <2>. QED
    BY <1>11, <2>1 DEF ClearAbort
<1>12. ASSUME NEW p \in Pids, SetCurrent(p) PROVE AskedInv'
  BY <1>12 DEF SetCurrent
<1>13. ASSUME NEW p \in Pids, Publish(p) PROVE AskedInv'
  BY <1>13 DEF Publish
<1>14. ASSUME NEW p \in Pids, Clean(p) PROVE AskedInv'
  BY <1>14 DEF Clean
<1>15. ASSUME NEW p \in Pids, Record(p) PROVE AskedInv'
  BY <1>15 DEF Record
<1>16. ASSUME NEW p \in Pids, StopNow(p) PROVE AskedInv'
  BY <1>16 DEF StopNow
<1>17. ASSUME NEW p \in Pids, Aborts(p) PROVE AskedInv'
  BY <1>17 DEF Aborts
<1>18. ASSUME NEW p \in Pids, Returns(p) PROVE AskedInv'
  BY <1>18 DEF Returns
<1>19. ASSUME NEW p \in Pids, Regate(p) PROVE AskedInv'
  BY <1>19 DEF Regate
<1>20. ASSUME NEW p \in Pids, ClearCurrent(p) PROVE AskedInv'
  BY <1>20 DEF ClearCurrent
<1>21. ASSUME NEW p \in Pids, Unlock(p) PROVE AskedInv'
  BY <1>21 DEF Unlock
<1>22. ASSUME NEW p \in Pids, ShareGate(p) PROVE AskedInv'
  BY <1>22 DEF ShareGate
<1>23. ASSUME NEW p \in Pids, Probe(p) PROVE AskedInv'
  BY <1>23 DEF Probe
<1>24. ASSUME NEW p \in Pids, ReadCurrent(p) PROVE AskedInv'
  BY <1>24 DEF ReadCurrent
<1>25. ASSUME NEW p \in Pids, Unshare(p) PROVE AskedInv'
  BY <1>25 DEF Unshare
<1>26. ASSUME NEW p \in Pids, MarkAbort(p) PROVE AskedInv'
  BY <1>26 DEF MarkAbort
<1>27. ASSUME NEW p \in Pids, Crash(p) PROVE AskedInv'
  BY <1>27 DEF Crash
<1>28. CASE UNCHANGED vars
  BY <1>28 DEF vars, locks, store
<1>29. QED
  BY <1>1, <1>2, <1>3, <1>4, <1>5, <1>6, <1>7, <1>8, <1>9, <1>10, <1>11, <1>12, <1>13,
     <1>14, <1>15, <1>16, <1>17, <1>18, <1>19, <1>20, <1>21, <1>22, <1>23, <1>24, <1>25,
     <1>26, <1>27, <1>28 DEF Next, Step

\* The types hold.
LEMMA TypeStep == TypeOK /\ JobInv /\ ToldInv /\ [Next]_vars => TypeOK'
<1> SUFFICES ASSUME TypeOK /\ JobInv /\ ToldInv, [Next]_vars PROVE TypeOK'
  OBVIOUS
<1> USE StoreAssumption DEF At, Goto, End, locks, store, TypeOK, JobInv, RunPlaces, Places
<1>1. ASSUME NEW p \in Pids, Begin(p) PROVE TypeOK'
  BY <1>1 DEF Begin
<1>2. ASSUME NEW p \in Pids, TakeGate(p) PROVE TypeOK'
  BY <1>2 DEF TakeGate
<1>3. ASSUME NEW p \in Pids, TakeLock(p) PROVE TypeOK'
  BY <1>3 DEF TakeLock
<1>4. ASSUME NEW p \in Pids, Refused(p) PROVE TypeOK'
  BY <1>4 DEF Refused
<1>5. ASSUME NEW p \in Pids, LeaveGate(p) PROVE TypeOK'
  BY <1>5 DEF LeaveGate
<1>6. ASSUME NEW p \in Pids, GiveUp(p) PROVE TypeOK'
  BY <1>6 DEF GiveUp
<1>7. ASSUME NEW p \in Pids, ClearStale(p) PROVE TypeOK'
  BY <1>7 DEF ClearStale
<1>8. ASSUME NEW p \in Pids, Create(p) PROVE TypeOK'
  BY <1>8 DEF Create
<1>9. ASSUME NEW p \in Pids, Load(p) PROVE TypeOK'
  BY <1>9 DEF Load
<1>10. ASSUME NEW p \in Pids, Mend(p) PROVE TypeOK'
  <2>1. run[p] \in Runs /\ AppendTo(run[p], "event")
    BY <1>10 DEF Mend
  <2>2. log' \in [Runs -> Logs] /\ writes' \in Nat
    BY <2>1, AppendType DEF Kinded
  <2>. QED
    BY <1>10, <2>2 DEF Mend
<1>11. ASSUME NEW p \in Pids, ClearAbort(p) PROVE TypeOK'
  BY <1>11 DEF ClearAbort
<1>12. ASSUME NEW p \in Pids, SetCurrent(p) PROVE TypeOK'
  BY <1>12 DEF SetCurrent
<1>13. ASSUME NEW p \in Pids, Publish(p) PROVE TypeOK'
  BY <1>13 DEF Publish
<1>14. ASSUME NEW p \in Pids, Clean(p) PROVE TypeOK'
  <2>1. PICK r \in made : AppendTo(r, "event")
    BY <1>14 DEF Clean
  <2>2. log' \in [Runs -> Logs] /\ writes' \in Nat
    BY <2>1, AppendType DEF Kinded
  <2>. QED
    BY <1>14, <2>2 DEF Clean
<1>15. ASSUME NEW p \in Pids, Record(p) PROVE TypeOK'
  <2>1. run[p] \in Runs
    BY <1>15 DEF Record
  <2>2. PICK kind \in Kinds : AppendTo(run[p], kind)
    BY <1>15 DEF Record
  <2>3. kind \in Kinded
    BY DEF Kinded
  <2>4. log' \in [Runs -> Logs] /\ writes' \in Nat
    BY <2>1, <2>2, <2>3, AppendType
  <2>. QED
    BY <1>15, <2>4 DEF Record
<1>16. ASSUME NEW p \in Pids, StopNow(p) PROVE TypeOK'
  BY <1>16 DEF StopNow
<1>17. ASSUME NEW p \in Pids, Aborts(p) PROVE TypeOK'
  BY <1>17 DEF Aborts
<1>18. ASSUME NEW p \in Pids, Returns(p) PROVE TypeOK'
  BY <1>18 DEF Returns
<1>19. ASSUME NEW p \in Pids, Regate(p) PROVE TypeOK'
  BY <1>19 DEF Regate
<1>20. ASSUME NEW p \in Pids, ClearCurrent(p) PROVE TypeOK'
  BY <1>20 DEF ClearCurrent
<1>21. ASSUME NEW p \in Pids, Unlock(p) PROVE TypeOK'
  BY <1>21 DEF Unlock
<1>22. ASSUME NEW p \in Pids, ShareGate(p) PROVE TypeOK'
  BY <1>22 DEF ShareGate
<1>23. ASSUME NEW p \in Pids, Probe(p) PROVE TypeOK'
  BY <1>23 DEF Probe
<1>24. ASSUME NEW p \in Pids, ReadCurrent(p) PROVE TypeOK'
  BY <1>24 DEF ReadCurrent
<1>25. ASSUME NEW p \in Pids, Unshare(p) PROVE TypeOK'
  BY <1>25 DEF Unshare
<1>26. ASSUME NEW p \in Pids, MarkAbort(p) PROVE TypeOK'
  <2>1. told[p] \in Runs \X Pids
    BY <1>26 DEF MarkAbort, ToldInv
  <2>2. marked' \subseteq Runs /\ asked' \subseteq Pids
    BY <1>26, <2>1 DEF MarkAbort
  <2>. QED
    BY <1>26, <2>2 DEF MarkAbort
<1>27. ASSUME NEW p \in Pids, Crash(p) PROVE TypeOK'
  BY <1>27 DEF Crash
<1>28. CASE UNCHANGED vars
  BY <1>28 DEF vars, locks, store
<1>29. QED
  BY <1>1, <1>2, <1>3, <1>4, <1>5, <1>6, <1>7, <1>8, <1>9, <1>10, <1>11, <1>12, <1>13,
     <1>14, <1>15, <1>16, <1>17, <1>18, <1>19, <1>20, <1>21, <1>22, <1>23, <1>24, <1>25,
     <1>26, <1>27, <1>28 DEF Next, Step

\* The logs that can be loaded.
Sound(l) ==
  /\ l \in Logs
  /\ l.lines \in Seq(Records)
  /\ l.tail = "whole" => l.last \in Records

\* What the logs say: all can be loaded, that of a run to come is empty, and the
\* run of a process that is about to drive has not finished.
LogInv ==
  /\ \A r \in Runs : Sound(log[r])
  /\ \A r \in Runs \ made : log[r] = NoLog
  /\ \A p \in Pids : run[p] # None => run[p] \in made
  /\ \A p \in Pids : pc[p] \in {"mend", "point", "publish"} => ~Finished(log[run[p]])

\* An append, whole or not, leaves a log that can be loaded, and a load answers
\* what it did before, and perhaps the new record.
LEMMA AppendSound ==
  ASSUME TypeOK, LogInv, NEW r \in Runs, NEW kind \in Kinded, AppendTo(r, kind)
  PROVE  /\ Sound(log'[r])
         /\ \A q \in Runs : q # r => log'[q] = log[q]
         /\ \/ Loaded(log'[r]) = Loaded(log[r])
            \/ Loaded(log'[r]) = Append(Loaded(log[r]), <<writes', kind>>)
<1>1. writes' \in Nat \ {0} /\ <<writes', kind>> \in Records
  BY DEF TypeOK, AppendTo, Records, Kinded
<1>2. PICK wrote \in Parts :
        log' = [log EXCEPT ![r] = Written(Repaired(log[r]), <<writes', kind>>, wrote)]
  BY DEF AppendTo, TypeOK
<1> DEFINE l == log[r]
           rec == <<writes', kind>>
           k == Repaired(l)
<1>3. log'[r] = Written(k, rec, wrote) /\ \A q \in Runs : q # r => log'[q] = log[q]
  BY <1>2 DEF TypeOK
<1>4. Sound(k) /\ k.tail # "part"
  BY DEF LogInv, Sound, Logs, Repaired
<1>5. Sound(Written(k, rec, wrote))
  <2>1. Written(k, rec, wrote) \in Logs
    BY <1>1, WrittenLog DEF TypeOK
  <2>2. LinesEnded(k) \in Seq(Records)
    BY <1>4 DEF LinesEnded, Sound, Logs
  <2>3. CASE wrote = "none"
    BY <2>3, <1>4 DEF Written
  <2>4. CASE wrote = "break"
    <3>1. Written(k, rec, wrote) = [lines |-> LinesEnded(k), tail |-> "none", last |-> Broken]
      BY <2>4 DEF Written
    <3>. QED
      BY <2>1, <2>2, <3>1 DEF Sound
  <2>5. CASE wrote \in {"part", "whole"}
    <3>1. Written(k, rec, wrote) = [lines |-> LinesEnded(k), tail |-> wrote, last |-> rec]
      BY <2>5 DEF Written
    <3>. QED
      BY <1>1, <2>1, <2>2, <3>1 DEF Sound
  <2>6. CASE wrote = "all"
    <3>1. Written(k, rec, wrote)
          = [lines |-> Append(LinesEnded(k), rec), tail |-> "none", last |-> Broken]
      BY <2>6 DEF Written
    <3>2. Append(LinesEnded(k), rec) \in Seq(Records)
      BY <1>1, <2>2
    <3>3. Written(k, rec, wrote).lines \in Seq(Records) /\ Written(k, rec, wrote).tail = "none"
      BY <3>1, <3>2
    <3>. QED
      BY <2>1, <3>3 DEF Sound
  <2>. QED
    BY <2>3, <2>4, <2>5, <2>6 DEF Parts
<1>. QED
  BY <1>1, <1>3, <1>5, WrittenLog DEF TypeOK

\* An event does not finish a run.
LEMMA EventKeepsOpen ==
  ASSUME NEW l, NEW k, NEW n, Sound(l), ~Finished(l),
         Loaded(k) = Loaded(l) \/ Loaded(k) = Append(Loaded(l), <<n, "event">>)
  PROVE  ~Finished(k)
<1>1. Loaded(l) \in Seq(Records)
  BY DEF Loaded, Sound, Logs
<1>2. CASE Loaded(k) = Loaded(l)
  BY <1>2 DEF Finished
<1>3. CASE Loaded(k) = Append(Loaded(l), <<n, "event">>)
  BY <1>1, <1>3 DEF Finished
<1>. QED
  BY <1>2, <1>3

\* Every step keeps the logs sound, and the run of who will drive unfinished.
LEMMA LogStep == TypeOK /\ LocksInv /\ JobInv /\ LogInv /\ [Next]_vars => LogInv'
<1> SUFFICES ASSUME TypeOK /\ LocksInv /\ JobInv /\ LogInv, [Next]_vars PROVE LogInv'
  OBVIOUS
<1> USE StoreAssumption DEF At, Goto, End, locks, store, TypeOK, LogInv
<1>1. ASSUME NEW p \in Pids, Begin(p) PROVE LogInv'
  <2>1. /\ pc' = [pc EXCEPT ![p] = pc'[p]] /\ pc'[p] \in {"look", "gate"}
        /\ run' = [run EXCEPT ![p] = run'[p]]
        /\ run'[p] \in made \cup {run[p]}
    BY <1>1 DEF Begin
  <2>. QED
    BY <1>1, <2>1 DEF Begin
<1>2. ASSUME NEW p \in Pids, TakeGate(p) PROVE LogInv'
  BY <1>2 DEF TakeGate
<1>3. ASSUME NEW p \in Pids, TakeLock(p) PROVE LogInv'
  <2>1. pc' = [pc EXCEPT ![p] = pc'[p]] /\ pc'[p] \in {"stale", "load", "clean"}
    BY <1>3 DEF TakeLock, JobInv
  <2>. QED
    BY <1>3, <2>1 DEF TakeLock
<1>4. ASSUME NEW p \in Pids, Refused(p) PROVE LogInv'
  BY <1>4 DEF Refused
<1>5. ASSUME NEW p \in Pids, LeaveGate(p) PROVE LogInv'
  BY <1>5 DEF LeaveGate
<1>6. ASSUME NEW p \in Pids, GiveUp(p) PROVE LogInv'
  BY <1>6 DEF GiveUp
<1>7. ASSUME NEW p \in Pids, ClearStale(p) PROVE LogInv'
  BY <1>7 DEF ClearStale
<1>8. ASSUME NEW p \in Pids, Create(p) PROVE LogInv'
  <2>1. PICK r \in Runs \ made : made' = made \cup {r} /\ run' = [run EXCEPT ![p] = r]
    BY <1>8 DEF Create
  <2>2. log[r] = NoLog /\ ~Finished(NoLog)
    BY <2>1 DEF Finished, Loaded, NoLog
  <2>3. \A q \in Pids \ {p} : pc[q] \notin {"mend", "point", "publish"}
    BY <1>8 DEF Create, LocksInv, LockPlaces
  <2>. QED
    BY <1>8, <2>1, <2>2, <2>3 DEF Create
<1>9. ASSUME NEW p \in Pids, Load(p) PROVE LogInv'
  BY <1>9 DEF Load
<1>10. ASSUME NEW p \in Pids, Mend(p) PROVE LogInv'
  <2>1. pc[p] = "mend" /\ run[p] \in Runs /\ run[p] \in made /\ AppendTo(run[p], "event")
    BY <1>10 DEF Mend, JobInv, RunPlaces
  <2>2. /\ Sound(log'[run[p]])
        /\ \A q \in Runs : q # run[p] => log'[q] = log[q]
        /\ \/ Loaded(log'[run[p]]) = Loaded(log[run[p]])
           \/ Loaded(log'[run[p]]) = Append(Loaded(log[run[p]]), <<writes', "event">>)
    BY <2>1, AppendSound DEF Kinded
  <2>3. ~Finished(log'[run[p]])
    BY <2>1, <2>2, EventKeepsOpen
  <2>4. \A q \in Pids \ {p} : pc[q] \notin {"mend", "point", "publish"}
    BY <1>10 DEF Mend, LocksInv, LockPlaces
  <2>. QED
    BY <1>10, <2>1, <2>2, <2>3, <2>4 DEF Mend
<1>11. ASSUME NEW p \in Pids, ClearAbort(p) PROVE LogInv'
  BY <1>11 DEF ClearAbort
<1>12. ASSUME NEW p \in Pids, SetCurrent(p) PROVE LogInv'
  BY <1>12 DEF SetCurrent
<1>13. ASSUME NEW p \in Pids, Publish(p) PROVE LogInv'
  BY <1>13 DEF Publish
<1>14. ASSUME NEW p \in Pids, Clean(p) PROVE LogInv'
  <2>1. PICK r \in made : AppendTo(r, "event")
    BY <1>14 DEF Clean
  <2>2. r \in Runs
    BY <2>1
  <2>3. "event" \in Kinded
    BY DEF Kinded
  <2>4. Sound(log'[r]) /\ \A q \in Runs : q # r => log'[q] = log[q]
    BY <2>1, <2>2, <2>3, AppendSound
  <2>5. \A q \in Pids : pc[q] \notin {"mend", "point", "publish"}
    BY <1>14 DEF Clean, LocksInv, LockPlaces
  <2>. QED
    BY <1>14, <2>1, <2>2, <2>4, <2>5 DEF Clean
<1>15. ASSUME NEW p \in Pids, Record(p) PROVE LogInv'
  <2>1. run[p] \in Runs /\ run[p] \in made
    BY <1>15 DEF Record, JobInv, RunPlaces
  <2>2. PICK kind \in Kinds : AppendTo(run[p], kind)
    BY <1>15 DEF Record
  <2>3. kind \in Kinded
    BY DEF Kinded
  <2>4. Sound(log'[run[p]]) /\ \A q \in Runs : q # run[p] => log'[q] = log[q]
    BY <2>1, <2>2, <2>3, AppendSound
  <2>5. \A q \in Pids : pc[q] \notin {"mend", "point", "publish"}
    BY <1>15 DEF Record, LocksInv, LockPlaces
  <2>. QED
    BY <1>15, <2>1, <2>4, <2>5 DEF Record
<1>16. ASSUME NEW p \in Pids, StopNow(p) PROVE LogInv'
  BY <1>16 DEF StopNow
<1>17. ASSUME NEW p \in Pids, Aborts(p) PROVE LogInv'
  BY <1>17 DEF Aborts
<1>18. ASSUME NEW p \in Pids, Returns(p) PROVE LogInv'
  BY <1>18 DEF Returns
<1>19. ASSUME NEW p \in Pids, Regate(p) PROVE LogInv'
  BY <1>19 DEF Regate
<1>20. ASSUME NEW p \in Pids, ClearCurrent(p) PROVE LogInv'
  BY <1>20 DEF ClearCurrent
<1>21. ASSUME NEW p \in Pids, Unlock(p) PROVE LogInv'
  BY <1>21 DEF Unlock
<1>22. ASSUME NEW p \in Pids, ShareGate(p) PROVE LogInv'
  BY <1>22 DEF ShareGate
<1>23. ASSUME NEW p \in Pids, Probe(p) PROVE LogInv'
  BY <1>23 DEF Probe
<1>24. ASSUME NEW p \in Pids, ReadCurrent(p) PROVE LogInv'
  BY <1>24 DEF ReadCurrent
<1>25. ASSUME NEW p \in Pids, Unshare(p) PROVE LogInv'
  BY <1>25 DEF Unshare
<1>26. ASSUME NEW p \in Pids, MarkAbort(p) PROVE LogInv'
  BY <1>26 DEF MarkAbort
<1>27. ASSUME NEW p \in Pids, Crash(p) PROVE LogInv'
  BY <1>27 DEF Crash
<1>28. CASE UNCHANGED vars
  BY <1>28 DEF vars, locks, store
<1>29. QED
  BY <1>1, <1>2, <1>3, <1>4, <1>5, <1>6, <1>7, <1>8, <1>9, <1>10, <1>11, <1>12, <1>13,
     <1>14, <1>15, <1>16, <1>17, <1>18, <1>19, <1>20, <1>21, <1>22, <1>23, <1>24, <1>25,
     <1>26, <1>27, <1>28 DEF Next, Step

\* What holds at every step.
IInv == TypeOK /\ LocksInv /\ JobInv /\ PointInv /\ ToldInv /\ AskedInv /\ LogInv

LEMMA InitInv == Init => IInv
<1> SUFFICES ASSUME Init PROVE IInv
  OBVIOUS
<1> USE StoreAssumption DEF Init
<1>1. NoLog \in Logs /\ Sound(NoLog)
  BY DEF NoLog, Logs, Sound
<1>2. TypeOK
  BY <1>1 DEF TypeOK, Places
<1>3. LocksInv /\ JobInv /\ PointInv
  BY DEF LocksInv, JobInv, PointInv, GatePlaces, SharePlaces, LockPlaces, RunPlaces, PointedPlaces
<1>4. ToldInv /\ AskedInv
  BY DEF ToldInv, AskedInv, At
<1>5. LogInv
  BY <1>1 DEF LogInv
<1>. QED
  BY <1>2, <1>3, <1>4, <1>5 DEF IInv

LEMMA NextInv == IInv /\ [Next]_vars => IInv'
  BY TypeStep, LocksStep, JobStep, PointStep, ToldStep, AskedStep, LogStep DEF IInv

\* The inductive invariant holds in every state the commands reach, whatever
\* Store.Lock, Publish, Release, Live and Append are called in between by others.
THEOREM Invariance == Spec => []IInv
<1>1. Init => IInv
  BY InitInv
<1>2. IInv /\ [Next]_vars => IInv'
  BY NextInv
<1>. QED
  BY <1>1, <1>2, PTL DEF Spec

\* The state keeps its types, for any number of commands and runs.
THEOREM StoreTypeCorrect == Spec => []TypeOK
<1>1. IInv => TypeOK
  BY DEF IInv
<1>. QED
  BY <1>1, Invariance, PTL

\* A driver has the lock and the pointer names it, so that one process drives at
\* most (Lock, Publish and Release in store.go).
THEOREM DriverPublished == Spec => []Published
<1>1. IInv => Published
  BY DEF IInv, Published, LocksInv, PointInv, LockPlaces, PointedPlaces
<1>. QED
  BY <1>1, Invariance, PTL

\* Who is said to be live is, or has been killed since (Live, and Lock refused).
THEOREM LiveTold == Spec => []Tells
<1>1. IInv => Tells
  BY DEF IInv, Tells, Holds, LocksInv, ToldInv, Driver, GatePlaces, SharePlaces, At
<1>. QED
  BY <1>1, Invariance, PTL

\* No run is taken up again that its records say has finished (Resume).
THEOREM ResumedIsOpen == Spec => []ResumesOpen
<1>1. IInv => ResumesOpen
  BY DEF IInv, ResumesOpen, LogInv, At
<1>. QED
  BY <1>1, Invariance, PTL

\* No marker meant for a driver is removed while it drives (ClearAbort).
THEOREM AbortKept == Spec => []AbortHeld
<1>1. IInv => AbortHeld
  BY DEF IInv, AbortHeld, AskedInv
<1>. QED
  BY <1>1, Invariance, PTL

\* Every log can be loaded, after any sequence of appends cut short (Append).
THEOREM LogsLoad == Spec => []Loads
<1>1. ASSUME IInv PROVE Loads
  <2>1. Broken \notin Records
    BY DEF Broken, Records
  <2>. QED
    BY <1>1, <2>1 DEF IInv, LogInv, Loads, Sound
<1>. QED
  BY <1>1, Invariance, PTL

\* What a load of r has answered, it answers from then on.
Stays(r) ==
  \A i \in DOMAIN Loaded(log[r]) :
    /\ i \in DOMAIN Loaded(log'[r])
    /\ Loaded(log'[r])[i] = Loaded(log[r])[i]

LEMMA AppendStays ==
  ASSUME TypeOK, LogInv, NEW r \in Runs, NEW kind \in Kinded, AppendTo(r, kind)
  PROVE  \A q \in Runs : Stays(q)
<1>1. Loaded(log[r]) \in Seq(Records)
  BY DEF LogInv, Sound, Logs, Loaded
<1>2. \A q \in Runs : q # r => log'[q] = log[q]
  BY AppendSound
<1>3. \/ Loaded(log'[r]) = Loaded(log[r])
      \/ Loaded(log'[r]) = Append(Loaded(log[r]), <<writes', kind>>)
  BY AppendSound
<1>4. Stays(r)
  BY <1>1, <1>3 DEF Stays
<1>. QED
  BY <1>2, <1>4 DEF Stays

\* No append takes back a record that was read (Append, readRecords): neither one
\* that a killed process left whole at the end of a log, nor any before it.
THEOREM ReadRecordsStay == Spec => ReadStays
<1>1. ASSUME IInv, [Next]_vars PROVE \A r \in Runs : Stays(r)
  <2> USE <1>1, StoreAssumption
  <2>1. ASSUME NEW p \in Pids, Mend(p) PROVE \A r \in Runs : Stays(r)
    <3>1. run[p] \in Runs /\ AppendTo(run[p], "event")
      BY <2>1 DEF Mend, At, IInv, JobInv, RunPlaces
    <3>. QED
      BY <3>1, AppendStays DEF IInv, Kinded
  <2>2. ASSUME NEW p \in Pids, Clean(p) PROVE \A r \in Runs : Stays(r)
    <3>1. PICK r \in made : AppendTo(r, "event")
      BY <2>2 DEF Clean
    <3>2. r \in Runs
      BY <3>1 DEF IInv, TypeOK
    <3>. QED
      BY <3>1, <3>2, AppendStays DEF IInv, Kinded
  <2>3. ASSUME NEW p \in Pids, Record(p) PROVE \A r \in Runs : Stays(r)
    <3>1. run[p] \in Runs
      BY <2>3 DEF Record, At, IInv, JobInv, RunPlaces
    <3>2. PICK kind \in Kinds : AppendTo(run[p], kind)
      BY <2>3 DEF Record
    <3>3. kind \in Kinded
      BY DEF Kinded
    <3>. QED
      BY <3>1, <3>2, <3>3, AppendStays DEF IInv
  <2>4. ASSUME log' = log PROVE \A r \in Runs : Stays(r)
    BY <2>4 DEF Stays
  <2>5. (\E p \in Pids : Mend(p) \/ Clean(p) \/ Record(p)) \/ log' = log
    BY DEF Next, Step, vars, store, Begin, TakeGate, TakeLock, Refused, LeaveGate, GiveUp,
           ClearStale, Create, Load, ClearAbort, SetCurrent, Publish, StopNow, Aborts, Returns,
           Regate, ClearCurrent, Unlock, ShareGate, Probe, ReadCurrent, Unshare, MarkAbort,
           Crash
  <2>. QED
    BY <2>1, <2>2, <2>3, <2>4, <2>5
<1>2. ASSUME IInv, [Next]_vars
      PROVE  [\A r \in Runs : \A i \in DOMAIN Loaded(log[r]) :
                /\ i \in DOMAIN Loaded(log'[r])
                /\ Loaded(log'[r])[i] = Loaded(log[r])[i]]_vars
  BY <1>1, <1>2 DEF Stays
<1>. QED
  BY <1>2, Invariance, PTL DEF Spec, ReadStays

=============================================================================
