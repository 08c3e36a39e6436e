-------------------------- MODULE RuntimeState_proofs --------------------------
(***************************************************************************)
(* The PID file, the override and the snapshot, for any daemons, commands  *)
(* and AFTRs.                                                              *)
(***************************************************************************)
EXTENDS RuntimeState, TLAPS

\* A daemon at these points has the lock of the file it has opened ...
Holding == {"locked", "cleaned", "armed", "pass", "publish", "asleep", "stopping",
            "stat", "unlink", "close"}
\* ... and at these it has its signal handler, or has gone.
Ready == {"pass", "publish", "asleep", "stopping", "stat", "unlink", "close", "dead"}

LockInv ==
    \A d \in Daemon :
        /\ pc[d] = "opened" => fd[d] \in Daemon
        /\ pc[d] \in Holding => fd[d] \in Daemon /\ lock[fd[d]] = d
        /\ pc[d] = "unlink" => path = fd[d]

OneInv ==
    overlap # "twice" =>
        \A d, e \in Daemon : pc[d] \in Holding /\ pc[e] \in Holding => d = e

\* No PID can be read or known but that of a daemon that is, or was, ready.
PidInv ==
    /\ \A f \in Daemon : content[f] # Nothing => pc[content[f]] \in Ready
    /\ \A c \in Command : target[c] # Nothing => pc[target[c]] \in Ready
    /\ \A c \in Command : cmd[c] = "addressed" => target[c] # Nothing

AloneInv ==
    overlap = "no" =>
        \A d, e \in Daemon : pc[d] \notin Gone /\ pc[e] \notin Gone => d = e

\* The file of that name is the one the daemon has opened, and has its PID.
FileInv ==
    overlap = "no" =>
        \A d \in Daemon :
            /\ pc[d] \notin Gone \cup {"close"} => path = fd[d]
            /\ pc[d] \in {"pass", "publish", "asleep"} => content[fd[d]] = d

\* A change the daemon has not read is on its way.
HeardInv ==
    overlap = "no" =>
        \A d \in Daemon :
            pc[d] \in {"publish", "asleep"} /\ ~usr1[d]
                => \/ seen[d] = override
                   \/ \E c \in Command : \/ cmd[c] = "written"
                                         \/ cmd[c] = "addressed" /\ target[c] = d

\* A locked file is its holder's, and the PID in a file is its holder's, or that of a
\* daemon that has died with nobody in its place.
OwnerInv ==
    \A f \in Daemon :
        /\ lock[f] # Nothing => pc[lock[f]] \in Holding /\ fd[lock[f]] = f
        /\ content[f] # Nothing =>
              \/ lock[f] = content[f]
              \/ lock[f] = Nothing /\ pc[content[f]] = "dead"

Inv ==
    /\ TypeOK /\ LockInv /\ OneInv /\ SnapshotIsOwn
    /\ PidInv /\ RefreshIsHarmless
    /\ AloneInv /\ FileInv /\ HeardInv /\ OwnerInv
-------------------------------------------------------------------------------
\* A lock is taken by the process that has opened the file, and leaves with it.
LEMMA HeldStep ==
    ASSUME TypeOK, [Next]_vars
    PROVE  LocksAreHeld'
<1> USE RuntimeAssumption DEF Move, daemons, files, TypeOK, LocksAreHeld, Gone
<1>1. ASSUME NEW d \in Daemon, Open(d) PROVE LocksAreHeld'
    BY <1>1 DEF Open
<1>2. ASSUME NEW d \in Daemon, Refused(d) PROVE LocksAreHeld'
    BY <1>2 DEF Refused
<1>3. ASSUME NEW d \in Daemon, Lock(d) PROVE LocksAreHeld'
    BY <1>3 DEF Lock
<1>4. ASSUME NEW d \in Daemon, RemoveStatus(d) PROVE LocksAreHeld'
    BY <1>4 DEF RemoveStatus
<1>5. ASSUME NEW d \in Daemon, InstallHandlers(d) PROVE LocksAreHeld'
    BY <1>5 DEF InstallHandlers
<1>6. ASSUME NEW d \in Daemon, MarkReady(d) PROVE LocksAreHeld'
    BY <1>6 DEF MarkReady
<1>7. ASSUME NEW d \in Daemon, ReadOverride(d) PROVE LocksAreHeld'
    BY <1>7 DEF ReadOverride
<1>8. ASSUME NEW d \in Daemon, Publish(d) PROVE LocksAreHeld'
    BY <1>8 DEF Publish
<1>9. ASSUME NEW d \in Daemon, WakeOnRefresh(d) PROVE LocksAreHeld'
    BY <1>9 DEF WakeOnRefresh
<1>10. ASSUME NEW d \in Daemon, Stop(d) PROVE LocksAreHeld'
    BY <1>10 DEF Stop
<1>11. ASSUME NEW d \in Daemon, Finish(d) PROVE LocksAreHeld'
    BY <1>11 DEF Finish
<1>12. ASSUME NEW d \in Daemon, Fail(d) PROVE LocksAreHeld'
    BY <1>12 DEF Fail
<1>13. ASSUME NEW d \in Daemon, Stat(d) PROVE LocksAreHeld'
    BY <1>13 DEF Stat
<1>14. ASSUME NEW d \in Daemon, Unlink(d) PROVE LocksAreHeld'
    BY <1>14 DEF Unlink
<1>15. ASSUME NEW d \in Daemon, Close(d) PROVE LocksAreHeld'
    BY <1>15 DEF Close, Unlocked
<1>16. ASSUME NEW d \in Daemon, Crash(d) PROVE LocksAreHeld'
    BY <1>16 DEF Crash, Unlocked
<1>17. ASSUME NEW c \in Command, Write(c) PROVE LocksAreHeld'
    BY <1>17 DEF Write
<1>18. ASSUME NEW c \in Command, WriteFails(c) PROVE LocksAreHeld'
    BY <1>18 DEF WriteFails
<1>19. ASSUME NEW c \in Command, ShowStatus(c) PROVE LocksAreHeld'
    BY <1>19 DEF ShowStatus
<1>20. ASSUME NEW c \in Command, ReadPid(c) PROVE LocksAreHeld'
    BY <1>20 DEF ReadPid
<1>21. ASSUME NEW c \in Command, Signal(c) PROVE LocksAreHeld'
    BY <1>21 DEF Signal, Unlocked
<1>22. CASE UNCHANGED vars
    BY <1>22 DEF vars
<1>23. QED
    BY <1>1, <1>2, <1>3, <1>4, <1>5, <1>6, <1>7, <1>8, <1>9, <1>10, <1>11,
       <1>12, <1>13, <1>14, <1>15, <1>16, <1>17, <1>18, <1>19, <1>20, <1>21, <1>22 DEF Next

\* Every step keeps the types.
LEMMA TypeStep ==
    ASSUME TypeOK, [Next]_vars
    PROVE  TypeOK'
<1>0. LocksAreHeld'
    BY HeldStep
<1> USE <1>0 DEF Move, daemons, files, TypeOK
<1>1. ASSUME NEW d \in Daemon, Open(d) PROVE TypeOK'
    BY <1>1, RuntimeAssumption DEF Open
<1>2. ASSUME NEW d \in Daemon, Refused(d) PROVE TypeOK'
    BY <1>2 DEF Refused
<1>3. ASSUME NEW d \in Daemon, Lock(d) PROVE TypeOK'
    BY <1>3 DEF Lock
<1>4. ASSUME NEW d \in Daemon, RemoveStatus(d) PROVE TypeOK'
    BY <1>4 DEF RemoveStatus
<1>5. ASSUME NEW d \in Daemon, InstallHandlers(d) PROVE TypeOK'
    BY <1>5 DEF InstallHandlers
<1>6. ASSUME NEW d \in Daemon, MarkReady(d) PROVE TypeOK'
    BY <1>6 DEF MarkReady
<1>7. ASSUME NEW d \in Daemon, ReadOverride(d) PROVE TypeOK'
    BY <1>7 DEF ReadOverride
<1>8. ASSUME NEW d \in Daemon, Publish(d) PROVE TypeOK'
    BY <1>8 DEF Publish
<1>9. ASSUME NEW d \in Daemon, WakeOnRefresh(d) PROVE TypeOK'
    BY <1>9 DEF WakeOnRefresh
<1>10. ASSUME NEW d \in Daemon, Stop(d) PROVE TypeOK'
    BY <1>10 DEF Stop
<1>11. ASSUME NEW d \in Daemon, Finish(d) PROVE TypeOK'
    BY <1>11 DEF Finish
<1>12. ASSUME NEW d \in Daemon, Fail(d) PROVE TypeOK'
    BY <1>12 DEF Fail
<1>13. ASSUME NEW d \in Daemon, Stat(d) PROVE TypeOK'
    BY <1>13 DEF Stat
<1>14. ASSUME NEW d \in Daemon, Unlink(d) PROVE TypeOK'
    BY <1>14 DEF Unlink
<1>15. ASSUME NEW d \in Daemon, Close(d) PROVE TypeOK'
    BY <1>15 DEF Close, Unlocked
<1>16. ASSUME NEW d \in Daemon, Crash(d) PROVE TypeOK'
    BY <1>16 DEF Crash, Unlocked
<1>17. ASSUME NEW c \in Command, Write(c) PROVE TypeOK'
    BY <1>17 DEF Write
<1>18. ASSUME NEW c \in Command, WriteFails(c) PROVE TypeOK'
    BY <1>18 DEF WriteFails
<1>19. ASSUME NEW c \in Command, ShowStatus(c) PROVE TypeOK'
    BY <1>19 DEF ShowStatus
<1>20. ASSUME NEW c \in Command, ReadPid(c) PROVE TypeOK'
    BY <1>20 DEF ReadPid
<1>21. ASSUME NEW c \in Command, Signal(c) PROVE TypeOK'
  <2> DEFINE t == target[c]
  <2>1. UNCHANGED <<fd, seen, path, content, override, status, target, overlap>>
      BY <1>21 DEF Signal
  <2>2. cmd' \in [Command -> {"idle", "written", "addressed", "ok", "failed"}]
    <3>1. cmd' = [cmd EXCEPT ![c] = "failed"] \/ cmd' = [cmd EXCEPT ![c] = "ok"]
        BY <1>21 DEF Signal
    <3>2. QED BY <3>1
  <2>3. pc' = pc \/ pc' = [pc EXCEPT ![t] = "slain"]
      BY <1>21 DEF Signal
  <2>4. usr1' = usr1 \/ usr1' = [usr1 EXCEPT ![t] = TRUE]
      BY <1>21 DEF Signal
  <2>5. lock' = lock \/ lock' = Unlocked(t)
      BY <1>21 DEF Signal
  <2>6. lock' \in [Daemon -> Daemon \cup {Nothing}]
      BY <2>5 DEF Unlocked
  <2>7. QED BY <2>1, <2>2, <2>3, <2>4, <2>6
<1>22. CASE UNCHANGED vars
    BY <1>22 DEF vars
<1>23. QED
    BY <1>1, <1>2, <1>3, <1>4, <1>5, <1>6, <1>7, <1>8, <1>9, <1>10, <1>11,
       <1>12, <1>13, <1>14, <1>15, <1>16, <1>17, <1>18, <1>19, <1>20, <1>21, <1>22 DEF Next

\* A lock has one holder, and only one daemon at a time can be about to unlink
\* the file of that name.
LEMMA LockStep ==
    ASSUME TypeOK, LockInv, [Next]_vars
    PROVE  LockInv'
<1> USE DEF Move, daemons, files, TypeOK, LockInv, Holding
<1>1. ASSUME NEW d \in Daemon, Open(d) PROVE LockInv'
    BY <1>1, RuntimeAssumption DEF Open
<1>2. ASSUME NEW d \in Daemon, Refused(d) PROVE LockInv'
    BY <1>2 DEF Refused
<1>3. ASSUME NEW d \in Daemon, Lock(d) PROVE LockInv'
    BY <1>3, RuntimeAssumption DEF Lock
<1>4. ASSUME NEW d \in Daemon, RemoveStatus(d) PROVE LockInv'
    BY <1>4 DEF RemoveStatus
<1>5. ASSUME NEW d \in Daemon, InstallHandlers(d) PROVE LockInv'
    BY <1>5 DEF InstallHandlers
<1>6. ASSUME NEW d \in Daemon, MarkReady(d) PROVE LockInv'
    BY <1>6 DEF MarkReady
<1>7. ASSUME NEW d \in Daemon, ReadOverride(d) PROVE LockInv'
    BY <1>7 DEF ReadOverride
<1>8. ASSUME NEW d \in Daemon, Publish(d) PROVE LockInv'
    BY <1>8 DEF Publish
<1>9. ASSUME NEW d \in Daemon, WakeOnRefresh(d) PROVE LockInv'
    BY <1>9 DEF WakeOnRefresh
<1>10. ASSUME NEW d \in Daemon, Stop(d) PROVE LockInv'
    BY <1>10 DEF Stop
<1>11. ASSUME NEW d \in Daemon, Finish(d) PROVE LockInv'
    BY <1>11 DEF Finish
<1>12. ASSUME NEW d \in Daemon, Fail(d) PROVE LockInv'
    BY <1>12 DEF Fail
<1>13. ASSUME NEW d \in Daemon, Stat(d) PROVE LockInv'
    BY <1>13 DEF Stat
<1>14. ASSUME NEW d \in Daemon, Unlink(d) PROVE LockInv'
    BY <1>14 DEF Unlink
<1>15. ASSUME NEW d \in Daemon, Close(d) PROVE LockInv'
    BY <1>15 DEF Close, Unlocked
<1>16. ASSUME NEW d \in Daemon, Crash(d) PROVE LockInv'
    BY <1>16 DEF Crash, Unlocked
<1>17. ASSUME NEW c \in Command, Write(c) PROVE LockInv'
    BY <1>17 DEF Write
<1>18. ASSUME NEW c \in Command, WriteFails(c) PROVE LockInv'
    BY <1>18 DEF WriteFails
<1>19. ASSUME NEW c \in Command, ShowStatus(c) PROVE LockInv'
    BY <1>19 DEF ShowStatus
<1>20. ASSUME NEW c \in Command, ReadPid(c) PROVE LockInv'
    BY <1>20 DEF ReadPid
<1>21. ASSUME NEW c \in Command, Signal(c) PROVE LockInv'
    BY <1>21 DEF Signal, Unlocked
<1>22. CASE UNCHANGED vars
    BY <1>22 DEF vars
<1>23. QED
    BY <1>1, <1>2, <1>3, <1>4, <1>5, <1>6, <1>7, <1>8, <1>9, <1>10, <1>11,
       <1>12, <1>13, <1>14, <1>15, <1>16, <1>17, <1>18, <1>19, <1>20, <1>21, <1>22 DEF Next

\* Locks held at different times only keep the daemons apart.
LEMMA OneStep ==
    ASSUME TypeOK, LockInv, OneInv, [Next]_vars
    PROVE  OneInv'
<1> USE DEF Move, daemons, files, TypeOK, LockInv, OneInv, Holding
<1>1. ASSUME NEW d \in Daemon, Open(d) PROVE OneInv'
    BY <1>1 DEF Open
<1>2. ASSUME NEW d \in Daemon, Refused(d) PROVE OneInv'
    BY <1>2 DEF Refused
<1>3. ASSUME NEW d \in Daemon, Lock(d) PROVE OneInv'
    BY <1>3, RuntimeAssumption DEF Lock
<1>4. ASSUME NEW d \in Daemon, RemoveStatus(d) PROVE OneInv'
    BY <1>4 DEF RemoveStatus
<1>5. ASSUME NEW d \in Daemon, InstallHandlers(d) PROVE OneInv'
    BY <1>5 DEF InstallHandlers
<1>6. ASSUME NEW d \in Daemon, MarkReady(d) PROVE OneInv'
    BY <1>6 DEF MarkReady
<1>7. ASSUME NEW d \in Daemon, ReadOverride(d) PROVE OneInv'
    BY <1>7 DEF ReadOverride
<1>8. ASSUME NEW d \in Daemon, Publish(d) PROVE OneInv'
    BY <1>8 DEF Publish
<1>9. ASSUME NEW d \in Daemon, WakeOnRefresh(d) PROVE OneInv'
    BY <1>9 DEF WakeOnRefresh
<1>10. ASSUME NEW d \in Daemon, Stop(d) PROVE OneInv'
    BY <1>10 DEF Stop
<1>11. ASSUME NEW d \in Daemon, Finish(d) PROVE OneInv'
    BY <1>11 DEF Finish
<1>12. ASSUME NEW d \in Daemon, Fail(d) PROVE OneInv'
    BY <1>12 DEF Fail
<1>13. ASSUME NEW d \in Daemon, Stat(d) PROVE OneInv'
    BY <1>13 DEF Stat
<1>14. ASSUME NEW d \in Daemon, Unlink(d) PROVE OneInv'
    BY <1>14 DEF Unlink
<1>15. ASSUME NEW d \in Daemon, Close(d) PROVE OneInv'
    BY <1>15 DEF Close, Unlocked
<1>16. ASSUME NEW d \in Daemon, Crash(d) PROVE OneInv'
    BY <1>16 DEF Crash, Unlocked
<1>17. ASSUME NEW c \in Command, Write(c) PROVE OneInv'
    BY <1>17 DEF Write
<1>18. ASSUME NEW c \in Command, WriteFails(c) PROVE OneInv'
    BY <1>18 DEF WriteFails
<1>19. ASSUME NEW c \in Command, ShowStatus(c) PROVE OneInv'
    BY <1>19 DEF ShowStatus
<1>20. ASSUME NEW c \in Command, ReadPid(c) PROVE OneInv'
    BY <1>20 DEF ReadPid
<1>21. ASSUME NEW c \in Command, Signal(c) PROVE OneInv'
    BY <1>21 DEF Signal, Unlocked
<1>22. CASE UNCHANGED vars
    BY <1>22 DEF vars
<1>23. QED
    BY <1>1, <1>2, <1>3, <1>4, <1>5, <1>6, <1>7, <1>8, <1>9, <1>10, <1>11,
       <1>12, <1>13, <1>14, <1>15, <1>16, <1>17, <1>18, <1>19, <1>20, <1>21, <1>22 DEF Next

\* Whoever touches the snapshot holds a lock.
LEMMA SnapshotStep ==
    ASSUME TypeOK, OneInv, SnapshotIsOwn, [Next]_vars
    PROVE  SnapshotIsOwn'
<1> USE DEF Move, daemons, files, TypeOK, OneInv, SnapshotIsOwn, Holding
<1>1. ASSUME NEW d \in Daemon, Open(d) PROVE SnapshotIsOwn'
    BY <1>1 DEF Open
<1>2. ASSUME NEW d \in Daemon, Refused(d) PROVE SnapshotIsOwn'
    BY <1>2 DEF Refused
<1>3. ASSUME NEW d \in Daemon, Lock(d) PROVE SnapshotIsOwn'
    BY <1>3 DEF Lock
<1>4. ASSUME NEW d \in Daemon, RemoveStatus(d) PROVE SnapshotIsOwn'
    BY <1>4 DEF RemoveStatus
<1>5. ASSUME NEW d \in Daemon, InstallHandlers(d) PROVE SnapshotIsOwn'
    BY <1>5 DEF InstallHandlers
<1>6. ASSUME NEW d \in Daemon, MarkReady(d) PROVE SnapshotIsOwn'
    BY <1>6 DEF MarkReady
<1>7. ASSUME NEW d \in Daemon, ReadOverride(d) PROVE SnapshotIsOwn'
    BY <1>7 DEF ReadOverride
<1>8. ASSUME NEW d \in Daemon, Publish(d) PROVE SnapshotIsOwn'
    BY <1>8 DEF Publish
<1>9. ASSUME NEW d \in Daemon, WakeOnRefresh(d) PROVE SnapshotIsOwn'
    BY <1>9 DEF WakeOnRefresh
<1>10. ASSUME NEW d \in Daemon, Stop(d) PROVE SnapshotIsOwn'
    BY <1>10 DEF Stop
<1>11. ASSUME NEW d \in Daemon, Finish(d) PROVE SnapshotIsOwn'
    BY <1>11 DEF Finish
<1>12. ASSUME NEW d \in Daemon, Fail(d) PROVE SnapshotIsOwn'
    BY <1>12 DEF Fail
<1>13. ASSUME NEW d \in Daemon, Stat(d) PROVE SnapshotIsOwn'
    BY <1>13 DEF Stat
<1>14. ASSUME NEW d \in Daemon, Unlink(d) PROVE SnapshotIsOwn'
    BY <1>14 DEF Unlink
<1>15. ASSUME NEW d \in Daemon, Close(d) PROVE SnapshotIsOwn'
    BY <1>15 DEF Close, Unlocked
<1>16. ASSUME NEW d \in Daemon, Crash(d) PROVE SnapshotIsOwn'
    BY <1>16 DEF Crash, Unlocked
<1>17. ASSUME NEW c \in Command, Write(c) PROVE SnapshotIsOwn'
    BY <1>17 DEF Write
<1>18. ASSUME NEW c \in Command, WriteFails(c) PROVE SnapshotIsOwn'
    BY <1>18 DEF WriteFails
<1>19. ASSUME NEW c \in Command, ShowStatus(c) PROVE SnapshotIsOwn'
    BY <1>19 DEF ShowStatus
<1>20. ASSUME NEW c \in Command, ReadPid(c) PROVE SnapshotIsOwn'
    BY <1>20 DEF ReadPid
<1>21. ASSUME NEW c \in Command, Signal(c) PROVE SnapshotIsOwn'
    BY <1>21 DEF Signal, Unlocked
<1>22. CASE UNCHANGED vars
    BY <1>22 DEF vars
<1>23. QED
    BY <1>1, <1>2, <1>3, <1>4, <1>5, <1>6, <1>7, <1>8, <1>9, <1>10, <1>11,
       <1>12, <1>13, <1>14, <1>15, <1>16, <1>17, <1>18, <1>19, <1>20, <1>21, <1>22 DEF Next

\* A PID in a file, or on its way to kill, is that of a daemon past MarkReady.
LEMMA PidStep ==
    ASSUME TypeOK, PidInv, [Next]_vars
    PROVE  PidInv'
<1> USE DEF Move, daemons, files, TypeOK, PidInv, Ready
<1>1. ASSUME NEW d \in Daemon, Open(d) PROVE PidInv'
    BY <1>1 DEF Open
<1>2. ASSUME NEW d \in Daemon, Refused(d) PROVE PidInv'
    BY <1>2 DEF Refused
<1>3. ASSUME NEW d \in Daemon, Lock(d) PROVE PidInv'
    BY <1>3 DEF Lock
<1>4. ASSUME NEW d \in Daemon, RemoveStatus(d) PROVE PidInv'
    BY <1>4 DEF RemoveStatus
<1>5. ASSUME NEW d \in Daemon, InstallHandlers(d) PROVE PidInv'
    BY <1>5 DEF InstallHandlers
<1>6. ASSUME NEW d \in Daemon, MarkReady(d) PROVE PidInv'
    BY <1>6 DEF MarkReady
<1>7. ASSUME NEW d \in Daemon, ReadOverride(d) PROVE PidInv'
    BY <1>7 DEF ReadOverride
<1>8. ASSUME NEW d \in Daemon, Publish(d) PROVE PidInv'
    BY <1>8 DEF Publish
<1>9. ASSUME NEW d \in Daemon, WakeOnRefresh(d) PROVE PidInv'
    BY <1>9 DEF WakeOnRefresh
<1>10. ASSUME NEW d \in Daemon, Stop(d) PROVE PidInv'
    BY <1>10 DEF Stop
<1>11. ASSUME NEW d \in Daemon, Finish(d) PROVE PidInv'
    BY <1>11 DEF Finish
<1>12. ASSUME NEW d \in Daemon, Fail(d) PROVE PidInv'
    BY <1>12 DEF Fail
<1>13. ASSUME NEW d \in Daemon, Stat(d) PROVE PidInv'
    BY <1>13 DEF Stat
<1>14. ASSUME NEW d \in Daemon, Unlink(d) PROVE PidInv'
    BY <1>14 DEF Unlink
<1>15. ASSUME NEW d \in Daemon, Close(d) PROVE PidInv'
    BY <1>15 DEF Close, Unlocked
<1>16. ASSUME NEW d \in Daemon, Crash(d) PROVE PidInv'
    BY <1>16 DEF Crash, Unlocked
<1>17. ASSUME NEW c \in Command, Write(c) PROVE PidInv'
    BY <1>17 DEF Write
<1>18. ASSUME NEW c \in Command, WriteFails(c) PROVE PidInv'
    BY <1>18 DEF WriteFails
<1>19. ASSUME NEW c \in Command, ShowStatus(c) PROVE PidInv'
    BY <1>19 DEF ShowStatus
<1>20. ASSUME NEW c \in Command, ReadPid(c) PROVE PidInv'
    BY <1>20 DEF ReadPid
<1>21. ASSUME NEW c \in Command, Signal(c) PROVE PidInv'
    BY <1>21 DEF Signal, Unlocked
<1>22. CASE UNCHANGED vars
    BY <1>22 DEF vars
<1>23. QED
    BY <1>1, <1>2, <1>3, <1>4, <1>5, <1>6, <1>7, <1>8, <1>9, <1>10, <1>11,
       <1>12, <1>13, <1>14, <1>15, <1>16, <1>17, <1>18, <1>19, <1>20, <1>21, <1>22 DEF Next

\* So the signal meets a handler, or nobody.
LEMMA HarmlessStep ==
    ASSUME TypeOK, PidInv, RefreshIsHarmless, [Next]_vars
    PROVE  RefreshIsHarmless'
<1> USE DEF Move, daemons, files, TypeOK, PidInv, RefreshIsHarmless, Ready
<1>1. ASSUME NEW d \in Daemon, Open(d) PROVE RefreshIsHarmless'
    BY <1>1 DEF Open
<1>2. ASSUME NEW d \in Daemon, Refused(d) PROVE RefreshIsHarmless'
    BY <1>2 DEF Refused
<1>3. ASSUME NEW d \in Daemon, Lock(d) PROVE RefreshIsHarmless'
    BY <1>3 DEF Lock
<1>4. ASSUME NEW d \in Daemon, RemoveStatus(d) PROVE RefreshIsHarmless'
    BY <1>4 DEF RemoveStatus
<1>5. ASSUME NEW d \in Daemon, InstallHandlers(d) PROVE RefreshIsHarmless'
    BY <1>5 DEF InstallHandlers
<1>6. ASSUME NEW d \in Daemon, MarkReady(d) PROVE RefreshIsHarmless'
    BY <1>6 DEF MarkReady
<1>7. ASSUME NEW d \in Daemon, ReadOverride(d) PROVE RefreshIsHarmless'
    BY <1>7 DEF ReadOverride
<1>8. ASSUME NEW d \in Daemon, Publish(d) PROVE RefreshIsHarmless'
    BY <1>8 DEF Publish
<1>9. ASSUME NEW d \in Daemon, WakeOnRefresh(d) PROVE RefreshIsHarmless'
    BY <1>9 DEF WakeOnRefresh
<1>10. ASSUME NEW d \in Daemon, Stop(d) PROVE RefreshIsHarmless'
    BY <1>10 DEF Stop
<1>11. ASSUME NEW d \in Daemon, Finish(d) PROVE RefreshIsHarmless'
    BY <1>11 DEF Finish
<1>12. ASSUME NEW d \in Daemon, Fail(d) PROVE RefreshIsHarmless'
    BY <1>12 DEF Fail
<1>13. ASSUME NEW d \in Daemon, Stat(d) PROVE RefreshIsHarmless'
    BY <1>13 DEF Stat
<1>14. ASSUME NEW d \in Daemon, Unlink(d) PROVE RefreshIsHarmless'
    BY <1>14 DEF Unlink
<1>15. ASSUME NEW d \in Daemon, Close(d) PROVE RefreshIsHarmless'
    BY <1>15 DEF Close, Unlocked
<1>16. ASSUME NEW d \in Daemon, Crash(d) PROVE RefreshIsHarmless'
    BY <1>16 DEF Crash, Unlocked
<1>17. ASSUME NEW c \in Command, Write(c) PROVE RefreshIsHarmless'
    BY <1>17 DEF Write
<1>18. ASSUME NEW c \in Command, WriteFails(c) PROVE RefreshIsHarmless'
    BY <1>18 DEF WriteFails
<1>19. ASSUME NEW c \in Command, ShowStatus(c) PROVE RefreshIsHarmless'
    BY <1>19 DEF ShowStatus
<1>20. ASSUME NEW c \in Command, ReadPid(c) PROVE RefreshIsHarmless'
    BY <1>20 DEF ReadPid
<1>21. ASSUME NEW c \in Command, Signal(c) PROVE RefreshIsHarmless'
    BY <1>21 DEF Signal, Unlocked
<1>22. CASE UNCHANGED vars
    BY <1>22 DEF vars
<1>23. QED
    BY <1>1, <1>2, <1>3, <1>4, <1>5, <1>6, <1>7, <1>8, <1>9, <1>10, <1>11,
       <1>12, <1>13, <1>14, <1>15, <1>16, <1>17, <1>18, <1>19, <1>20, <1>21, <1>22 DEF Next

\* As long as no daemon is started beside another, there is one at most.
LEMMA AloneStep ==
    ASSUME TypeOK, AloneInv, [Next]_vars
    PROVE  AloneInv'
<1> USE DEF Move, daemons, files, TypeOK, AloneInv, Gone
<1>1. ASSUME NEW d \in Daemon, Open(d) PROVE AloneInv'
    BY <1>1 DEF Open
<1>2. ASSUME NEW d \in Daemon, Refused(d) PROVE AloneInv'
    BY <1>2 DEF Refused
<1>3. ASSUME NEW d \in Daemon, Lock(d) PROVE AloneInv'
    BY <1>3 DEF Lock
<1>4. ASSUME NEW d \in Daemon, RemoveStatus(d) PROVE AloneInv'
    BY <1>4 DEF RemoveStatus
<1>5. ASSUME NEW d \in Daemon, InstallHandlers(d) PROVE AloneInv'
    BY <1>5 DEF InstallHandlers
<1>6. ASSUME NEW d \in Daemon, MarkReady(d) PROVE AloneInv'
    BY <1>6 DEF MarkReady
<1>7. ASSUME NEW d \in Daemon, ReadOverride(d) PROVE AloneInv'
    BY <1>7 DEF ReadOverride
<1>8. ASSUME NEW d \in Daemon, Publish(d) PROVE AloneInv'
    BY <1>8 DEF Publish
<1>9. ASSUME NEW d \in Daemon, WakeOnRefresh(d) PROVE AloneInv'
    BY <1>9 DEF WakeOnRefresh
<1>10. ASSUME NEW d \in Daemon, Stop(d) PROVE AloneInv'
    BY <1>10 DEF Stop
<1>11. ASSUME NEW d \in Daemon, Finish(d) PROVE AloneInv'
    BY <1>11 DEF Finish
<1>12. ASSUME NEW d \in Daemon, Fail(d) PROVE AloneInv'
    BY <1>12 DEF Fail
<1>13. ASSUME NEW d \in Daemon, Stat(d) PROVE AloneInv'
    BY <1>13 DEF Stat
<1>14. ASSUME NEW d \in Daemon, Unlink(d) PROVE AloneInv'
    BY <1>14 DEF Unlink
<1>15. ASSUME NEW d \in Daemon, Close(d) PROVE AloneInv'
    BY <1>15 DEF Close, Unlocked
<1>16. ASSUME NEW d \in Daemon, Crash(d) PROVE AloneInv'
    BY <1>16 DEF Crash, Unlocked
<1>17. ASSUME NEW c \in Command, Write(c) PROVE AloneInv'
    BY <1>17 DEF Write
<1>18. ASSUME NEW c \in Command, WriteFails(c) PROVE AloneInv'
    BY <1>18 DEF WriteFails
<1>19. ASSUME NEW c \in Command, ShowStatus(c) PROVE AloneInv'
    BY <1>19 DEF ShowStatus
<1>20. ASSUME NEW c \in Command, ReadPid(c) PROVE AloneInv'
    BY <1>20 DEF ReadPid
<1>21. ASSUME NEW c \in Command, Signal(c) PROVE AloneInv'
    BY <1>21 DEF Signal, Unlocked
<1>22. CASE UNCHANGED vars
    BY <1>22 DEF vars
<1>23. QED
    BY <1>1, <1>2, <1>3, <1>4, <1>5, <1>6, <1>7, <1>8, <1>9, <1>10, <1>11,
       <1>12, <1>13, <1>14, <1>15, <1>16, <1>17, <1>18, <1>19, <1>20, <1>21, <1>22 DEF Next

\* Nobody else creates or removes its PID file, or writes to it.
LEMMA FileStep ==
    ASSUME TypeOK, LockInv, AloneInv, FileInv, [Next]_vars
    PROVE  FileInv'
<1> USE DEF Move, daemons, files, TypeOK, LockInv, Holding, AloneInv, FileInv, Gone
<1>1. ASSUME NEW d \in Daemon, Open(d) PROVE FileInv'
    BY <1>1 DEF Open
<1>2. ASSUME NEW d \in Daemon, Refused(d) PROVE FileInv'
    BY <1>2 DEF Refused
<1>3. ASSUME NEW d \in Daemon, Lock(d) PROVE FileInv'
    BY <1>3 DEF Lock
<1>4. ASSUME NEW d \in Daemon, RemoveStatus(d) PROVE FileInv'
    BY <1>4 DEF RemoveStatus
<1>5. ASSUME NEW d \in Daemon, InstallHandlers(d) PROVE FileInv'
    BY <1>5 DEF InstallHandlers
<1>6. ASSUME NEW d \in Daemon, MarkReady(d) PROVE FileInv'
    BY <1>6 DEF MarkReady
<1>7. ASSUME NEW d \in Daemon, ReadOverride(d) PROVE FileInv'
    BY <1>7 DEF ReadOverride
<1>8. ASSUME NEW d \in Daemon, Publish(d) PROVE FileInv'
    BY <1>8 DEF Publish
<1>9. ASSUME NEW d \in Daemon, WakeOnRefresh(d) PROVE FileInv'
    BY <1>9 DEF WakeOnRefresh
<1>10. ASSUME NEW d \in Daemon, Stop(d) PROVE FileInv'
    BY <1>10 DEF Stop
<1>11. ASSUME NEW d \in Daemon, Finish(d) PROVE FileInv'
    BY <1>11 DEF Finish
<1>12. ASSUME NEW d \in Daemon, Fail(d) PROVE FileInv'
    BY <1>12 DEF Fail
<1>13. ASSUME NEW d \in Daemon, Stat(d) PROVE FileInv'
    BY <1>13 DEF Stat
<1>14. ASSUME NEW d \in Daemon, Unlink(d) PROVE FileInv'
    BY <1>14 DEF Unlink
<1>15. ASSUME NEW d \in Daemon, Close(d) PROVE FileInv'
    BY <1>15 DEF Close, Unlocked
<1>16. ASSUME NEW d \in Daemon, Crash(d) PROVE FileInv'
    BY <1>16 DEF Crash, Unlocked
<1>17. ASSUME NEW c \in Command, Write(c) PROVE FileInv'
    BY <1>17 DEF Write
<1>18. ASSUME NEW c \in Command, WriteFails(c) PROVE FileInv'
    BY <1>18 DEF WriteFails
<1>19. ASSUME NEW c \in Command, ShowStatus(c) PROVE FileInv'
    BY <1>19 DEF ShowStatus
<1>20. ASSUME NEW c \in Command, ReadPid(c) PROVE FileInv'
    BY <1>20 DEF ReadPid
<1>21. ASSUME NEW c \in Command, Signal(c) PROVE FileInv'
    BY <1>21 DEF Signal, Unlocked
<1>22. CASE UNCHANGED vars
    BY <1>22 DEF vars
<1>23. QED
    BY <1>1, <1>2, <1>3, <1>4, <1>5, <1>6, <1>7, <1>8, <1>9, <1>10, <1>11,
       <1>12, <1>13, <1>14, <1>15, <1>16, <1>17, <1>18, <1>19, <1>20, <1>21, <1>22 DEF Next

\* Each step of a command hands on what the daemon has not read yet.
LEMMA HeardStep ==
    ASSUME TypeOK, LockInv, FileInv, HeardInv, [Next]_vars
    PROVE  HeardInv'
<1> USE DEF Move, daemons, files, TypeOK, LockInv, Holding, FileInv, HeardInv, Gone
<1>1. ASSUME NEW d \in Daemon, Open(d) PROVE HeardInv'
    BY <1>1 DEF Open
<1>2. ASSUME NEW d \in Daemon, Refused(d) PROVE HeardInv'
    BY <1>2 DEF Refused
<1>3. ASSUME NEW d \in Daemon, Lock(d) PROVE HeardInv'
    BY <1>3 DEF Lock
<1>4. ASSUME NEW d \in Daemon, RemoveStatus(d) PROVE HeardInv'
    BY <1>4 DEF RemoveStatus
<1>5. ASSUME NEW d \in Daemon, InstallHandlers(d) PROVE HeardInv'
    BY <1>5 DEF InstallHandlers
<1>6. ASSUME NEW d \in Daemon, MarkReady(d) PROVE HeardInv'
    BY <1>6 DEF MarkReady
<1>7. ASSUME NEW d \in Daemon, ReadOverride(d) PROVE HeardInv'
    BY <1>7 DEF ReadOverride
<1>8. ASSUME NEW d \in Daemon, Publish(d) PROVE HeardInv'
    BY <1>8 DEF Publish
<1>9. ASSUME NEW d \in Daemon, WakeOnRefresh(d) PROVE HeardInv'
    BY <1>9 DEF WakeOnRefresh
<1>10. ASSUME NEW d \in Daemon, Stop(d) PROVE HeardInv'
    BY <1>10 DEF Stop
<1>11. ASSUME NEW d \in Daemon, Finish(d) PROVE HeardInv'
    BY <1>11 DEF Finish
<1>12. ASSUME NEW d \in Daemon, Fail(d) PROVE HeardInv'
    BY <1>12 DEF Fail
<1>13. ASSUME NEW d \in Daemon, Stat(d) PROVE HeardInv'
    BY <1>13 DEF Stat
<1>14. ASSUME NEW d \in Daemon, Unlink(d) PROVE HeardInv'
    BY <1>14 DEF Unlink
<1>15. ASSUME NEW d \in Daemon, Close(d) PROVE HeardInv'
    BY <1>15 DEF Close, Unlocked
<1>16. ASSUME NEW d \in Daemon, Crash(d) PROVE HeardInv'
    BY <1>16 DEF Crash, Unlocked
<1>17. ASSUME NEW c \in Command, Write(c) PROVE HeardInv'
    BY <1>17 DEF Write
<1>18. ASSUME NEW c \in Command, WriteFails(c) PROVE HeardInv'
    BY <1>18 DEF WriteFails
<1>19. ASSUME NEW c \in Command, ShowStatus(c) PROVE HeardInv'
    BY <1>19 DEF ShowStatus
<1>20. ASSUME NEW c \in Command, ReadPid(c) PROVE HeardInv'
    BY <1>20, RuntimeAssumption DEF ReadPid
<1>21. ASSUME NEW c \in Command, Signal(c) PROVE HeardInv'
    BY <1>21 DEF Signal, Unlocked
<1>22. CASE UNCHANGED vars
    BY <1>22 DEF vars
<1>23. QED
    BY <1>1, <1>2, <1>3, <1>4, <1>5, <1>6, <1>7, <1>8, <1>9, <1>10, <1>11,
       <1>12, <1>13, <1>14, <1>15, <1>16, <1>17, <1>18, <1>19, <1>20, <1>21, <1>22 DEF Next

\* A lock and a PID leave a file with their daemon: a new holder empties the file.
LEMMA OwnerStep ==
    ASSUME TypeOK, LockInv, PidInv, OwnerInv, [Next]_vars
    PROVE  OwnerInv'
<1> USE RuntimeAssumption DEF Move, daemons, files, TypeOK, LockInv, OwnerInv, Holding, Gone
<1>1. ASSUME NEW d \in Daemon, Open(d) PROVE OwnerInv'
    BY <1>1 DEF Open
<1>2. ASSUME NEW d \in Daemon, Refused(d) PROVE OwnerInv'
    BY <1>2 DEF Refused
<1>3. ASSUME NEW d \in Daemon, Lock(d) PROVE OwnerInv'
    BY <1>3 DEF Lock
<1>4. ASSUME NEW d \in Daemon, RemoveStatus(d) PROVE OwnerInv'
    BY <1>4 DEF RemoveStatus
<1>5. ASSUME NEW d \in Daemon, InstallHandlers(d) PROVE OwnerInv'
    BY <1>5 DEF InstallHandlers
<1>6. ASSUME NEW d \in Daemon, MarkReady(d) PROVE OwnerInv'
    BY <1>6 DEF MarkReady
<1>7. ASSUME NEW d \in Daemon, ReadOverride(d) PROVE OwnerInv'
    BY <1>7 DEF ReadOverride
<1>8. ASSUME NEW d \in Daemon, Publish(d) PROVE OwnerInv'
    BY <1>8 DEF Publish
<1>9. ASSUME NEW d \in Daemon, WakeOnRefresh(d) PROVE OwnerInv'
    BY <1>9 DEF WakeOnRefresh
<1>10. ASSUME NEW d \in Daemon, Stop(d) PROVE OwnerInv'
    BY <1>10 DEF Stop
<1>11. ASSUME NEW d \in Daemon, Finish(d) PROVE OwnerInv'
    BY <1>11 DEF Finish
<1>12. ASSUME NEW d \in Daemon, Fail(d) PROVE OwnerInv'
    BY <1>12 DEF Fail
<1>13. ASSUME NEW d \in Daemon, Stat(d) PROVE OwnerInv'
    BY <1>13 DEF Stat
<1>14. ASSUME NEW d \in Daemon, Unlink(d) PROVE OwnerInv'
    BY <1>14 DEF Unlink
<1>15. ASSUME NEW d \in Daemon, Close(d) PROVE OwnerInv'
    BY <1>15 DEF Close, Unlocked
<1>16. ASSUME NEW d \in Daemon, Crash(d) PROVE OwnerInv'
    BY <1>16 DEF Crash, Unlocked
<1>17. ASSUME NEW c \in Command, Write(c) PROVE OwnerInv'
    BY <1>17 DEF Write
<1>18. ASSUME NEW c \in Command, WriteFails(c) PROVE OwnerInv'
    BY <1>18 DEF WriteFails
<1>19. ASSUME NEW c \in Command, ShowStatus(c) PROVE OwnerInv'
    BY <1>19 DEF ShowStatus
<1>20. ASSUME NEW c \in Command, ReadPid(c) PROVE OwnerInv'
    BY <1>20 DEF ReadPid
<1>21. ASSUME NEW c \in Command, Signal(c) PROVE OwnerInv'
    BY <1>21 DEF Signal, Unlocked, PidInv, Ready
<1>22. CASE UNCHANGED vars
    BY <1>22 DEF vars
<1>23. QED
    BY <1>1, <1>2, <1>3, <1>4, <1>5, <1>6, <1>7, <1>8, <1>9, <1>10, <1>11,
       <1>12, <1>13, <1>14, <1>15, <1>16, <1>17, <1>18, <1>19, <1>20, <1>21, <1>22 DEF Next

-------------------------------------------------------------------------------
LEMMA Initially == Init => Inv
BY RuntimeAssumption
   DEF Init, Inv, TypeOK, LocksAreHeld, LockInv, OneInv, SnapshotIsOwn, PidInv, RefreshIsHarmless,
       AloneInv, FileInv, HeardInv, OwnerInv, Holding, Gone

LEMMA Invariance == Spec => []Inv
<1>1. Inv /\ [Next]_vars => Inv'
    BY TypeStep, LockStep, OneStep, SnapshotStep, PidStep, HarmlessStep, AloneStep,
       FileStep, HeardStep, OwnerStep DEF Inv
<1>2. QED
    BY Initially, <1>1, PTL DEF Spec

\* The variables of daemons, files and commands keep their types, and no lock
\* outlives its process.
THEOREM Types == Spec => []TypeOK
<1>1. Inv => TypeOK BY DEF Inv
<1>2. QED BY <1>1, Invariance, PTL

\* No daemon is ended by set-aftr or clear-aftr, whatever PID files killed daemons
\* have left and in whatever order commands and daemons proceed.
THEOREM Harmless == Spec => []RefreshIsHarmless
<1>1. Inv => RefreshIsHarmless BY DEF Inv
<1>2. QED BY <1>1, Invariance, PTL

\* The status file shows the running daemon, and neither one that was killed or
\* refused before it nor one that leaves, unless two have run at a time.
THEOREM OwnSnapshot == Spec => []SnapshotIsOwn
<1>1. Inv => SnapshotIsOwn BY DEF Inv
<1>2. QED BY <1>1, Invariance, PTL

\* Commands that have ended have been heard, for any number of them.
THEOREM Heard == Spec => []OverrideIsHeard
<1>1. Inv => OverrideIsHeard BY DEF Inv, HeardInv, OverrideIsHeard
<1>2. QED BY <1>1, Invariance, PTL

\* Only the daemon whose file has the name removes the name: nobody else can
\* have come between its look and its unlink.
THEOREM OwnFile == Spec => RemovesOwnFile
<1>1. Inv /\ [Next]_vars
        => [ path # Nothing /\ path' = Nothing
             => \E d \in Daemon : pc[d] = "unlink" /\ pc'[d] = "close" /\ fd[d] = path ]_vars
  <2> SUFFICES ASSUME Inv, Next, path # Nothing, path' = Nothing
               PROVE  \E d \in Daemon : pc[d] = "unlink" /\ pc'[d] = "close" /\ fd[d] = path
      OBVIOUS
  <2>1. PICK d \in Daemon : Unlink(d)
      BY DEF Next, Open, Refused, Lock, RemoveStatus, InstallHandlers, MarkReady,
             ReadOverride, Publish, WakeOnRefresh, Stop, Finish, Fail, Stat, Close, Crash,
             Write, WriteFails, ShowStatus, ReadPid, Signal, files
  <2>2. pc[d] = "unlink" /\ pc'[d] = "close"
      BY <2>1 DEF Unlink, Move, Inv, TypeOK
  <2>3. fd[d] = path
      BY <2>2 DEF Inv, LockInv
  <2>4. QED BY <2>2, <2>3
<1>2. QED
    BY <1>1, Invariance, PTL DEF Spec, RemovesOwnFile
-------------------------------------------------------------------------------
(***************************************************************************)
(* What remains of OneDaemon and AddressesLockHolder, which do not hold.   *)
(***************************************************************************)
\* A daemon past the lock can be found by the name until it takes the name away
\* itself, unless it has locked a file that had no name any more.
KeepsItsName ==
    [][ \A d \in Daemon :
            pc[d] \in Holding /\ path = fd[d]
              => path' = fd'[d] \/ (pc[d] = "unlink" /\ pc'[d] = "close") ]_vars

\* Two daemons past the lock have not locked the same file.
OnePerFile ==
    \A d, e \in Daemon : pc[d] \in Holding /\ pc[e] \in Holding /\ fd[d] = fd[e] => d = e

\* Who is addressed holds the lock, or is dead, with nobody in its place.
AddressesLockHolderUnlessDead ==
    [][ \A c \in Command :
            cmd[c] = "written" /\ cmd'[c] = "addressed"
              => \/ lock[path] = target'[c]
                 \/ lock[path] = Nothing /\ pc[target'[c]] = "dead" ]_vars

\* Whatever the order of starts and stops, each file's lock excludes: if two daemons
\* run, one of them has the lock of a file that the name does not lead to.
THEOREM OneDaemonPerFile == Spec => []OnePerFile
<1>1. Inv => OnePerFile BY DEF Inv, LockInv, OnePerFile
<1>2. QED BY <1>1, Invariance, PTL

\* No daemon takes another's name away, once that one has the lock of its file.
THEOREM RunningDaemonIsFound == Spec => KeepsItsName
<1>1. Inv /\ [Next]_vars
        => [ \A d \in Daemon :
                pc[d] \in Holding /\ path = fd[d]
                  => path' = fd'[d] \/ (pc[d] = "unlink" /\ pc'[d] = "close") ]_vars
  <2> SUFFICES ASSUME Inv, Next, NEW d \in Daemon, pc[d] \in Holding, path = fd[d],
                      path' # fd'[d]
               PROVE  pc[d] = "unlink" /\ pc'[d] = "close"
      OBVIOUS
  <2>1. fd[d] \in Daemon /\ lock[fd[d]] = d
      BY DEF Inv, LockInv
  <2>2. ASSUME NEW e \in Daemon, Open(e) PROVE FALSE
    <3>1. path' = path /\ fd' = [fd EXCEPT ![e] = path']
        BY <2>1, <2>2, RuntimeAssumption DEF Open
    <3>2. QED BY <3>1 DEF Inv, TypeOK
  <2>3. CASE \E e \in Daemon : Open(e)
      BY <2>2, <2>3
  <2>4. CASE \E e \in Daemon : Unlink(e)
    <3>1. PICK e \in Daemon : Unlink(e)
        BY <2>4
    <3>2. pc[e] = "unlink" /\ pc'[e] = "close"
        BY <3>1 DEF Unlink, Move, Inv, TypeOK
    <3>3. path = fd[e] /\ lock[fd[e]] = e
        BY <3>2 DEF Inv, LockInv, Holding
    <3>4. QED BY <2>1, <3>2, <3>3
  <2>5. \/ path' = path /\ fd' = fd
        \/ \E e \in Daemon : Open(e) \/ Unlink(e)
      BY DEF Next, Refused, Lock, RemoveStatus, InstallHandlers, MarkReady,
             ReadOverride, Publish, WakeOnRefresh, Stop, Finish, Fail, Stat, Close, Crash,
             Write, WriteFails, ShowStatus, ReadPid, Signal, files, daemons
  <2>6. QED BY <2>3, <2>4, <2>5
<1>2. QED
    BY <1>1, Invariance, PTL DEF Spec, KeepsItsName

\* A command never signals another process than the daemon that holds the lock,
\* but a dead one.
THEOREM OnlyTheDeadAreMistaken == Spec => AddressesLockHolderUnlessDead
<1>1. Inv /\ [Next]_vars
        => [ \A c \in Command :
                cmd[c] = "written" /\ cmd'[c] = "addressed"
                  => \/ lock[path] = target'[c]
                     \/ lock[path] = Nothing /\ pc[target'[c]] = "dead" ]_vars
  <2> SUFFICES ASSUME Inv, Next, NEW c \in Command, cmd[c] = "written", cmd'[c] = "addressed"
               PROVE  \/ lock[path] = target'[c]
                      \/ lock[path] = Nothing /\ pc[target'[c]] = "dead"
      OBVIOUS
  <2>1. cmd' # cmd
      OBVIOUS
  <2>2. PICK b \in Command :
            Write(b) \/ WriteFails(b) \/ ShowStatus(b) \/ ReadPid(b) \/ Signal(b)
      BY <2>1 DEF Next, Open, Refused, Lock, RemoveStatus, InstallHandlers, MarkReady,
             ReadOverride, Publish, WakeOnRefresh, Stop, Finish, Fail, Stat, Unlink, Close,
             Crash
  <2>3. ReadPid(b)
      BY <2>2 DEF Write, WriteFails, ShowStatus, Signal, Inv, TypeOK
  <2>4. b = c
      BY <2>3 DEF ReadPid, Inv, TypeOK
  <2>5. path # Nothing /\ content[path] # Nothing /\ target'[c] = content[path]
      BY <2>3, <2>4 DEF ReadPid, Inv, TypeOK
  <2>6. path \in Daemon
      BY <2>5 DEF Inv, TypeOK
  <2>7. QED BY <2>5, <2>6 DEF Inv, OwnerInv
<1>2. QED
    BY <1>1, Invariance, PTL DEF Spec, AddressesLockHolderUnlessDead
===============================================================================
