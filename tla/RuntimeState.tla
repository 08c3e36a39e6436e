----------------------------- MODULE RuntimeState -----------------------------
(***************************************************************************)
(* The runtime directory (runtime_state.rs, atomic_file.rs, status.rs):    *)
(* the locked PID file, the AFTR file of set-aftr and clear-aftr with the  *)
(* signal by which these commands make a running daemon read it, and the   *)
(* status snapshot.                                                        *)
(*                                                                         *)
(* A member of Daemon is one daemon process, whose identity is its PID; it *)
(* runs once. A file is known by the process that created it (its inode),  *)
(* so that a PID file can be removed and another created under its name.   *)
(***************************************************************************)
EXTENDS Naturals, FiniteSets

CONSTANTS
    Daemon, Command,   \* daemon processes; runs of set-aftr, clear-aftr, status
    Aftr,              \* what set-aftr may be given
    Nothing            \* no file, no process, no content, no AFTR

ASSUME RuntimeAssumption ==
    Nothing \notin Daemon /\ Nothing \notin Aftr

VARIABLES
    pc,            \* of each daemon
    fd,            \* the file each daemon has opened as its PID file
    path,          \* the file the PID file's name leads to
    lock,          \* who holds the lock of each file
    content,       \* the PID in each file
    usr1,          \* SIGUSR1 received, not yet handled, by each daemon
    seen,          \* the override each daemon last read
    override,      \* the AFTR file
    status,        \* whose snapshot the status file holds
    cmd, target,   \* where each command is; the PID it has read
    overlap        \* history: "started": a daemon was, beside another;
                   \* "twice": two daemons have had their locks at a time

daemons == <<pc, fd, usr1, seen>>
files   == <<path, lock, content>>
vars    == <<daemons, files, override, status, cmd, target, overlap>>

Gone == {"new", "dead", "slain"}

\* A lock belongs to a process that lives and has the file open.
LocksAreHeld ==
    \A f \in Daemon :
        lock[f] # Nothing => pc[lock[f]] \notin Gone \cup {"opened"} /\ fd[lock[f]] = f

TypeOK ==
    /\ pc \in [Daemon -> {"new", "opened", "locked", "cleaned", "armed", "pass",
                          "publish", "asleep", "stopping", "stat", "unlink", "close",
                          "dead", "slain"}]
    /\ fd \in [Daemon -> Daemon \cup {Nothing}]
    /\ path \in Daemon \cup {Nothing}
    /\ lock \in [Daemon -> Daemon \cup {Nothing}]
    /\ content \in [Daemon -> Daemon \cup {Nothing}]
    /\ usr1 \in [Daemon -> BOOLEAN]
    /\ seen \in [Daemon -> Aftr \cup {Nothing}]
    /\ override \in Aftr \cup {Nothing}
    /\ status \in Daemon \cup {Nothing}
    /\ cmd \in [Command -> {"idle", "written", "addressed", "ok", "failed"}]
    /\ target \in [Command -> Daemon \cup {Nothing}]
    /\ overlap \in {"no", "started", "twice"}
    /\ LocksAreHeld

Init ==
    /\ pc = [d \in Daemon |-> "new"]
    /\ fd = [d \in Daemon |-> Nothing]
    /\ path = Nothing
    /\ lock = [d \in Daemon |-> Nothing]
    /\ content = [d \in Daemon |-> Nothing]
    /\ usr1 = [d \in Daemon |-> FALSE]
    /\ seen = [d \in Daemon |-> Nothing]
    /\ override \in Aftr \cup {Nothing} /\ status = Nothing
    /\ cmd = [c \in Command |-> "idle"]
    /\ target = [c \in Command |-> Nothing]
    /\ overlap = "no"

Move(d, from, to) == pc[d] = from /\ pc' = [pc EXCEPT ![d] = to]
-------------------------------------------------------------------------------
(***************************************************************************)
(* PidFile::create and mark_ready.                                         *)
(***************************************************************************)
\* open(create, no truncation): the file of that name, or a new one. A service
\* manager starts a daemon only after the former one has gone; others may not.
Open(d) ==
    /\ Move(d, "new", "opened")
    /\ overlap' = IF overlap = "no" /\ \E e \in Daemon : pc[e] \notin Gone
                    THEN "started" ELSE overlap
    /\ path' = IF path = Nothing THEN d ELSE path
    /\ fd' = [fd EXCEPT ![d] = path']
    /\ UNCHANGED <<lock, content, usr1, seen, override, status, cmd, target>>

\* Mutant: the former snapshot is removed before the lock is tried.
Refused_Cleaning(d) ==
    /\ Move(d, "opened", "dead")
    /\ lock[fd[d]] # Nothing
    /\ status' = Nothing
    /\ UNCHANGED <<fd, usr1, seen, files, override, cmd, target, overlap>>

\* try_lock: "another dslite-b4 daemon is already running".
Refused(d) ==
    /\ Move(d, "opened", "dead")
    /\ lock[fd[d]] # Nothing
    /\ UNCHANGED <<fd, usr1, seen, files, override, status, cmd, target, overlap>>

\* Mutant: the PID is written as soon as the file is locked.
Lock_Ready(d) ==
    /\ Move(d, "opened", "locked")
    /\ lock[fd[d]] = Nothing
    /\ lock' = [lock EXCEPT ![fd[d]] = d]
    /\ content' = [content EXCEPT ![fd[d]] = d]
    /\ overlap' = IF \E f \in Daemon : lock[f] # Nothing THEN "twice" ELSE overlap
    /\ UNCHANGED <<fd, usr1, seen, path, override, status, cmd, target>>

\* The lock is taken, and the file is emptied: not ready yet.
Lock(d) ==
    /\ Move(d, "opened", "locked")
    /\ lock[fd[d]] = Nothing
    /\ lock' = [lock EXCEPT ![fd[d]] = d]
    /\ content' = [content EXCEPT ![fd[d]] = Nothing]
    /\ overlap' = IF \E f \in Daemon : lock[f] # Nothing THEN "twice" ELSE overlap
    /\ UNCHANGED <<fd, usr1, seen, path, override, status, cmd, target>>

\* status::remove.
RemoveStatus(d) ==
    /\ Move(d, "locked", "cleaned")
    /\ status' = Nothing
    /\ UNCHANGED <<fd, usr1, seen, files, override, cmd, target, overlap>>

\* run: the signal handlers, then mark_ready.
InstallHandlers(d) ==
    /\ Move(d, "cleaned", "armed")
    /\ UNCHANGED <<fd, usr1, seen, files, override, status, cmd, target, overlap>>

MarkReady(d) ==
    /\ Move(d, "armed", "pass")
    /\ content' = [content EXCEPT ![fd[d]] = d]
    /\ UNCHANGED <<fd, usr1, seen, path, lock, override, status, cmd, target, overlap>>
-------------------------------------------------------------------------------
(***************************************************************************)
(* The loop, as far as the override is concerned.                          *)
(***************************************************************************)
\* effective_aftr: read_provided_aftr. The rest of the pass depends on it.
ReadOverride(d) ==
    /\ Move(d, "pass", "publish")
    /\ seen' = [seen EXCEPT ![d] = override]
    /\ UNCHANGED <<fd, usr1, files, override, status, cmd, target, overlap>>

\* write_atomic: the snapshot is replaced as a whole, by a rename of a file that
\* has been written and synchronized under a name of this process only.
Publish(d) ==
    /\ Move(d, "publish", "asleep")
    /\ status' = d
    /\ UNCHANGED <<fd, usr1, seen, files, override, cmd, target, overlap>>

\* sigusr1.recv(): signals that arrive during a pass are kept, as one.
WakeOnRefresh(d) ==
    /\ usr1[d] /\ Move(d, "asleep", "pass")
    /\ usr1' = [usr1 EXCEPT ![d] = FALSE]
    /\ UNCHANGED <<fd, seen, files, override, status, cmd, target, overlap>>
-------------------------------------------------------------------------------
(***************************************************************************)
(* The end of a daemon.                                                    *)
(***************************************************************************)
\* Shutdown is heard while the desired state is computed and between passes.
Stop(d) ==
    /\ pc[d] \in {"pass", "asleep"}
    /\ pc' = [pc EXCEPT ![d] = "stopping"]
    /\ UNCHANGED <<fd, usr1, seen, files, override, status, cmd, target, overlap>>

\* The tunnel is gone: status::remove, and run returns.
Finish(d) ==
    /\ Move(d, "stopping", "stat")
    /\ status' = Nothing
    /\ UNCHANGED <<fd, usr1, seen, files, override, cmd, target, overlap>>

\* main returns with an error: a signal cannot be handled, the AFTR file not be
\* read, the snapshot not be written or removed, the tunnel not be handled. It
\* leaves the snapshot, and PidFile is dropped.
Fail(d) ==
    /\ pc[d] \in {"locked", "cleaned", "armed", "pass", "publish", "asleep", "stopping"}
    /\ pc' = [pc EXCEPT ![d] = "stat"]
    /\ UNCHANGED <<fd, usr1, seen, files, override, status, cmd, target, overlap>>

\* Mutant: whatever file is there, it is removed.
Stat_Any(d) ==
    /\ pc[d] = "stat"
    /\ pc' = [pc EXCEPT ![d] = IF path # Nothing THEN "unlink" ELSE "close"]
    /\ UNCHANGED <<fd, usr1, seen, files, override, status, cmd, target, overlap>>

\* Drop: is the file of that name still the one this daemon has locked?
Stat(d) ==
    /\ pc[d] = "stat"
    /\ pc' = [pc EXCEPT ![d] = IF path = fd[d] THEN "unlink" ELSE "close"]
    /\ UNCHANGED <<fd, usr1, seen, files, override, status, cmd, target, overlap>>

\* remove_file works on the name.
Unlink(d) ==
    /\ Move(d, "unlink", "close")
    /\ path' = Nothing
    /\ UNCHANGED <<fd, usr1, seen, lock, content, override, status, cmd, target, overlap>>

\* Mutant: a program the daemon has run inherited the file, and keeps the lock.
Unlocked_Inherited(d) == lock

\* The file is opened for this process only.
Unlocked(d) == [f \in Daemon |-> IF lock[f] = d THEN Nothing ELSE lock[f]]

\* The descriptor is closed last, and with it goes the lock.
Close(d) ==
    /\ Move(d, "close", "dead")
    /\ lock' = Unlocked(d)
    /\ UNCHANGED <<fd, usr1, seen, path, content, override, status, cmd, target, overlap>>

\* SIGKILL: nothing is dropped, but the kernel closes the file.
Crash(d) ==
    /\ pc[d] \notin Gone
    /\ pc' = [pc EXCEPT ![d] = "dead"]
    /\ lock' = Unlocked(d)
    /\ UNCHANGED <<fd, usr1, seen, path, content, override, status, cmd, target, overlap>>
-------------------------------------------------------------------------------
(***************************************************************************)
(* set-aftr and clear-aftr: change the file, then signal_daemon_refresh.   *)
(***************************************************************************)
\* Mutant: clear-aftr does not signal.
Write_SilentClear(c) ==
    /\ cmd[c] = "idle"
    /\ override' \in Aftr \cup {Nothing}
    /\ cmd' = [cmd EXCEPT ![c] = IF override' = Nothing THEN "ok" ELSE "written"]
    /\ UNCHANGED <<daemons, files, status, target, overlap>>

\* write_provided_aftr replaces the file as a whole, as Publish does,
\* clear_provided_aftr removes it.
Write(c) ==
    /\ cmd[c] = "idle"
    /\ override' \in Aftr \cup {Nothing}
    /\ cmd' = [cmd EXCEPT ![c] = "written"]
    /\ UNCHANGED <<daemons, files, status, target, overlap>>

\* Either fails, and leaves the file as it is.
WriteFails(c) ==
    /\ cmd[c] = "idle"
    /\ cmd' = [cmd EXCEPT ![c] = "failed"]
    /\ UNCHANGED <<daemons, files, override, status, target, overlap>>

\* The status command needs a snapshot, of whatever daemon.
ShowStatus(c) ==
    /\ cmd[c] = "idle"
    /\ cmd' = [cmd EXCEPT ![c] = IF status = Nothing THEN "failed" ELSE "ok"]
    /\ UNCHANGED <<daemons, files, override, status, target, overlap>>

\* The PID file says whom to signal; none or an empty one is nobody. Its lock
\* is not looked at.
ReadPid(c) ==
    /\ cmd[c] = "written"
    /\ LET pid == IF path = Nothing THEN Nothing ELSE content[path]
       IN  /\ target' = [target EXCEPT ![c] = pid]
           /\ cmd' = [cmd EXCEPT ![c] = IF pid = Nothing THEN "ok" ELSE "addressed"]
    /\ UNCHANGED <<daemons, files, override, status, overlap>>

\* kill(pid, SIGUSR1): no such process, or a signal that the daemon keeps, or
\* that ends a process without a handler for it.
Signal(c) ==
    /\ cmd[c] = "addressed"
    /\ LET d == target[c]
       IN  CASE pc[d] \in Gone ->
                    /\ cmd' = [cmd EXCEPT ![c] = "failed"]
                    /\ UNCHANGED <<pc, usr1, lock>>
             [] pc[d] \in {"opened", "locked", "cleaned"} ->
                    /\ cmd' = [cmd EXCEPT ![c] = "ok"]
                    /\ pc' = [pc EXCEPT ![d] = "slain"] /\ lock' = Unlocked(d)
                    /\ UNCHANGED usr1
             [] OTHER ->
                    /\ cmd' = [cmd EXCEPT ![c] = "ok"]
                    /\ usr1' = [usr1 EXCEPT ![d] = TRUE]
                    /\ UNCHANGED <<pc, lock>>
    /\ UNCHANGED <<fd, seen, path, content, override, status, target, overlap>>
-------------------------------------------------------------------------------
Next ==
    \/ \E d \in Daemon :
          \/ Open(d) \/ Refused(d) \/ Lock(d) \/ RemoveStatus(d) \/ InstallHandlers(d)
          \/ MarkReady(d) \/ ReadOverride(d) \/ Publish(d) \/ WakeOnRefresh(d)
          \/ Stop(d) \/ Finish(d) \/ Fail(d)
          \/ Stat(d) \/ Unlink(d) \/ Close(d) \/ Crash(d)
    \/ \E c \in Command :
          Write(c) \/ WriteFails(c) \/ ShowStatus(c) \/ ReadPid(c) \/ Signal(c)

Spec == Init /\ [][Next]_vars
-------------------------------------------------------------------------------
\* A command that has done its work has been heard: a daemon that has read the
\* file and has no pending signal relies on the present override, whatever other
\* commands, crashes, restarts and unhandled signals there were, as long as no
\* daemon is started beside another.
OverrideIsHeard ==
    \A d \in Daemon :
        pc[d] \in {"publish", "asleep"} /\ ~usr1[d] /\ overlap = "no"
            => \/ seen[d] = override
               \/ \E c \in Command : cmd[c] \in {"written", "addressed"}

\* The refresh signal never ends a daemon that has no handler for it yet: the
\* PID is published only after the handler is there, and a former daemon's is
\* removed first.
RefreshIsHarmless == \A d \in Daemon : pc[d] # "slain"

\* The snapshot is the running daemon's from the moment it has the lock and has
\* cleaned up: no killed, refused or leaving daemon's is shown in its place, and
\* none of them takes it away, unless two daemons have been running at a time.
SnapshotIsOwn ==
    overlap # "twice" =>
        \A d \in Daemon :
            /\ pc[d] = "asleep" => status = d
            /\ pc[d] \in {"cleaned", "armed", "pass", "publish", "stopping"}
                  => status \in {d, Nothing}

\* A daemon that ends removes no other PID file than its own, even if the name
\* leads to another by now.
RemovesOwnFile ==
    [][ path # Nothing /\ path' = Nothing
        => \E d \in Daemon : pc[d] = "unlink" /\ pc'[d] = "close" /\ fd[d] = path ]_vars

\* The file's lock excludes a second daemon: "another dslite-b4 daemon is
\* already running".
OneDaemon ==
    Cardinality({d \in Daemon : pc[d] \in {"armed", "pass", "publish", "asleep"}}) <= 1

\* signal_daemon_refresh "[s]ends SIGUSR1 to the daemon identified by the locked
\* PID file": who is addressed holds the lock of the file that was read.
AddressesLockHolder ==
    [][ \A c \in Command :
            cmd[c] = "written" /\ cmd'[c] = "addressed" => lock[path] = target'[c] ]_vars
===============================================================================
