-------------------------- MODULE LeaderElection --------------------------
(***************************************************************************)
(* How the clients of one machine agree on one leader process.  The leader *)
(* holds an exclusive flock on leader.lock, whose contents are its pid,    *)
(* and listens on leader.sock.  A client that finds no leader takes the    *)
(* lock itself (connect_or_spawn), starts a leader process (run_leader),   *)
(* waits until the socket exists and releases the lock for the leader to   *)
(* take.  LeaderLock's Drop unlinks both paths.                            *)
(*                                                                         *)
(* A flock belongs to an inode, not to a path: whoever opened the file     *)
(* before it was unlinked may still lock it.  Opening and locking are      *)
(* therefore separate steps, as are the two unlinks and the close of Drop. *)
(* Unix only: on Windows the listener is a named pipe.                     *)
(***************************************************************************)
EXTENDS Naturals, FiniteSets, FiniteSetsExt

CONSTANTS
    Clients,        \* processes that call connect_or_spawn and reconnect
    Leaders,        \* bound: the leader processes that can be started
    Nobody,
    Stale,          \* leaders whose binary is older than the clients'
    Events,         \* what happens: a leader may "crash" or "exit", a client be
                    \* "kill"ed or "fail" to start a leader
    MaxEvents       \* bound: how often anything of that happens

Processes == Clients \cup Leaders
Inodes == 1 .. Cardinality(Processes) + 1

ASSUME ElectionAssumption ==
    /\ IsFiniteSet(Clients) /\ IsFiniteSet(Leaders)
    /\ Clients \cap Leaders = {} /\ Nobody \notin Processes
    /\ Stale \subseteq Leaders
    /\ Events \subseteq {"crash", "kill", "exit", "fail"}
    /\ MaxEvents \in Nat

VARIABLES
    lockFile,       \* the inode at lock_path, 0 when there is none
    pid,            \* the pid the file at lock_path contains
    sockFile,       \* the leader whose socket is at sock_path
    fd,             \* the inode a process has open, 0 for none
    holds,          \* processes that hold the flock of their inode
    at,             \* where each process is
    conn,           \* the leader a client is connected to, registers with, or waits
                    \* for the end of
    server,         \* the IPC server task of a leader: "off", "up", "stopping"
    events          \* how much has happened

files == <<lockFile, pid, sockFile>>
vars == <<lockFile, pid, sockFile, fd, holds, at, conn, server, events>>

Alive(l) == at[l] \notin {"unborn", "dead"}

(* listener_is_ready stats the socket path. *)
SocketExists == sockFile # Nobody

(* The process behind the path still accepts. *)
Connectable == SocketExists /\ server[sockFile] = "up"

(* read_pid goes through the path, whatever inode the caller has locked. *)
PidLives == pid # Nobody /\ Alive(pid)

(* try_lock_exclusive on the open file of p. *)
Contended(p) == \E q \in holds : fd[q] = fd[p]

(* An inode lives as long as its path or a descriptor. *)
Fresh == Min({i \in Inodes : i # lockFile /\ \A p \in Processes : fd[p] # i})

Goto(p, where) == at' = [at EXCEPT ![p] = where]
CloseFd(p) == fd' = [fd EXCEPT ![p] = 0]
Unlock(p) == holds' = holds \ {p} /\ CloseFd(p)

(* open_lock_file: creates the file when the path is free. *)
OpenLockFile(p) ==
    /\ lockFile' = IF lockFile = 0 THEN Fresh ELSE lockFile
    /\ fd' = [fd EXCEPT ![p] = lockFile']
    /\ UNCHANGED pid

(* mark_acquired, and write_pid by a leader: in vain when its file has been unlinked. *)
Acquired(l) ==
    /\ holds' = holds \cup {l}
    /\ pid' = IF fd[l] = lockFile THEN l ELSE pid

Starting == {"start", "opened", "clean", "bind"}

(* The timeouts of those who wait for a socket, 5 and 10 s, are long enough for a process     *)
(* that is on its way to bind one.                                                            *)
NobodyStarts == \A l \in Leaders : at[l] \notin Starting

-----------------------------------------------------------------------------
(* LeaderClient::connect registers and then blocks until the leader is ready, which it is     *)
(* once it has the lock; the server closes the connection when it is cancelled.  A client is  *)
(* in one of these places meanwhile, by where connect_or_spawn has called from.               *)
Registering == {"fast", "sibling", "own", "await"}

Ready(l) == at[l] = "serving" /\ server[l] = "up"

(* Where an error of connect_to_leader leads. *)
AfterError(where) ==
    CASE where = "fast" -> "open" [] where = "sibling" -> "spawn"
      [] where = "own" -> "idle" [] OTHER -> "retry"

Connects(c, where) ==
    IF Connectable
      THEN Goto(c, where) /\ conn' = [conn EXCEPT ![c] = sockFile]
      ELSE Goto(c, AfterError(where)) /\ UNCHANGED conn

(* LeaderReady.  A leader older than the client is adopted by its own spawner alone; who      *)
(* adopts a sibling's leader gives the lock back.                                             *)
Adopt(c) ==
    /\ at[c] \in Registering /\ Ready(conn[c])
    /\ conn[c] \notin Stale \/ at[c] = "own"
    /\ Goto(c, "connected")
    /\ IF at[c] = "sibling" THEN Unlock(c) ELSE UNCHANGED <<fd, holds>>
    /\ UNCHANGED <<files, conn, server, events>>

Refused(c) ==
    /\ at[c] \in Registering /\ server[conn[c]] # "up"
    /\ Goto(c, AfterError(at[c])) /\ conn' = [conn EXCEPT ![c] = Nobody]
    /\ UNCHANGED <<files, fd, holds, server, events>>

(* connect_or_spawn, fast path: no connection is tried when the lock names a dead pid. *)
Discover(c) ==
    /\ at[c] = "idle"
    /\ IF pid = Nobody \/ Alive(pid)
         THEN Connects(c, "fast")
         ELSE Goto(c, "open") /\ UNCHANGED conn
    /\ UNCHANGED <<files, fd, holds, server, events>>

DropStale(c) ==
    /\ at[c] = "fast" /\ Ready(conn[c]) /\ conn[c] \in Stale
    /\ Goto(c, "open") /\ conn' = [conn EXCEPT ![c] = Nobody]
    /\ UNCHANGED <<files, fd, holds, server, events>>

ClientOpens(c) ==
    /\ at[c] = "open"
    /\ OpenLockFile(c)
    /\ Goto(c, "flock")
    /\ UNCHANGED <<sockFile, holds, conn, server, events>>

ClientLocks(c) ==
    /\ at[c] = "flock"
    /\ IF Contended(c)
         THEN Goto(c, "wait") /\ CloseFd(c) /\ UNCHANGED holds
         ELSE Goto(c, "held") /\ holds' = holds \cup {c} /\ UNCHANGED fd
    /\ UNCHANGED <<files, conn, server, events>>

(* With the lock: when the pid at the path lives, its owner may be a sibling's leader. *)
LookForSibling(c) ==
    /\ at[c] = "held"
    /\ IF PidLives
         THEN Connects(c, "sibling")
         ELSE Goto(c, "spawn") /\ UNCHANGED conn
    /\ UNCHANGED <<files, fd, holds, server, events>>

(* cleanup_socket and spawn_leader_subprocess. *)
SpawnLeader(c) ==
    /\ at[c] = "spawn"
    /\ \E l \in Leaders :
         /\ at[l] = "unborn"
         /\ at' = [at EXCEPT ![c] = "spawned", ![l] = "start"]
    /\ sockFile' = Nobody
    /\ UNCHANGED <<lockFile, pid, fd, holds, conn, server, events>>

(* spawn_leader_subprocess fails: the error drops the lock. *)
SpawnFails(c) ==
    /\ at[c] = "spawn"
    /\ "fail" \in Events /\ events < MaxEvents
    /\ events' = events + 1
    /\ sockFile' = Nobody
    /\ Goto(c, "unlink")
    /\ UNCHANGED <<lockFile, pid, fd, holds, conn, server>>

(* Fault: a full connect while the lock is held. *)
ConnectsBeforeRelease(c) ==
    /\ at[c] = "spawned" /\ SocketExists
    /\ Connects(c, "sibling")
    /\ UNCHANGED <<files, fd, holds, server, events>>

(* wait_for_listener_ready, then release(): no unlink. *)
ListenerReady(c) ==
    /\ at[c] = "spawned" /\ SocketExists
    /\ Unlock(c)
    /\ Goto(c, "connect")
    /\ UNCHANGED <<files, conn, server, events>>

(* SPAWN_WAIT_TIMEOUT. *)
ListenerTimeout(c) ==
    /\ at[c] = "spawned" /\ ~SocketExists /\ NobodyStarts
    /\ Goto(c, "unlink")
    /\ UNCHANGED <<files, fd, holds, conn, server, events>>

(* The spawner connects to whoever is at the path now; an error goes to reconnect(). *)
Connect(c) ==
    /\ at[c] = "connect"
    /\ Connects(c, "own")
    /\ UNCHANGED <<files, fd, holds, server, events>>

(* Lock contended: wait_for_socket_connectable tries whenever there is a socket, and          *)
(* "retry" is to have an error to remember.                                                   *)
WaitConnects(c) ==
    /\ at[c] \in {"wait", "retry"} /\ SocketExists
    /\ Connects(c, "await")
    /\ UNCHANGED <<files, fd, holds, server, events>>

(* SPAWN_WAIT_TIMEOUT: back to the lock when no connection was tried, else out with the last  *)
(* error.                                                                                     *)
WaitExpires(c) ==
    /\ \/ at[c] = "wait" /\ ~SocketExists /\ Goto(c, "open")
       \/ at[c] = "retry" /\ Goto(c, "idle")
    /\ UNCHANGED <<files, fd, holds, conn, server, events>>

Disconnect(c) ==
    /\ at[c] = "connected" /\ server[conn[c]] # "up"
    /\ Goto(c, "idle") /\ conn' = [conn EXCEPT ![c] = Nobody]
    /\ UNCHANGED <<files, fd, holds, server, events>>

-----------------------------------------------------------------------------
(* The death of a process closes its descriptors and leaves its files. *)
Dies(p, where) ==
    /\ Unlock(p)
    /\ at' = [q \in Processes |-> IF q = p THEN "dead" ELSE where[q]]
    /\ server' = IF p \in Leaders THEN [server EXCEPT ![p] = "off"] ELSE server

(* request_leader_vacate, after which c goes to where: the server of a leader that can        *)
(* relaunch is cancelled; otherwise the pid in the lock file, if any, gets a SIGTERM.         *)
RequestVacate(c, where) ==
    \/ /\ server' = [server EXCEPT ![conn[c]] = "stopping"]
       /\ Goto(c, where) /\ UNCHANGED <<fd, holds>>
    \/ PidLives /\ Dies(pid, [at EXCEPT ![c] = where])
    \/ ~PidLives /\ Goto(c, where) /\ UNCHANGED <<fd, holds, server>>

(* Lock contended and the leader at the socket outdated: it is asked to go, and the lock is   *)
(* tried again.                                                                               *)
Vacate(c) ==
    /\ at[c] = "await" /\ Ready(conn[c]) /\ conn[c] \in Stale
    /\ RequestVacate(c, "open")
    /\ conn' = [conn EXCEPT ![c] = Nobody]
    /\ UNCHANGED <<files, events>>

(* evict_leader, by a client that has the lock of some inode: conn is the pid it waits for.   *)
Evict(c) ==
    /\ at[c] = "sibling" /\ Ready(conn[c]) /\ conn[c] \in Stale
    /\ RequestVacate(c, IF pid = Nobody THEN "spawn" ELSE "evict")
    /\ conn' = [conn EXCEPT ![c] = pid]
    /\ UNCHANGED <<files, events>>

(* wait_for_pid_exit; a process that overruns EVICT_WAIT_TIMEOUT is killed. *)
Evicted(c) ==
    /\ at[c] = "evict"
    /\ IF Alive(conn[c])
         THEN Dies(conn[c], [at EXCEPT ![c] = "spawn"])
         ELSE Goto(c, "spawn") /\ UNCHANGED <<fd, holds, server>>
    /\ conn' = [conn EXCEPT ![c] = Nobody]
    /\ UNCHANGED <<files, events>>

-----------------------------------------------------------------------------
LeaderOpens(l) ==
    /\ at[l] = "start"
    /\ OpenLockFile(l)
    /\ Goto(l, "opened")
    /\ UNCHANGED <<sockFile, holds, conn, server, events>>

(* Fault: the pid is written before the lock is known to be ours. *)
ChecksPidFirst(l) ==
    /\ at[l] = "opened"
    /\ pid' = IF fd[l] = lockFile THEN l ELSE pid
    /\ \/ ~Contended(l) /\ holds' = holds \cup {l} /\ Goto(l, "clean") /\ UNCHANGED fd
       \/ Contended(l) /\ UNCHANGED holds /\ CloseFd(l)
          /\ Goto(l, IF SocketExists THEN "dead" ELSE "clean")
    /\ UNCHANGED <<lockFile, sockFile, conn, server, events>>

(* run_leader: lock free; lock held and a socket; lock held and no socket. *)
LeaderChecks(l) ==
    /\ at[l] = "opened"
    /\ \/ ~Contended(l) /\ Acquired(l) /\ Goto(l, "clean") /\ UNCHANGED fd
       \/ Contended(l) /\ SocketExists /\ Goto(l, "dead") /\ CloseFd(l)
          /\ UNCHANGED <<holds, pid>>
       \/ Contended(l) /\ ~SocketExists /\ Goto(l, "clean") /\ CloseFd(l)
          /\ UNCHANGED <<holds, pid>>
    /\ UNCHANGED <<lockFile, sockFile, conn, server, events>>

(* Phase 1 and the first statement of run_leader_server both remove the socket file. *)
CleanSocket(l) ==
    /\ at[l] = "clean"
    /\ sockFile' = Nobody
    /\ Goto(l, "bind")
    /\ UNCHANGED <<lockFile, pid, fd, holds, conn, server, events>>

(* bind() fails on a path that exists: the server task ends and its error is only logged. *)
BindSocket(l) ==
    /\ at[l] = "bind"
    /\ IF SocketExists
         THEN UNCHANGED <<sockFile, server>>
         ELSE sockFile' = l /\ server' = [server EXCEPT ![l] = "up"]
    /\ Goto(l, "bound")
    /\ UNCHANGED <<lockFile, pid, fd, holds, conn, events>>

(* Phase 4 waits for the path, not for its own socket.  Phase 5 keeps a lock taken at the     *)
(* start; otherwise try_acquire_timeout opens the file, once.                                 *)
SocketSeen(l) ==
    /\ at[l] = "bound" /\ SocketExists
    /\ IF l \in holds
         THEN Goto(l, "serving") /\ UNCHANGED <<lockFile, pid, fd>>
         ELSE Goto(l, "poll") /\ OpenLockFile(l)
    /\ UNCHANGED <<sockFile, holds, conn, server, events>>

(* The error drops the lock; without one there is nothing to unlink. *)
SocketNotSeen(l) ==
    /\ at[l] = "bound" /\ ~SocketExists /\ NobodyStarts
    /\ server' = [server EXCEPT ![l] = IF @ = "up" THEN "stopping" ELSE @]
    /\ Goto(l, IF l \in holds THEN "unlink" ELSE "lost")
    /\ UNCHANGED <<files, fd, holds, conn, events>>

(* Fault: the result of try_lock_exclusive is ignored. *)
PollUnchecked(l) ==
    /\ at[l] = "poll"
    /\ Acquired(l)
    /\ Goto(l, "serving")
    /\ UNCHANGED <<lockFile, sockFile, fd, conn, server, events>>

(* One round of try_acquire_timeout, then write_pid. *)
PollLocks(l) ==
    /\ at[l] = "poll" /\ ~Contended(l)
    /\ Acquired(l)
    /\ Goto(l, "serving")
    /\ UNCHANGED <<lockFile, sockFile, fd, conn, server, events>>

(* LEADER_LOCK_TIMEOUT, longer than a client holds the lock unless it waits for LeaderReady:   *)
(* the duplicate gives up.                                                                    *)
PollExpires(l) ==
    /\ at[l] = "poll"
    /\ \E q \in holds : fd[q] = fd[l] /\ (q \in Leaders \/ at[q] = "sibling")
    /\ server' = [server EXCEPT ![l] = IF @ = "up" THEN "stopping" ELSE @]
    /\ CloseFd(l)
    /\ Goto(l, "lost")
    /\ UNCHANGED <<files, holds, conn, events>>

Exits(l) ==
    /\ at[l] = "lost"
    /\ Dies(l, at)
    /\ UNCHANGED <<files, conn, events>>

(* An automatic update or a manual stop cancels the server. *)
Shutdown(l) ==
    /\ at[l] = "serving" /\ server[l] = "up"
    /\ "exit" \in Events /\ events < MaxEvents
    /\ server' = [server EXCEPT ![l] = "stopping"]
    /\ events' = events + 1
    /\ UNCHANGED <<files, fd, holds, at, conn>>

(* The last statement of run_leader_server unlinks the path, whoever is bound there by now. *)
ServerStops(l) ==
    /\ server[l] = "stopping"
    /\ sockFile' = Nobody
    /\ server' = [server EXCEPT ![l] = "off"]
    /\ UNCHANGED <<lockFile, pid, fd, holds, at, conn, events>>

(* run_leader returns once its server has ended or is cancelled. *)
RunEnds(l) ==
    /\ at[l] = "serving" /\ server[l] # "up"
    /\ Goto(l, "unlink")
    /\ UNCHANGED <<files, fd, holds, conn, server, events>>

-----------------------------------------------------------------------------
(* Drop for LeaderLock, of a leader that exits or of a client whose attempt failed. *)
DropUnlinksLock(p) ==
    /\ at[p] = "unlink"
    /\ lockFile' = 0 /\ pid' = Nobody
    /\ Goto(p, "unlinkSocket")
    /\ UNCHANGED <<sockFile, fd, holds, conn, server, events>>

DropUnlinksSocket(p) ==
    /\ at[p] = "unlinkSocket"
    /\ sockFile' = Nobody
    /\ Goto(p, "close")
    /\ UNCHANGED <<lockFile, pid, fd, holds, conn, server, events>>

DropCloses(p) ==
    /\ at[p] = "close"
    /\ IF p \in Leaders
         THEN Dies(p, at)
         ELSE Unlock(p) /\ Goto(p, "idle") /\ UNCHANGED server
    /\ UNCHANGED <<files, conn, events>>

(* A process is killed.  A client comes back as a new process. *)
Crash(p) ==
    /\ (IF p \in Leaders THEN "crash" ELSE "kill") \in Events /\ events < MaxEvents
    /\ p \in Leaders => Alive(p)
    /\ events' = events + 1
    /\ IF p \in Leaders
         THEN Dies(p, at) /\ UNCHANGED conn
         ELSE /\ Unlock(p) /\ Goto(p, "idle") /\ UNCHANGED server
              /\ conn' = [conn EXCEPT ![p] = Nobody]
    /\ UNCHANGED files

-----------------------------------------------------------------------------
Init ==
    /\ lockFile = 0
    /\ pid = Nobody
    /\ sockFile = Nobody
    /\ fd = [p \in Processes |-> 0]
    /\ holds = {}
    /\ at = [p \in Processes |-> IF p \in Clients THEN "idle" ELSE "unborn"]
    /\ conn = [c \in Clients |-> Nobody]
    /\ server = [l \in Leaders |-> "off"]
    /\ events = 0

ClientSteps(c) ==
    \/ Adopt(c) \/ Refused(c) \/ Discover(c) \/ DropStale(c) \/ ClientOpens(c) \/ ClientLocks(c)
    \/ LookForSibling(c) \/ SpawnLeader(c) \/ ListenerReady(c)
    \/ ListenerTimeout(c) \/ Connect(c) \/ WaitConnects(c) \/ WaitExpires(c) \/ Disconnect(c)
    \/ Vacate(c) \/ Evict(c) \/ Evicted(c)

LeaderSteps(l) ==
    \/ LeaderOpens(l) \/ LeaderChecks(l) \/ CleanSocket(l) \/ BindSocket(l) \/ SocketSeen(l)
    \/ SocketNotSeen(l) \/ PollLocks(l) \/ PollExpires(l) \/ Exits(l) \/ RunEnds(l)

DropSteps(p) == DropUnlinksLock(p) \/ DropUnlinksSocket(p) \/ DropCloses(p)

Next ==
    \/ \E c \in Clients : ClientSteps(c) \/ SpawnFails(c)
    \/ \E l \in Leaders : LeaderSteps(l) \/ Shutdown(l) \/ ServerStops(l)
    \/ \E p \in Processes : DropSteps(p) \/ Crash(p)

Spec == Init /\ [][Next]_vars

(* Every process that lives goes on, and polls; a client keeps reconnecting.  Nothing is      *)
(* assumed of crashes, exits, failed starts or the end of the server task.                    *)
Fairness ==
    /\ \A c \in Clients : WF_vars(ClientSteps(c))
    /\ \A l \in Leaders : WF_vars(LeaderSteps(l))
    /\ \A p \in Processes : WF_vars(DropSteps(p))

FairSpec == Spec /\ Fairness

-----------------------------------------------------------------------------
(* Every part of the state has its type, and no two processes hold the lock of one inode. *)
TypeOK ==
    /\ lockFile \in Inodes \cup {0} /\ sockFile \in Leaders \cup {Nobody}
    /\ pid \in Leaders \cup {Nobody}
    /\ fd \in [Processes -> Inodes \cup {0}]
    /\ \A p \in holds : fd[p] # 0 /\ \A q \in holds : fd[q] = fd[p] => q = p
    /\ \A c \in Clients :
         /\ at[c] \in Registering \cup {"idle", "open", "flock", "held", "spawn", "spawned",
                       "connect", "connected", "wait", "retry", "evict", "unlink",
                       "unlinkSocket", "close"}
         /\ conn[c] \in IF at[c] \in Registering \cup {"connected", "evict"} THEN Leaders
                       ELSE {Nobody}
    /\ \A l \in Leaders :
         /\ at[l] \in Starting \cup {"unborn", "bound", "poll", "serving", "lost", "unlink",
                                     "unlinkSocket", "close", "dead"}
         /\ server[l] \in {"off", "up", "stopping"}
    /\ events \in 0 .. MaxEvents

Serving == {l \in Leaders : at[l] = "serving" /\ server[l] = "up"}

(* The pid in the file at lock_path, while its process lives, is that of the holder of its    *)
(* lock: a client that holds the lock of that very file never reads a live pid.  One that has *)
(* locked a file since unlinked may, and then adopts or evicts the leader of the new file.    *)
PidIsHolder ==
    PidLives => pid \in holds /\ fd[pid] = lockFile

(* Lock held and no socket: then a spawner holds it and waits for the socket.  Never is a     *)
(* leader that serves under the lock at the path without a socket there.                      *)
NoSocketMeansSpawner == ~SocketExists => \A l \in Serving : fd[l] # lockFile

(* A leader that holds the lock at the path can no longer be reached. *)
Stuck == \E l \in Serving : fd[l] = lockFile /\ sockFile # l

(* The bound on processes keeps a client from starting one more leader. *)
Spent ==
    /\ \E c \in Clients : at[c] = "spawn"
    /\ \A l \in Leaders : at[l] # "unborn"

(* What explains that more leaders are needed: a fault, a leader that has had the lock and    *)
(* was replaced, or one that still waits while others take the lock before it.  That all of   *)
(* them gave up for nothing is no explanation.                                                *)
Explained ==
    \/ events > 0
    \/ Leaders \cap holds # {}
    \/ Spent /\ \E l \in Leaders : at[l] \in {"bound", "poll"}

(* Whatever crashed, exited or was evicted, the clients get connected again and no duplicate  *)
(* leader lingers, unless a leader has lost its socket for good: neither side waits for the   *)
(* other, as a spawner releases the lock before it waits for LeaderReady and the leader binds *)
(* its socket before it waits for the lock.                                                   *)
Settles ==
    \/ <>[]Stuck
    \/ <>Spent /\ <>Explained
    \/ []<>(/\ \A c \in Clients : at[c] = "connected"
           /\ \A l \in Leaders : Alive(l) => l \in Serving)
=============================================================================
