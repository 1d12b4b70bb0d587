------------------------ MODULE LeaderElectionProofs ------------------------
(***************************************************************************)
(* Theorems about LeaderElection, for any number of clients and leaders:   *)
(* the lock of an inode has one holder, and the pid in the file at         *)
(* lock_path is that of the holder for as long as its process lives.       *)
(***************************************************************************)
EXTENDS LeaderElection, FiniteSetTheorems, WellFoundedInduction, TLAPS

ClientPlaces == {"idle", "fast", "open", "flock", "held", "sibling", "evict", "spawn", "spawned",
                 "connect", "own", "connected", "wait", "await", "retry", "unlink",
                 "unlinkSocket", "close"}
LeaderPlaces == {"start", "opened", "clean", "bind", "unborn", "bound", "poll", "serving",
                 "lost", "unlink", "unlinkSocket", "close", "dead"}

(* The functions and sets that TypeOK speaks of pointwise. *)
Shape ==
    /\ at \in [Processes -> ClientPlaces \cup LeaderPlaces]
    /\ conn \in [Clients -> Leaders \cup {Nobody}]
    /\ server \in [Leaders -> {"off", "up", "stopping"}]
    /\ holds \subseteq Processes

(* Where a process is in no possession of the lock, *)
NotHolding ==
    /\ \A l \in Leaders : at[l] \in {"unborn", "start", "opened", "poll", "lost", "dead"}
                            => l \notin holds
    /\ \A c \in Clients : at[c] \in {"idle", "fast", "open", "flock", "wait", "await", "retry",
                                     "connect", "own", "connected"}
                            => c \notin holds

(* where it does possess it, *)
Holding ==
    /\ \A l \in Leaders : at[l] = "serving" => l \in holds
    /\ \A c \in Clients : at[c] \in {"held", "sibling", "evict", "spawn", "spawned", "unlink",
                                     "unlinkSocket", "close"}
                            => c \in holds

(* ... and where it has the file open and is about to try. *)
FdOpen ==
    /\ \A l \in Leaders : at[l] \in {"opened", "poll"} => fd[l] # 0
    /\ \A c \in Clients : at[c] = "flock" => fd[c] # 0

(* A pid is in a file that exists, and was written by a process that has lived. *)
PidBorn == pid # Nobody => lockFile # 0 /\ at[pid] # "unborn"

IndInv == Shape /\ TypeOK /\ PidIsHolder /\ NotHolding /\ Holding /\ FdOpen /\ PidBorn

-----------------------------------------------------------------------------
(* Inodes are numbered from 1. *)
LEMMA InodesFacts == Inodes \subseteq Nat /\ 0 \notin Inodes
BY DEF Inodes

(* The smallest element of a nonempty set of numbers is one of its elements. *)
LEMMA MinFacts ==
    ASSUME NEW S, S \subseteq Nat, S # {}
    PROVE  Min(S) \in S
<1>1. PICK m \in S : \A i \in S : ~(<<i, m>> \in OpToRel(<, Nat))
  BY WFMin, NatLessThanWellFounded, Zenon
<1>2. \A i \in S : ~(i < m)
  BY <1>1, Zenon DEF OpToRel
<1>3. \A i \in S : m <= i
  BY <1>2
<1> QED
  BY <1>3 DEF Min

(* More inodes than descriptors: whoever creates the lock file finds one to use. *)
LEMMA FreshFacts ==
    ASSUME lockFile = 0, fd \in [Processes -> Inodes \cup {0}]
    PROVE  Fresh \in Inodes
<1> DEFINE Used == {fd[p] : p \in Processes}
           Free == {i \in Inodes : i # lockFile /\ \A p \in Processes : fd[p] # i}
<1>1. IsFiniteSet(Processes) /\ Cardinality(Processes) \in Nat
  BY ElectionAssumption, FS_Union, FS_CardinalityType DEF Processes
<1>2. IsFiniteSet(Used) /\ Cardinality(Used) <= Cardinality(Processes)
  <2>1. fd \in Surjection(Processes, Used)
    BY DEF Surjection
  <2> QED
    BY <1>1, <2>1, FS_Surjection
<1>3. Cardinality(Inodes) = Cardinality(Processes) + 1
  BY <1>1, FS_Interval DEF Inodes
<1>4. ~(Inodes \subseteq Used)
  <2>1. Inodes \subseteq Used => Cardinality(Inodes) <= Cardinality(Used)
    BY <1>2, FS_Subset
  <2> QED
    BY <1>1, <1>2, <1>3, <2>1, FS_CardinalityType
<1>5. Free # {}
  BY <1>4, InodesFacts
<1>6. Free \subseteq Nat
  BY InodesFacts
<1>7. Min(Free) \in Free
  BY <1>5, <1>6, MinFacts
<1> QED
  BY <1>7 DEF Fresh

(* open_lock_file leaves the caller with the inode at the path open. *)
LEMMA OpenFacts ==
    ASSUME IndInv, NEW p \in Processes, OpenLockFile(p)
    PROVE  /\ lockFile' \in Inodes /\ fd' = [fd EXCEPT ![p] = lockFile']
           /\ lockFile # 0 => lockFile' = lockFile
           /\ pid' = pid
BY FreshFacts DEF OpenLockFile, IndInv, TypeOK

(* Init establishes the invariant. *)
LEMMA InitInv == Init => IndInv
BY ElectionAssumption, InodesFacts
   DEF Init, IndInv, Shape, TypeOK, PidIsHolder, PidLives, NotHolding, Holding, FdOpen, PidBorn,
       ClientPlaces, LeaderPlaces, Processes, Starting, Registering

(* Adopt preserves the invariant. *)
LEMMA AdoptStep ==
    ASSUME IndInv, NEW c \in Clients, Adopt(c)
    PROVE  IndInv'
BY ElectionAssumption, InodesFacts
   DEF Adopt, IndInv, Shape, TypeOK, PidIsHolder, PidLives, Alive, NotHolding, Holding,
       FdOpen, PidBorn, ClientPlaces, LeaderPlaces, Processes, Starting, Registering, Goto,
       Unlock, Ready, files, CloseFd

(* Refused preserves the invariant. *)
LEMMA RefusedStep ==
    ASSUME IndInv, NEW c \in Clients, Refused(c)
    PROVE  IndInv'
BY ElectionAssumption, InodesFacts
   DEF Refused, IndInv, Shape, TypeOK, PidIsHolder, PidLives, Alive, NotHolding, Holding,
       FdOpen, PidBorn, ClientPlaces, LeaderPlaces, Processes, Starting, Registering, Goto,
       AfterError, files

(* Discover preserves the invariant. *)
LEMMA DiscoverStep ==
    ASSUME IndInv, NEW c \in Clients, Discover(c)
    PROVE  IndInv'
BY ElectionAssumption, InodesFacts
   DEF Discover, IndInv, Shape, TypeOK, PidIsHolder, PidLives, Alive, NotHolding, Holding,
       FdOpen, PidBorn, ClientPlaces, LeaderPlaces, Processes, Starting, Registering, Goto,
       Connects, files, Connectable, AfterError, SocketExists

(* DropStale preserves the invariant. *)
LEMMA DropStaleStep ==
    ASSUME IndInv, NEW c \in Clients, DropStale(c)
    PROVE  IndInv'
BY ElectionAssumption, InodesFacts
   DEF DropStale, IndInv, Shape, TypeOK, PidIsHolder, PidLives, Alive, NotHolding, Holding,
       FdOpen, PidBorn, ClientPlaces, LeaderPlaces, Processes, Starting, Registering, Goto,
       Ready, files

(* ClientOpens preserves the invariant. *)
LEMMA ClientOpensStep ==
    ASSUME IndInv, NEW c \in Clients, ClientOpens(c)
    PROVE  IndInv'
BY ElectionAssumption, InodesFacts, OpenFacts
   DEF ClientOpens, IndInv, Shape, TypeOK, PidIsHolder, PidLives, Alive, NotHolding,
       Holding, FdOpen, PidBorn, ClientPlaces, LeaderPlaces, Processes, Starting,
       Registering, Goto

(* ClientLocks preserves the invariant. *)
LEMMA ClientLocksStep ==
    ASSUME IndInv, NEW c \in Clients, ClientLocks(c)
    PROVE  IndInv'
BY ElectionAssumption, InodesFacts
   DEF ClientLocks, IndInv, Shape, TypeOK, PidIsHolder, PidLives, Alive, NotHolding,
       Holding, FdOpen, PidBorn, ClientPlaces, LeaderPlaces, Processes, Starting,
       Registering, Goto, CloseFd, Contended, files

(* LookForSibling preserves the invariant. *)
LEMMA LookForSiblingStep ==
    ASSUME IndInv, NEW c \in Clients, LookForSibling(c)
    PROVE  IndInv'
BY ElectionAssumption, InodesFacts
   DEF LookForSibling, IndInv, Shape, TypeOK, PidIsHolder, PidLives, Alive, NotHolding,
       Holding, FdOpen, PidBorn, ClientPlaces, LeaderPlaces, Processes, Starting,
       Registering, Goto, Connects, files, Connectable, AfterError, SocketExists

(* SpawnLeader preserves the invariant. *)
LEMMA SpawnLeaderStep ==
    ASSUME IndInv, NEW c \in Clients, SpawnLeader(c)
    PROVE  IndInv'
BY ElectionAssumption, InodesFacts
   DEF SpawnLeader, IndInv, Shape, TypeOK, PidIsHolder, PidLives, Alive, NotHolding,
       Holding, FdOpen, PidBorn, ClientPlaces, LeaderPlaces, Processes, Starting,
       Registering

(* SpawnFails preserves the invariant. *)
LEMMA SpawnFailsStep ==
    ASSUME IndInv, NEW c \in Clients, SpawnFails(c)
    PROVE  IndInv'
BY ElectionAssumption, InodesFacts
   DEF SpawnFails, IndInv, Shape, TypeOK, PidIsHolder, PidLives, Alive, NotHolding, Holding,
       FdOpen, PidBorn, ClientPlaces, LeaderPlaces, Processes, Starting, Registering, Goto

(* ListenerReady preserves the invariant. *)
LEMMA ListenerReadyStep ==
    ASSUME IndInv, NEW c \in Clients, ListenerReady(c)
    PROVE  IndInv'
BY ElectionAssumption, InodesFacts
   DEF ListenerReady, IndInv, Shape, TypeOK, PidIsHolder, PidLives, Alive, NotHolding,
       Holding, FdOpen, PidBorn, ClientPlaces, LeaderPlaces, Processes, Starting,
       Registering, Goto, Unlock, SocketExists, files, CloseFd

(* ListenerTimeout preserves the invariant. *)
LEMMA ListenerTimeoutStep ==
    ASSUME IndInv, NEW c \in Clients, ListenerTimeout(c)
    PROVE  IndInv'
BY ElectionAssumption, InodesFacts
   DEF ListenerTimeout, IndInv, Shape, TypeOK, PidIsHolder, PidLives, Alive, NotHolding,
       Holding, FdOpen, PidBorn, ClientPlaces, LeaderPlaces, Processes, Starting,
       Registering, Goto, SocketExists, files

(* Connect preserves the invariant. *)
LEMMA ConnectStep ==
    ASSUME IndInv, NEW c \in Clients, Connect(c)
    PROVE  IndInv'
BY ElectionAssumption, InodesFacts
   DEF Connect, IndInv, Shape, TypeOK, PidIsHolder, PidLives, Alive, NotHolding, Holding,
       FdOpen, PidBorn, ClientPlaces, LeaderPlaces, Processes, Starting, Registering,
       Connects, files, Goto, Connectable, AfterError, SocketExists

(* WaitConnects preserves the invariant. *)
LEMMA WaitConnectsStep ==
    ASSUME IndInv, NEW c \in Clients, WaitConnects(c)
    PROVE  IndInv'
BY ElectionAssumption, InodesFacts
   DEF WaitConnects, IndInv, Shape, TypeOK, PidIsHolder, PidLives, Alive, NotHolding,
       Holding, FdOpen, PidBorn, ClientPlaces, LeaderPlaces, Processes, Starting,
       Registering, SocketExists, Connects, files, Goto, Connectable, AfterError

(* WaitExpires preserves the invariant. *)
LEMMA WaitExpiresStep ==
    ASSUME IndInv, NEW c \in Clients, WaitExpires(c)
    PROVE  IndInv'
BY ElectionAssumption, InodesFacts
   DEF WaitExpires, IndInv, Shape, TypeOK, PidIsHolder, PidLives, Alive, NotHolding,
       Holding, FdOpen, PidBorn, ClientPlaces, LeaderPlaces, Processes, Starting,
       Registering, Goto, SocketExists, files

(* Disconnect preserves the invariant. *)
LEMMA DisconnectStep ==
    ASSUME IndInv, NEW c \in Clients, Disconnect(c)
    PROVE  IndInv'
BY ElectionAssumption, InodesFacts
   DEF Disconnect, IndInv, Shape, TypeOK, PidIsHolder, PidLives, Alive, NotHolding, Holding,
       FdOpen, PidBorn, ClientPlaces, LeaderPlaces, Processes, Starting, Registering, Goto,
       files

(* Vacate preserves the invariant. *)
LEMMA VacateStep ==
    ASSUME IndInv, NEW c \in Clients, Vacate(c)
    PROVE  IndInv'
BY ElectionAssumption, InodesFacts
   DEF Vacate, IndInv, Shape, TypeOK, PidIsHolder, PidLives, Alive, NotHolding, Holding,
       FdOpen, PidBorn, ClientPlaces, LeaderPlaces, Processes, Starting, Registering, Ready,
       RequestVacate, files, Goto, Dies, Unlock, CloseFd

(* Evict preserves the invariant. *)
LEMMA EvictStep ==
    ASSUME IndInv, NEW c \in Clients, Evict(c)
    PROVE  IndInv'
BY ElectionAssumption, InodesFacts
   DEF Evict, IndInv, Shape, TypeOK, PidIsHolder, PidLives, Alive, NotHolding, Holding,
       FdOpen, PidBorn, ClientPlaces, LeaderPlaces, Processes, Starting, Registering, Ready,
       RequestVacate, files, Goto, Dies, Unlock, CloseFd

(* Evicted preserves the invariant. *)
LEMMA EvictedStep ==
    ASSUME IndInv, NEW c \in Clients, Evicted(c)
    PROVE  IndInv'
BY ElectionAssumption, InodesFacts
   DEF Evicted, IndInv, Shape, TypeOK, PidIsHolder, PidLives, Alive, NotHolding, Holding,
       FdOpen, PidBorn, ClientPlaces, LeaderPlaces, Processes, Starting, Registering, Goto,
       Dies, files, Unlock, CloseFd

(* LeaderOpens preserves the invariant. *)
LEMMA LeaderOpensStep ==
    ASSUME IndInv, NEW l \in Leaders, LeaderOpens(l)
    PROVE  IndInv'
BY ElectionAssumption, InodesFacts, OpenFacts
   DEF LeaderOpens, IndInv, Shape, TypeOK, PidIsHolder, PidLives, Alive, NotHolding,
       Holding, FdOpen, PidBorn, ClientPlaces, LeaderPlaces, Processes, Starting,
       Registering, Goto

(* LeaderChecks preserves the invariant. *)
LEMMA LeaderChecksStep ==
    ASSUME IndInv, NEW l \in Leaders, LeaderChecks(l)
    PROVE  IndInv'
BY ElectionAssumption, InodesFacts
   DEF LeaderChecks, IndInv, Shape, TypeOK, PidIsHolder, PidLives, Alive, NotHolding,
       Holding, FdOpen, PidBorn, ClientPlaces, LeaderPlaces, Processes, Starting,
       Registering, Goto, CloseFd, Acquired, Contended, SocketExists

(* CleanSocket preserves the invariant. *)
LEMMA CleanSocketStep ==
    ASSUME IndInv, NEW l \in Leaders, CleanSocket(l)
    PROVE  IndInv'
BY ElectionAssumption, InodesFacts
   DEF CleanSocket, IndInv, Shape, TypeOK, PidIsHolder, PidLives, Alive, NotHolding,
       Holding, FdOpen, PidBorn, ClientPlaces, LeaderPlaces, Processes, Starting,
       Registering, Goto

(* BindSocket preserves the invariant. *)
LEMMA BindSocketStep ==
    ASSUME IndInv, NEW l \in Leaders, BindSocket(l)
    PROVE  IndInv'
BY ElectionAssumption, InodesFacts
   DEF BindSocket, IndInv, Shape, TypeOK, PidIsHolder, PidLives, Alive, NotHolding, Holding,
       FdOpen, PidBorn, ClientPlaces, LeaderPlaces, Processes, Starting, Registering, Goto,
       SocketExists

(* SocketSeen preserves the invariant. *)
LEMMA SocketSeenStep ==
    ASSUME IndInv, NEW l \in Leaders, SocketSeen(l)
    PROVE  IndInv'
BY ElectionAssumption, InodesFacts, OpenFacts
   DEF SocketSeen, IndInv, Shape, TypeOK, PidIsHolder, PidLives, Alive, NotHolding, Holding,
       FdOpen, PidBorn, ClientPlaces, LeaderPlaces, Processes, Starting, Registering, Goto,
       SocketExists

(* SocketNotSeen preserves the invariant. *)
LEMMA SocketNotSeenStep ==
    ASSUME IndInv, NEW l \in Leaders, SocketNotSeen(l)
    PROVE  IndInv'
BY ElectionAssumption, InodesFacts
   DEF SocketNotSeen, IndInv, Shape, TypeOK, PidIsHolder, PidLives, Alive, NotHolding,
       Holding, FdOpen, PidBorn, ClientPlaces, LeaderPlaces, Processes, Starting,
       Registering, Goto, SocketExists, files

(* PollLocks preserves the invariant. *)
LEMMA PollLocksStep ==
    ASSUME IndInv, NEW l \in Leaders, PollLocks(l)
    PROVE  IndInv'
BY ElectionAssumption, InodesFacts
   DEF PollLocks, IndInv, Shape, TypeOK, PidIsHolder, PidLives, Alive, NotHolding, Holding,
       FdOpen, PidBorn, ClientPlaces, LeaderPlaces, Processes, Starting, Registering, Goto,
       Acquired, Contended

(* PollExpires preserves the invariant. *)
LEMMA PollExpiresStep ==
    ASSUME IndInv, NEW l \in Leaders, PollExpires(l)
    PROVE  IndInv'
BY ElectionAssumption, InodesFacts
   DEF PollExpires, IndInv, Shape, TypeOK, PidIsHolder, PidLives, Alive, NotHolding,
       Holding, FdOpen, PidBorn, ClientPlaces, LeaderPlaces, Processes, Starting,
       Registering, Goto, CloseFd, files

(* Exits preserves the invariant. *)
LEMMA ExitsStep ==
    ASSUME IndInv, NEW l \in Leaders, Exits(l)
    PROVE  IndInv'
BY ElectionAssumption, InodesFacts
   DEF Exits, IndInv, Shape, TypeOK, PidIsHolder, PidLives, Alive, NotHolding, Holding,
       FdOpen, PidBorn, ClientPlaces, LeaderPlaces, Processes, Starting, Registering, Dies,
       files, Unlock, CloseFd

(* Shutdown preserves the invariant. *)
LEMMA ShutdownStep ==
    ASSUME IndInv, NEW l \in Leaders, Shutdown(l)
    PROVE  IndInv'
BY ElectionAssumption, InodesFacts
   DEF Shutdown, IndInv, Shape, TypeOK, PidIsHolder, PidLives, Alive, NotHolding, Holding,
       FdOpen, PidBorn, ClientPlaces, LeaderPlaces, Processes, Starting, Registering, files

(* ServerStops preserves the invariant. *)
LEMMA ServerStopsStep ==
    ASSUME IndInv, NEW l \in Leaders, ServerStops(l)
    PROVE  IndInv'
BY ElectionAssumption, InodesFacts
   DEF ServerStops, IndInv, Shape, TypeOK, PidIsHolder, PidLives, Alive, NotHolding,
       Holding, FdOpen, PidBorn, ClientPlaces, LeaderPlaces, Processes, Starting,
       Registering

(* RunEnds preserves the invariant. *)
LEMMA RunEndsStep ==
    ASSUME IndInv, NEW l \in Leaders, RunEnds(l)
    PROVE  IndInv'
BY ElectionAssumption, InodesFacts
   DEF RunEnds, IndInv, Shape, TypeOK, PidIsHolder, PidLives, Alive, NotHolding, Holding,
       FdOpen, PidBorn, ClientPlaces, LeaderPlaces, Processes, Starting, Registering, Goto,
       files

(* DropUnlinksLock preserves the invariant. *)
LEMMA DropUnlinksLockStep ==
    ASSUME IndInv, NEW p \in Processes, DropUnlinksLock(p)
    PROVE  IndInv'
BY ElectionAssumption, InodesFacts
   DEF DropUnlinksLock, IndInv, Shape, TypeOK, PidIsHolder, PidLives, Alive, NotHolding,
       Holding, FdOpen, PidBorn, ClientPlaces, LeaderPlaces, Processes, Starting,
       Registering, Goto

(* DropUnlinksSocket preserves the invariant. *)
LEMMA DropUnlinksSocketStep ==
    ASSUME IndInv, NEW p \in Processes, DropUnlinksSocket(p)
    PROVE  IndInv'
BY ElectionAssumption, InodesFacts
   DEF DropUnlinksSocket, IndInv, Shape, TypeOK, PidIsHolder, PidLives, Alive, NotHolding,
       Holding, FdOpen, PidBorn, ClientPlaces, LeaderPlaces, Processes, Starting,
       Registering, Goto

(* DropCloses preserves the invariant. *)
LEMMA DropClosesStep ==
    ASSUME IndInv, NEW p \in Processes, DropCloses(p)
    PROVE  IndInv'
BY ElectionAssumption, InodesFacts
   DEF DropCloses, IndInv, Shape, TypeOK, PidIsHolder, PidLives, Alive, NotHolding, Holding,
       FdOpen, PidBorn, ClientPlaces, LeaderPlaces, Processes, Starting, Registering, Goto,
       Unlock, Dies, files, CloseFd

(* Crash preserves the invariant. *)
LEMMA CrashStep ==
    ASSUME IndInv, NEW p \in Processes, Crash(p)
    PROVE  IndInv'
BY ElectionAssumption, InodesFacts
   DEF Crash, IndInv, Shape, TypeOK, PidIsHolder, PidLives, Alive, NotHolding, Holding,
       FdOpen, PidBorn, ClientPlaces, LeaderPlaces, Processes, Starting, Registering, Goto,
       Unlock, Dies, files, CloseFd

(* Every step of the election preserves the invariant. *)
LEMMA NextStep == IndInv /\ [Next]_vars => IndInv'
<1> SUFFICES ASSUME IndInv, [Next]_vars
             PROVE  IndInv'
  OBVIOUS
<1>1. ASSUME NEW c \in Clients, ClientSteps(c) \/ SpawnFails(c)
      PROVE  IndInv'
  BY <1>1, AdoptStep, RefusedStep, DiscoverStep, DropStaleStep, ClientOpensStep, ClientLocksStep,
     LookForSiblingStep, SpawnLeaderStep, SpawnFailsStep, ListenerReadyStep,
     ListenerTimeoutStep, ConnectStep, WaitConnectsStep, WaitExpiresStep, DisconnectStep,
     VacateStep, EvictStep, EvictedStep
     DEF ClientSteps
<1>2. ASSUME NEW l \in Leaders, LeaderSteps(l) \/ Shutdown(l) \/ ServerStops(l)
      PROVE  IndInv'
  BY <1>2, LeaderOpensStep, LeaderChecksStep, CleanSocketStep, BindSocketStep, SocketSeenStep,
     SocketNotSeenStep, PollLocksStep, PollExpiresStep, ExitsStep, ShutdownStep,
     ServerStopsStep, RunEndsStep
     DEF LeaderSteps
<1>3. ASSUME NEW p \in Processes, DropSteps(p) \/ Crash(p)
      PROVE  IndInv'
  BY <1>3, DropUnlinksLockStep, DropUnlinksSocketStep, DropClosesStep, CrashStep
     DEF DropSteps
<1>4. CASE UNCHANGED vars
  BY <1>4 DEF vars, IndInv, Shape, TypeOK, PidIsHolder, PidLives, Alive, NotHolding, Holding, Holding,
              FdOpen, PidBorn
<1> QED
  BY <1>1, <1>2, <1>3, <1>4 DEF Next

(* Whatever the clients, leaders, crashes and signals do, the invariant holds. *)
LEMMA Invariance == Spec => []IndInv
BY InitInv, NextStep, PTL DEF Spec

-----------------------------------------------------------------------------
(* Every part of the election's state has its type, and however open_lock_file,               *)
(* try_lock_exclusive and the unlinks of Drop interleave, no two processes hold the lock of   *)
(* one inode.                                                                                 *)
THEOREM TypeCorrect == Spec => []TypeOK
<1>1. IndInv => TypeOK
  BY DEF IndInv
<1> QED
  BY <1>1, Invariance, PTL

(* write_pid and the unlinks keep the contents of lock_path true: while the process it names  *)
(* lives, that process holds the lock of the file at the path.                                *)
THEOREM PidNamesHolder == Spec => []PidIsHolder
<1>1. IndInv => PidIsHolder
  BY DEF IndInv
<1> QED
  BY <1>1, Invariance, PTL

(* A client that holds the lock of the file at lock_path finds no live pid in it: only one    *)
(* whose file has been unlinked goes to adopt or to evict a sibling's leader.                 *)
NoSiblingUnderLock ==
    \A c \in Clients : at[c] = "held" /\ fd[c] = lockFile => ~PidLives

(* The holder of the lock at lock_path goes to no sibling, in any behaviour. *)
THEOREM AdoptsNoSibling == Spec => []NoSiblingUnderLock
<1>1. IndInv => NoSiblingUnderLock
  <2> SUFFICES ASSUME IndInv, NEW c \in Clients, at[c] = "held", fd[c] = lockFile, PidLives
               PROVE  FALSE
    BY DEF NoSiblingUnderLock
  <2>1. pid \in holds /\ fd[pid] = lockFile /\ pid \in Leaders
    BY DEF IndInv, PidIsHolder, PidLives, TypeOK
  <2>2. c \in holds
    BY DEF IndInv, Holding
  <2>3. c = pid
    BY <2>1, <2>2 DEF IndInv, TypeOK
  <2> QED
    BY <2>1, <2>3, ElectionAssumption
<1> QED
  BY <1>1, Invariance, PTL

(* Two leaders past phase 5 of run_leader never share a lock: at most one of them serves      *)
(* under the file at lock_path, and a second one can only have locked a file since unlinked.  *)
OneServesPerLock ==
    \A l, m \in Leaders :
      at[l] = "serving" /\ at[m] = "serving" /\ fd[l] = fd[m] => l = m

(* No two leaders serve under one lock, in any behaviour. *)
THEOREM OneServes == Spec => []OneServesPerLock
<1>1. IndInv => OneServesPerLock
  BY DEF IndInv, Holding, TypeOK, OneServesPerLock
<1> QED
  BY <1>1, Invariance, PTL

=============================================================================
