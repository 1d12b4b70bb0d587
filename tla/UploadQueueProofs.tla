------------------------- MODULE UploadQueueProofs -------------------------
(***************************************************************************)
(* Theorems about UploadQueue, for any artifacts, destinations, capacities *)
(* and budgets and any number of crashes: the gauges and the marks are     *)
(* sound, what is stored is whole, the queue implements DurableUpload, no  *)
(* permit is lost, a caller that waits is owed its answer, and a drain     *)
(* that completes leaves nothing behind.                                   *)
(***************************************************************************)
EXTENDS UploadQueue, FiniteSetTheorems, TLAPS

(* The types of a job and of what the calls and the worker are at, as TypeOK has them. *)
JobType ==
    [at : Waiting \cup Finishing \cup {"none", "aborted", "settled"}, attempts : 0 .. MaxAttempts,
     authRetried : BOOLEAN, old : BOOLEAN, opened : Files, bytes : 0 .. 1,
     result : {"none", "ok", "failed", "expired"}]

CallerType ==
    [Artifacts -> {"idle", "writing", "budget", "sidecar", "count", "send", "returned"}]

ToldType ==
    [Artifacts -> {"nothing", "deduplicated", "failed", "inline", "enqueued", "waiting",
    "uploaded",
                   "error", "parked", "closed"}]

WorkerType ==
    {"top", "select", "cooldown", "acquire", "drain", "drainAcquire", "joining", "exited",
     "aborted", "down"}

USE DEF CallerType, ToldType, WorkerType

(* n is a count of at least the members of S. *)
AtLeast(n, S) == n \in Nat /\ IsFiniteSet(S) /\ Cardinality(S) <= n

(* Jobs that inflight does not count, before their task has started and at its very end, and  *)
(* those that it counts.                                                                      *)
Undispatched == {"queued", "held", "spawned"}
UnderWay == {"attempt", "wire", "parked", "reacquire", "remove", "removeSidecar", "settle"}

(* The calls that have counted their item and have not sent it. *)
Sending == {<<a, "call">> : a \in {b \in Artifacts : caller[b] = "send"}}

(* What pending counts and inflight does not, what inflight counts, and who will still take a *)
(* byte off pendingBytes.  A job that has not started takes one if it finds its file.         *)
Owed == Sending \cup {j \in Jobs : job[j].at \in Undispatched \cup {"settlePending"}}
Flying == {j \in Jobs : job[j].at \in UnderWay}
Weighed ==
    Sending \cup
    {j \in Jobs : \/ job[j].at \in Undispatched /\ temp[Artifact(j)] # "none"
                  \/ job[j].at \in UnderWay \cup {"settlePending"} /\ job[j].bytes = 1}

(* The gauges.  Those of a queue whose drain timed out stay above what is left. *)
CountsInv ==
    /\ AtLeast(pending - inflight, Owed)
    /\ AtLeast(inflight, Flying)
    /\ AtLeast(pendingBytes, Weighed)

(* A job weighs nothing before its task has looked at its file. *)
FreshInv == \A j \in Jobs : job[j].at \in Undispatched \cup {"none"} => job[j].bytes = 0

SlotsInv == IsFiniteSet(slots)

(* The channel holds the queued jobs, each once. *)
ChannelInv ==
    /\ \A k \in 1 .. Len(channel) : job[channel[k]].at = "queued"
    /\ \A k, l \in 1 .. Len(channel) : channel[k] = channel[l] => k = l

(* The life of an artifact: each of its two jobs is made once in a life of the process, by    *)
(* the call that returns with it and by the scan.                                             *)
LifeOf(a) ==
    /\ caller[a] # "returned" => /\ told[a] = "nothing" /\ a \notin inline
                                 /\ job[<<a, "sent">>].at = "none"
    /\ caller[a] \in {"idle", "writing", "budget", "sidecar"} =>
         a \notin sidecar \cup todo \cup verified /\ job[<<a, "recovered">>].at = "none"
    /\ caller[a] = "idle" => temp[a] = "none"
    /\ a \in todo \cup verified \/ job[<<a, "recovered">>].at # "none" => reconcile # "fresh"
    /\ a \in todo \cup verified => job[<<a, "recovered">>].at = "none"
    /\ a \in todo => a \notin verified

LifeInv == \A a \in Artifacts : LifeOf(a)

(* A torn file is one that is being written, or that a failure or a crash left behind: no     *)
(* upload reads it.                                                                           *)
WholeOf(a) ==
    temp[a] = "torn" => /\ caller[a] \in {"writing", "returned"}
                        /\ a \notin inline /\ a \notin verified
                        /\ <<a, "sent">> \notin Unsettled /\ <<a, "recovered">> \notin Unsettled

WholeInv ==
    /\ CloudIsWhole
    /\ \A j \in Jobs : job[j].opened # "torn"
    /\ \A a \in Artifacts : WholeOf(a)

(* The store has it or a policy has given it up. *)
Disposed(a) == cloud[a] # "none" \/ a \in abandoned

(* Nobody deletes the pair of a durable artifact that is neither stored nor given up. *)
PairOf(a) ==
    kind[a] = "durable" /\ ~Disposed(a) =>
      /\ caller[a] = "writing" => temp[a] = "torn"
      /\ caller[a] \in {"budget", "sidecar"} => temp[a] = "whole"
      /\ caller[a] \in {"count", "send"} \/ told[a] = "enqueued" =>
           temp[a] = "whole" /\ a \in sidecar

FateInv ==
    /\ \A a \in Artifacts : told[a] = "uploaded" => cloud[a] # "none"
    /\ \A j \in Jobs : job[j].result = "ok" => cloud[Artifact(j)] # "none"
    /\ \A j \in Jobs : job[j].at \in {"remove", "removeSidecar"} => Disposed(Artifact(j))
    /\ \A a \in Artifacts : PairOf(a)

(* The inductive invariant. *)
IndInv == TypeOK /\ SlotsInv /\ ChannelInv /\ CountsInv /\ FreshInv /\ LifeInv /\ WholeInv
          /\ FateInv
          /\ MarksAreHeld

-----------------------------------------------------------------------------
(* Steps as they look to DurableUpload. *)

(* The caller of a durable artifact has been told that the queue has it. *)
Taken(a) == told[a] = "enqueued" /\ kind[a] = "durable"

Accepts ==
    /\ cloud' = cloud /\ abandoned' = abandoned
    /\ \A a \in Artifacts : Taken(a) => Taken(a)'

Drops ==
    /\ cloud' = cloud /\ abandoned \subseteq abandoned'
    /\ \A a \in Artifacts : Taken(a)' <=> Taken(a)

Stores ==
    \E b \in Artifacts :
      /\ cloud'[b] # "none"
      /\ \A a \in Artifacts \ {b} :
           cloud'[a] = cloud[a] /\ (a \in abandoned' <=> a \in abandoned)
      /\ \A a \in Artifacts : Taken(a)' <=> Taken(a)

(* What is shown of each step. *)
Keeps == IndInv' /\ (Accepts \/ Drops \/ Stores)

-----------------------------------------------------------------------------
(* Counts. *)

(* A count covers a smaller set, keeps pace with one member more or less, and at 0 covers     *)
(* nothing.                                                                                   *)
LEMMA CountFacts ==
    ASSUME NEW n, NEW S, AtLeast(n, S)
    PROVE  /\ \A T : T \subseteq S => AtLeast(n, T)
           /\ \A x : AtLeast(n + 1, S \cup {x})
           /\ \A x \in S : AtLeast(n - 1, S \ {x})
           /\ \A x \in S : \A y : AtLeast(n, (S \ {x}) \cup {y})
           /\ n = 0 => S = {}
  <1>1. n \in Nat /\ IsFiniteSet(S) /\ Cardinality(S) \in Nat /\ Cardinality(S) <= n
    BY FS_CardinalityType DEF AtLeast
  <1>2. ASSUME NEW T, T \subseteq S
        PROVE  AtLeast(n, T)
    <2>1. IsFiniteSet(T) /\ Cardinality(T) <= Cardinality(S) /\ Cardinality(T) \in Nat
      BY <1>1, <1>2, FS_Subset, FS_CardinalityType
    <2> QED  BY <1>1, <2>1 DEF AtLeast
  <1>3. ASSUME NEW x
        PROVE  AtLeast(n + 1, S \cup {x})
    <2>1. /\ IsFiniteSet(S \cup {x})
          /\ Cardinality(S \cup {x}) = IF x \in S THEN Cardinality(S) ELSE Cardinality(S) + 1
      BY <1>1, FS_AddElement
    <2> QED  BY <1>1, <2>1 DEF AtLeast
  <1>4. ASSUME NEW x \in S
        PROVE  AtLeast(n - 1, S \ {x})
    <2>1. IsFiniteSet(S \ {x}) /\ Cardinality(S \ {x}) = Cardinality(S) - 1
      BY <1>1, FS_RemoveElement
    <2>2. Cardinality(S \ {x}) \in Nat
      BY <2>1, FS_CardinalityType
    <2> QED  BY <1>1, <2>1, <2>2 DEF AtLeast
  <1>5. ASSUME NEW x \in S, NEW y
        PROVE  AtLeast(n, (S \ {x}) \cup {y})
    <2> DEFINE T == S \ {x}
    <2>1. IsFiniteSet(T) /\ Cardinality(T) = Cardinality(S) - 1 /\ Cardinality(T) \in Nat
      BY <1>1, FS_RemoveElement, FS_CardinalityType
    <2> HIDE DEF T
    <2>2. /\ IsFiniteSet(T \cup {y})
          /\ Cardinality(T \cup {y}) = IF y \in T THEN Cardinality(T) ELSE Cardinality(T) + 1
      BY <2>1, FS_AddElement
    <2>3. AtLeast(n, T \cup {y})
      BY <1>1, <2>1, <2>2 DEF AtLeast
    <2> QED  BY <2>3 DEF T
  <1>6. n = 0 => S = {}
    BY <1>1, FS_EmptySet
  <1> QED  BY <1>2, <1>3, <1>4, <1>5, <1>6

(* A job is an artifact as its caller sent it or as recovery found it. *)
LEMMA JobFacts ==
    /\ \A a \in Artifacts : /\ <<a, "sent">> \in Jobs /\ <<a, "recovered">> \in Jobs
                            /\ <<a, "call">> \notin Jobs
                            /\ Artifact(<<a, "sent">>) = a /\ Artifact(<<a, "recovered">>) = a
                            /\ ~Recovered(<<a, "sent">>) /\ Recovered(<<a, "recovered">>)
    /\ \A j \in Jobs : /\ Artifact(j) \in Artifacts
                       /\ IF Recovered(j) THEN j = <<Artifact(j), "recovered">>
                          ELSE j = <<Artifact(j), "sent">>
  BY DEF Jobs, Artifact, Recovered

-----------------------------------------------------------------------------
(* Steps of a task that leave its job under way, or not yet under way. *)

(* Job j alone moves, and the files that go were its own or nobody's. *)
Moves(j) ==
    /\ job' \in [Jobs -> JobType] /\ \A k \in Jobs \ {j} : job'[k] = job[k]
    /\ UNCHANGED <<caller, kind, inline, scan>>
    /\ temp' \in [Artifacts -> Files] /\ \A a \in Artifacts : temp'[a] \in {temp[a], "none"}
    /\ sidecar' \subseteq sidecar
    /\ \A a \in Artifacts : told'[a] # told[a] => told[a] = "waiting"

Stays(j) ==
    /\ Moves(j) /\ UNCHANGED <<stats, marks>>
    /\ \/ job[j].at \in UnderWay /\ job'[j].at \in UnderWay /\ job'[j].bytes = job[j].bytes
       \/ job[j].at \in Undispatched /\ job'[j].at \in Undispatched

(* A job that moves leaves the life of its artifact as it is. *)
LEMMA MovesFacts ==
    ASSUME IndInv, NEW j \in Jobs, Moves(j), job[j].at # "none", job'[j].at # "none"
    PROVE  LifeInv'
  <1>1. \A k \in Jobs : job'[k].at = "none" <=> job[k].at = "none"
    BY DEF Moves
  <1>2. /\ UNCHANGED <<caller, inline, reconcile, todo, verified>>
        /\ \A a \in Artifacts : temp'[a] \in {temp[a], "none"}
        /\ sidecar' \subseteq sidecar
        /\ \A a \in Artifacts : told'[a] # told[a] => told[a] = "waiting"
    BY DEF Moves, scan
  <1> SUFFICES ASSUME NEW a \in Artifacts
               PROVE  /\ caller[a] # "returned" =>
                           /\ told'[a] = "nothing" /\ a \notin inline
                           /\ job'[<<a, "sent">>].at = "none"
                      /\ caller[a] \in {"idle", "writing", "budget", "sidecar"} =>
                           /\ a \notin sidecar' \cup todo \cup verified
                           /\ job'[<<a, "recovered">>].at = "none"
                      /\ caller[a] = "idle" => temp'[a] = "none"
                      /\ a \in todo \cup verified \/ job'[<<a, "recovered">>].at # "none" =>
                           reconcile # "fresh"
                      /\ a \in todo \cup verified => job'[<<a, "recovered">>].at = "none"
                      /\ a \in todo => a \notin verified
    BY <1>2 DEF LifeInv, LifeOf
  <1>3. /\ <<a, "sent">> \in Jobs /\ <<a, "recovered">> \in Jobs
    BY JobFacts
  <1>4. /\ job'[<<a, "sent">>].at = "none" <=> job[<<a, "sent">>].at = "none"
        /\ job'[<<a, "recovered">>].at = "none" <=> job[<<a, "recovered">>].at = "none"
        /\ temp'[a] \in {temp[a], "none"}
        /\ told'[a] # told[a] => told[a] = "waiting"
    BY <1>1, <1>2, <1>3
  <1> QED  BY <1>2, <1>4 DEF IndInv, LifeInv, LifeOf

(* Such a step leaves the gauges and the marks as they are. *)
LEMMA StaysFacts ==
    ASSUME IndInv, NEW j \in Jobs, Stays(j)
    PROVE  CountsInv' /\ MarksAreHeld' /\ Unsettled' = Unsettled
  <1>1. \A k \in Jobs : /\ job'[k].at \in Undispatched <=> job[k].at \in Undispatched
                        /\ job'[k].at \in UnderWay <=> job[k].at \in UnderWay
                        /\ job'[k].at = "settlePending" <=> job[k].at = "settlePending"
                        /\ job'[k].at = "none" <=> job[k].at = "none"
                        /\ job'[k].at \in UnderWay \cup {"settlePending"} =>
                             job'[k].bytes = job[k].bytes
    BY DEF Stays, Moves, Undispatched, UnderWay
  <1>2. /\ UNCHANGED <<caller, kind, inline, pending, pendingBytes, inflight, marks, reconcile,
                       recovery,
                       todo, verified>>
        /\ \A a \in Artifacts : temp'[a] \in {temp[a], "none"}
        /\ sidecar' \subseteq sidecar
        /\ \A a \in Artifacts : told'[a] # told[a] => told[a] = "waiting"
    BY DEF Stays, Moves, stats, scan
  <1>3. Owed' = Owed /\ Flying' = Flying /\ Weighed' \subseteq Weighed
    <2>1. Sending' = Sending
      BY <1>2 DEF Sending
    <2>2. Owed' = Owed /\ Flying' = Flying
      BY <1>1, <2>1 DEF Owed, Flying
    <2>3. Weighed' \subseteq Weighed
      BY <1>1, <1>2, <2>1, JobFacts DEF Weighed
    <2> QED  BY <2>2, <2>3
  <1>4. CountsInv'
    BY <1>2, <1>3, CountFacts DEF IndInv, CountsInv
  <1>5. Unsettled' = Unsettled
    BY <1>1 DEF Unsettled, Waiting, Finishing, Undispatched, UnderWay
  <1>6. MarksAreHeld'
    BY <1>2, <1>5 DEF IndInv, MarksAreHeld, Dedups
  <1> QED  BY <1>4, <1>5, <1>6


(* A step of a task, or of the worker with it, as the invariant sees it. *)
Advances(j) ==
    /\ Moves(j) /\ job[j].at # "none" /\ job'[j].at # "none"
    /\ CountsInv' /\ pending' \in Nat /\ pendingBytes' \in Nat /\ inflight' \in Nat
    /\ MarksAreHeld' /\ marks' \subseteq Addressed /\ Unsettled' \subseteq Unsettled
    /\ UNCHANGED <<old, drain, draining, crashes>>
    /\ \A a \in Artifacts : temp'[a] # temp[a] \/ (a \in sidecar /\ a \notin sidecar') =>
                              Disposed(a)
    /\ cloud' \in [Artifacts -> Files] /\ \A a \in Artifacts : cloud'[a] \in {cloud[a], "whole"}
    /\ abandoned \subseteq abandoned' /\ abandoned' \subseteq Artifacts
    /\ told' = [a \in Artifacts |-> told'[a]]
    /\ \A a \in Artifacts : told'[a] \in {told[a], "uploaded", "error", "parked"}
    /\ \A a \in Artifacts : told'[a] # told[a] /\ told'[a] = "uploaded" => cloud[a] # "none"
    /\ job'[j].opened # "torn"
    /\ job'[j].at \in Undispatched => job'[j].bytes = 0
    /\ job'[j].result = "ok" => cloud'[Artifact(j)] # "none"
    /\ job'[j].at \in {"remove", "removeSidecar"} => Disposed(Artifact(j))'
    /\ slots' \subseteq Jobs /\ IsFiniteSet(slots') /\ Cardinality(slots') <= MaxConcurrent
    /\ failures' \in 0 .. Threshold
    /\ channel' \in Seq(Jobs) /\ Len(channel') <= Capacity /\ ChannelInv'
    /\ worker' \in WorkerType
    /\ cloud' = cloud
       \/ \E b \in Artifacts : /\ cloud'[b] # "none"
                               /\ \A a \in Artifacts \ {b} : /\ cloud'[a] = cloud[a]
                                                             /\ a \in abandoned' => a \in abandoned

(* Such a step keeps the invariant, and gives up or stores what it disposes of. *)
LEMMA AdvancesFacts ==
    ASSUME IndInv, NEW j \in Jobs, Advances(j)
    PROVE  Keeps
  <1>1. CountsInv' /\ LifeInv' /\ MarksAreHeld' /\ Unsettled' \subseteq Unsettled
    BY MovesFacts DEF Advances
  <1>2. Moves(j)
    BY DEF Advances
  <1>3. TypeOK'
    <2>1. told' \in ToldType
      BY DEF IndInv, TypeOK, Advances
    <2>2. job' \in [Jobs -> JobType] /\ temp' \in [Artifacts -> Files] /\ sidecar' \subseteq sidecar
      BY <1>2 DEF Moves
    <2>3. UNCHANGED <<caller, kind, inline, reconcile, recovery, todo, verified>>
      BY <1>2 DEF Moves, scan
    <2> HIDE DEF Moves
    <2> QED  BY <2>1, <2>2, <2>3 DEF IndInv, TypeOK, Advances, JobType
  <1>4. SlotsInv' /\ ChannelInv'
    BY DEF Advances, SlotsInv
  <1>5. WholeInv'
    <2>1. \A a \in Artifacts : cloud'[a] # "torn"
      BY DEF IndInv, WholeInv, WholeOf, CloudIsWhole, Advances
    <2>2. \A k \in Jobs : job'[k].opened # "torn"
      BY <1>2 DEF IndInv, WholeInv, WholeOf, Advances, Moves
    <2>3. \A a \in Artifacts : temp'[a] = "torn" => temp[a] = "torn"
      BY <1>2 DEF Moves
    <2>4. UNCHANGED <<caller, inline, verified>>
      BY <1>2 DEF Moves, scan
    <2> QED  BY <1>1, <2>1, <2>2, <2>3, <2>4 DEF IndInv, WholeInv, WholeOf, CloudIsWhole
  <1>6. FateInv'
    <2>0. \A a \in Artifacts : Disposed(a) => Disposed(a)'
      BY DEF Advances, Disposed
    <2>1. \A a \in Artifacts : told'[a] = "uploaded" => cloud'[a] # "none"
      BY DEF IndInv, FateInv, PairOf, Advances
    <2>2. \A k \in Jobs : job'[k].result = "ok" => cloud'[Artifact(k)] # "none"
      <3>1. /\ job'[j].result = "ok" => cloud'[Artifact(j)] # "none"
            /\ \A a \in Artifacts : cloud'[a] \in {cloud[a], "whole"}
        BY DEF Advances
      <3>2. \A k \in Jobs \ {j} : job'[k] = job[k]
        BY <1>2 DEF Moves
      <3> QED  BY <3>1, <3>2, JobFacts DEF IndInv, FateInv, PairOf
    <2>3. \A k \in Jobs : job'[k].at \in {"remove", "removeSidecar"} => Disposed(Artifact(k))'
      BY <1>2, <2>0, JobFacts DEF IndInv, FateInv, PairOf, Advances, Moves
    <2>4. ASSUME NEW a \in Artifacts, kind'[a] = "durable", ~Disposed(a)'
          PROVE  /\ caller'[a] = "writing" => temp'[a] = "torn"
                 /\ caller'[a] \in {"budget", "sidecar"} => temp'[a] = "whole"
                 /\ caller'[a] \in {"count", "send"} \/ told'[a] = "enqueued" =>
                      temp'[a] = "whole" /\ a \in sidecar'
      <3>1. kind[a] = "durable" /\ ~Disposed(a) /\ caller'[a] = caller[a]
        BY <1>2, <2>0, <2>4 DEF Moves
      <3>2. temp'[a] = temp[a] /\ (a \in sidecar => a \in sidecar')
        BY <3>1 DEF Advances
      <3>3. told'[a] = "enqueued" => told[a] = "enqueued"
        BY DEF Advances
      <3> QED  BY <3>1, <3>2, <3>3 DEF IndInv, FateInv, PairOf
    <2> QED  BY <2>1, <2>2, <2>3, <2>4 DEF FateInv, PairOf
  <1>7. \A a \in Artifacts : Taken(a)' <=> Taken(a)
    BY <1>2 DEF Advances, Moves, Taken
  <1>8. Drops \/ Stores
    <2>1. CASE cloud' = cloud
      BY <1>7, <2>1 DEF Drops, Advances
    <2>2. CASE cloud' # cloud
      BY <1>7, <2>2 DEF Stores, Advances
    <2> QED  BY <2>1, <2>2
  <1>9. FreshInv'
    BY <1>2 DEF IndInv, FreshInv, Advances, Moves
  <1> QED  BY <1>1, <1>3, <1>4, <1>5, <1>6, <1>8, <1>9 DEF Keeps, IndInv


-----------------------------------------------------------------------------
(* The task of a job. *)

(* The task of job j goes on with r; the queue around it does not move. *)
Works(j, r) ==
    /\ job' = [job EXCEPT ![j] = r] /\ r \in JobType /\ r.opened # "torn"
    /\ job[j].at \in UnderWay /\ r.at \in UnderWay /\ r.bytes = job[j].bytes
    /\ UNCHANGED <<kind, caller, inline, old, channel, worker, drain, draining, stats, marks,
                   scan,
                   crashes>>

(* What a task can do to the rest of the state. *)
Touches(j, r) ==
    /\ temp' \in {temp, [temp EXCEPT ![Artifact(j)] = "none"]}
    /\ sidecar' \in {sidecar, sidecar \ {Artifact(j)}}
    /\ (temp' = temp /\ sidecar' = sidecar) \/ Disposed(Artifact(j))
    /\ cloud' \in {cloud, [cloud EXCEPT ![Artifact(j)] = "whole"]}
    /\ abandoned' \in {abandoned, abandoned \cup {Artifact(j)}}
    /\ told' = told \/ \E t \in {"uploaded", "error", "parked"} :
         /\ t = "uploaded" => cloud[Artifact(j)] # "none"
         /\ told[Artifact(j)] = "waiting" /\ told' = [told EXCEPT ![Artifact(j)] = t]
    /\ r.result = "ok" => cloud'[Artifact(j)] # "none"
    /\ r.at \in {"remove", "removeSidecar"} => Disposed(Artifact(j))'
    /\ slots' \subseteq Jobs /\ IsFiniteSet(slots') /\ Cardinality(slots') <= MaxConcurrent
    /\ failures' \in 0 .. Threshold

(* Such a step advances the job. *)
LEMMA WorksFacts ==
    ASSUME IndInv, NEW j \in Jobs, NEW r, Works(j, r), Touches(j, r)
    PROVE  Keeps
  <1> SUFFICES Advances(j)
    BY AdvancesFacts
  <1>0. /\ job \in [Jobs -> JobType] /\ temp \in [Artifacts -> Files]
        /\ cloud \in [Artifacts -> Files] /\ Artifact(j) \in Artifacts
        /\ channel \in Seq(Jobs) /\ Len(channel) <= Capacity
    BY JobFacts DEF IndInv, TypeOK, JobType
  <1>1. /\ job' \in [Jobs -> JobType] /\ \A k \in Jobs \ {j} : job'[k] = job[k]
        /\ job'[j] = r
    BY <1>0 DEF Works
  <1>2. /\ temp' \in [Artifacts -> Files] /\ \A a \in Artifacts : temp'[a] \in {temp[a], "none"}
        /\ sidecar' \subseteq sidecar
        /\ \A a \in Artifacts : temp'[a] # temp[a] \/ (a \in sidecar /\ a \notin sidecar') =>
                                  Disposed(a)
    <2>1. temp' \in [Artifacts -> Files] /\ \A a \in Artifacts : temp'[a] \in {temp[a], "none"}
      BY <1>0 DEF Touches, Files
    <2>2. \A a \in Artifacts : temp'[a] # temp[a] \/ (a \in sidecar /\ a \notin sidecar') =>
                                 Disposed(a)
      <3> SUFFICES ASSUME NEW a \in Artifacts, a # Artifact(j)
                   PROVE  temp'[a] = temp[a] /\ (a \in sidecar => a \in sidecar')
        BY DEF Touches
      <3> QED  BY <1>0 DEF Touches
    <2> QED  BY <2>1, <2>2 DEF Touches
  <1>3. /\ told' = [a \in Artifacts |-> told'[a]]
        /\ \A a \in Artifacts : told'[a] # told[a] => told[a] = "waiting"
        /\ \A a \in Artifacts : told'[a] \in {told[a], "uploaded", "error", "parked"}
        /\ \A a \in Artifacts : told'[a] # told[a] /\ told'[a] = "uploaded" => cloud[a] # "none"
    <2>1. told = [a \in Artifacts |-> told[a]]
      BY DEF IndInv, TypeOK
    <2>2. CASE told' = told
      BY <2>1, <2>2
    <2>3. CASE told' # told
      <3>1. PICK t \in {"uploaded", "error", "parked"} :
              /\ t = "uploaded" => cloud[Artifact(j)] # "none"
              /\ told[Artifact(j)] = "waiting" /\ told' = [told EXCEPT ![Artifact(j)] = t]
        BY <2>3 DEF Touches
      <3> QED  BY <1>0, <2>1, <3>1
    <2> QED  BY <2>2, <2>3
  <1>4. /\ cloud' \in [Artifacts -> Files] /\ \A a \in Artifacts : cloud'[a] \in {cloud[a], "whole"}
        /\ abandoned \subseteq abandoned' /\ abandoned' \subseteq Artifacts
        /\ cloud' = cloud
           \/ \E b \in Artifacts : /\ cloud'[b] # "none"
                                   /\ \A a \in Artifacts \ {b} : /\ cloud'[a] = cloud[a]
                                                                 /\ a \in abandoned' => a \in abandoned
    <2>1. cloud' \in [Artifacts -> Files] /\ \A a \in Artifacts : cloud'[a] \in {cloud[a], "whole"}
      BY <1>0 DEF Touches, Files
    <2>2. abandoned \subseteq abandoned' /\ abandoned' \subseteq Artifacts
      BY <1>0 DEF Touches, IndInv, TypeOK
    <2>3. CASE cloud' = [cloud EXCEPT ![Artifact(j)] = "whole"]
      BY <1>0, <2>1, <2>2, <2>3 DEF Touches
    <2> QED  BY <2>1, <2>2, <2>3 DEF Touches
  <1>5. Stays(j)
    BY <1>1, <1>2, <1>3 DEF Stays, Moves, Works
  <1>6. channel' \in Seq(Jobs) /\ Len(channel') <= Capacity /\ ChannelInv'
    <2>1. \A k \in 1 .. Len(channel) : channel[k] \in Jobs /\ channel[k] # j
      BY <1>0 DEF IndInv, ChannelInv, Works, UnderWay
    <2> QED  BY <1>0, <1>1, <2>1 DEF IndInv, ChannelInv, Works
  <1>7. /\ UNCHANGED <<old, drain, draining, crashes>>
        /\ worker' \in WorkerType
    BY DEF IndInv, TypeOK, Works
  <1>8. /\ job'[j].opened # "torn"
        /\ job'[j].at \in Undispatched => job'[j].bytes = 0
        /\ job'[j].result = "ok" => cloud'[Artifact(j)] # "none"
        /\ job'[j].at \in {"remove", "removeSidecar"} => Disposed(Artifact(j))'
        /\ slots' \subseteq Jobs /\ IsFiniteSet(slots') /\ Cardinality(slots') <= MaxConcurrent
        /\ failures' \in 0 .. Threshold
    BY <1>1 DEF Works, Touches, UnderWay, Undispatched
  <1>9. /\ CountsInv' /\ pending' \in Nat /\ pendingBytes' \in Nat /\ inflight' \in Nat
        /\ MarksAreHeld' /\ marks' \subseteq Addressed /\ Unsettled' \subseteq Unsettled
    <2>1. CountsInv' /\ MarksAreHeld' /\ Unsettled' = Unsettled
      BY <1>5, StaysFacts
    <2> QED  BY <2>1 DEF IndInv, TypeOK, Works, stats
  <1>10. Moves(j) /\ job[j].at # "none" /\ job'[j].at # "none"
    BY <1>5 DEF Stays, UnderWay, Undispatched
  <1> QED  BY <1>2, <1>3, <1>4, <1>6, <1>7, <1>8, <1>9, <1>10 DEF Advances

(* What a task that has its result goes on with. *)
LEMMA EndedFacts ==
    ASSUME NEW x \in {"none", "ok", "failed", "expired"}, NEW b \in 0 .. 1
    PROVE  /\ Ended(x, b) \in JobType
           /\ Ended(x, b).at = "remove" /\ Ended(x, b).result = x /\ Ended(x, b).bytes = b
           /\ Ended(x, b).opened = "none"
  <1>1. 0 \in 0 .. MaxAttempts /\ FALSE \in BOOLEAN
    BY UploadAssumption
  <1>2. NoJob \in JobType
    BY <1>1 DEF NoJob, JobType, Files
  <1> HIDE DEF NoJob
  <1>3. Ended(x, b) \in JobType
    BY <1>2 DEF Ended, JobType, Finishing
  <1>4. /\ Ended(x, b).at = "remove" /\ Ended(x, b).result = x /\ Ended(x, b).bytes = b
    BY <1>2 DEF Ended, JobType
  <1>5. NoJob.opened = "none"
    BY DEF NoJob
  <1>6. Ended(x, b).opened = "none"
    BY <1>2, <1>5 DEF Ended, JobType
  <1> QED  BY <1>3, <1>4, <1>6

(* The types the steps below start from. *)
LEMMA TaskTypes ==
    ASSUME IndInv, NEW j \in Jobs
    PROVE  /\ job \in [Jobs -> JobType] /\ job[j] \in JobType /\ Artifact(j) \in Artifacts
           /\ job[j].at \in Waiting \cup Finishing \cup {"none", "aborted", "settled"}
           /\ job[j].attempts \in 0 .. MaxAttempts
           /\ job[j].authRetried \in BOOLEAN /\ job[j].old \in BOOLEAN /\ job[j].opened \in Files
           /\ job[j].bytes \in 0 .. 1 /\ job[j].result \in {"none", "ok", "failed", "expired"}
           /\ job[j].opened # "torn"
           /\ job[j].result = "ok" => cloud[Artifact(j)] # "none"
           /\ job[j].at \in {"remove", "removeSidecar"} => Disposed(Artifact(j))
           /\ slots \subseteq Jobs /\ IsFiniteSet(slots) /\ Cardinality(slots) <= MaxConcurrent
           /\ failures \in 0 .. Threshold
  <1>1. job \in [Jobs -> JobType] /\ Artifact(j) \in Artifacts
    BY JobFacts DEF IndInv, TypeOK, JobType
  <1>2. job[j] \in JobType
    BY <1>1
  <1> QED  BY <1>1, <1>2 DEF IndInv, TypeOK, SlotsInv, WholeInv, WholeOf, FateInv, PairOf, JobType

(* The slots that a task can leave. *)
LEMMA SlotFacts ==
    ASSUME IndInv, NEW j \in Jobs
    PROVE  /\ IsFiniteSet(slots \ {j}) /\ Cardinality(slots \ {j}) <= MaxConcurrent
           /\ SlotFree => /\ IsFiniteSet(slots \cup {j})
                          /\ Cardinality(slots \cup {j}) <= MaxConcurrent
  <1>1. IsFiniteSet(slots) /\ Cardinality(slots) \in Nat /\ Cardinality(slots) <= MaxConcurrent
    BY FS_CardinalityType DEF IndInv, TypeOK, SlotsInv
  <1>2. /\ IsFiniteSet(slots \ {j})
        /\ Cardinality(slots \ {j}) = IF j \in slots THEN Cardinality(slots) - 1 ELSE Cardinality(slots)
    BY <1>1, FS_RemoveElement
  <1>3. /\ IsFiniteSet(slots \cup {j})
        /\ Cardinality(slots \cup {j}) = IF j \in slots THEN Cardinality(slots) ELSE Cardinality(slots) + 1
    BY <1>1, FS_AddElement
  <1> QED  BY <1>1, <1>2, <1>3, UploadAssumption DEF SlotFree

(* An attempt opens a file that is not torn. *)
LEMMA AttemptStep ==
    ASSUME IndInv, NEW j \in Jobs, Attempt(j)
    PROVE  Keeps
  <1> DEFINE r == [job[j] EXCEPT !.at = "wire", !.attempts = Capped(job[j].attempts + 1),
                                  !.opened = temp[Artifact(j)]]
  <1>1. Capped(job[j].attempts + 1) \in 0 .. MaxAttempts
    BY TaskTypes, UploadAssumption DEF Capped
  <1>2. temp[Artifact(j)] \in Files /\ temp[Artifact(j)] # "torn"
    BY TaskTypes, JobFacts DEF IndInv, TypeOK, WholeInv, WholeOf, Unsettled, Attempt, Waiting
  <1>3. /\ r \in JobType /\ r.at = "wire" /\ r.opened = temp[Artifact(j)]
        /\ r.bytes = job[j].bytes /\ r.result = job[j].result
    BY <1>1, <1>2, TaskTypes DEF JobType, Waiting
  <1>4. job' = [job EXCEPT ![j] = r]
    <2>1. job \in [Jobs -> JobType]
      BY TaskTypes
    <2> QED  BY <2>1 DEF Attempt, JobType
  <1> HIDE DEF r
  <1>5. Works(j, r)
    BY <1>2, <1>3, <1>4, TaskTypes DEF Attempt, Works, UnderWay, disk, callers, loop
  <1>6. Touches(j, r)
    BY <1>3, TaskTypes DEF Attempt, Touches, Disposed, disk, callers, loop
  <1> QED  BY <1>5, <1>6, WorksFacts

(* The artifact is stored before its files go. *)
LEMMA UploadedStep ==
    ASSUME IndInv, NEW j \in Jobs, Uploaded(j)
    PROVE  Keeps
  <1> DEFINE r == Ended("ok", job[j].bytes)
  <1>1. /\ r \in JobType /\ r.at = "remove" /\ r.result = "ok" /\ r.bytes = job[j].bytes
        /\ r.opened = "none"
    BY TaskTypes, EndedFacts
  <1>2. job' = [job EXCEPT ![j] = r]
    BY TaskTypes DEF Uploaded
  <1> HIDE DEF r
  <1>3. Works(j, r)
    BY <1>1, <1>2, TaskTypes DEF Uploaded, Works, UnderWay, callers, unpaused
  <1>4. job[j].opened = "whole"
    BY TaskTypes DEF Uploaded, Files
  <1>5. cloud' = [cloud EXCEPT ![Artifact(j)] = "whole"] /\ cloud'[Artifact(j)] = "whole"
    BY <1>4, TaskTypes DEF Uploaded, IndInv, TypeOK
  <1>6. Disposed(Artifact(j))' /\ failures' \in 0 .. Threshold
    BY <1>5, UploadAssumption DEF Uploaded, Disposed
  <1>7. Touches(j, r)
    BY <1>1, <1>5, <1>6, TaskTypes DEF Uploaded, Touches, callers
  <1> QED  BY <1>3, <1>7, WorksFacts

(* A task that gives its artifact up. *)
LEMMA AbandonFacts ==
    ASSUME IndInv, NEW j \in Jobs, Abandon(j)
    PROVE  /\ job' = [job EXCEPT ![j] = Ended("failed", job[j].bytes)]
           /\ Ended("failed", job[j].bytes) \in JobType
           /\ Ended("failed", job[j].bytes).at = "remove"
           /\ Ended("failed", job[j].bytes).result = "failed"
           /\ Ended("failed", job[j].bytes).bytes = job[j].bytes
           /\ Ended("failed", job[j].bytes).opened = "none"
           /\ abandoned' = abandoned \cup {Artifact(j)} /\ Disposed(Artifact(j))'
  <1>1. job[j].bytes \in 0 .. 1 /\ job \in [Jobs -> JobType]
    BY TaskTypes
  <1>2. job' = [job EXCEPT ![j] = Ended("failed", job[j].bytes)]
    BY <1>1 DEF Abandon
  <1> QED  BY <1>1, <1>2, EndedFacts DEF Abandon, Disposed

(* An upload that is refused gives its artifact up before its files go. *)
LEMMA TerminalStep ==
    ASSUME IndInv, NEW j \in Jobs, Terminal(j)
    PROVE  Keeps
  <1> DEFINE r == Ended("failed", job[j].bytes)
  <1>1. /\ job' = [job EXCEPT ![j] = r] /\ r \in JobType /\ r.at = "remove" /\ r.result = "failed"
        /\ r.bytes = job[j].bytes /\ r.opened = "none"
        /\ abandoned' = abandoned \cup {Artifact(j)} /\ Disposed(Artifact(j))'
    BY AbandonFacts DEF Terminal
  <1> HIDE DEF r
  <1>2. Works(j, r)
    BY <1>1, TaskTypes DEF Terminal, Works, UnderWay, disk, callers, loop
  <1>3. Touches(j, r)
    BY <1>1, TaskTypes DEF Terminal, Touches, disk, callers, loop
  <1> QED  BY <1>2, <1>3, WorksFacts

(* So does one that has used its last attempt; the others try again. *)
LEMMA RetryableStep ==
    ASSUME IndInv, NEW j \in Jobs, Retryable(j)
    PROVE  Keeps
  <1>1. cloud' \in {cloud, [cloud EXCEPT ![Artifact(j)] = "whole"]}
    <2>1. job[j].opened \in {"none", "whole"}
      BY TaskTypes DEF Files
    <2> QED  BY <2>1 DEF Retryable
  <1>2. CASE GiveUp(j)
    <2> DEFINE r == Ended("failed", job[j].bytes)
    <2>1. /\ job' = [job EXCEPT ![j] = r] /\ r \in JobType /\ r.at = "remove"
          /\ r.result = "failed"
          /\ r.bytes = job[j].bytes /\ r.opened = "none"
          /\ abandoned' = abandoned \cup {Artifact(j)} /\ Disposed(Artifact(j))'
      BY <1>2, AbandonFacts DEF GiveUp
    <2>2. failures' \in 0 .. Threshold
      BY <1>2, TaskTypes, UploadAssumption DEF GiveUp
    <2> HIDE DEF r
    <2>3. Works(j, r)
      BY <2>1, TaskTypes DEF Retryable, Works, UnderWay, callers, unpaused
    <2>4. Touches(j, r)
      BY <1>1, <2>1, <2>2, TaskTypes DEF Retryable, Touches, callers
    <2> QED  BY <2>3, <2>4, WorksFacts
  <1>3. CASE /\ job' = [job EXCEPT ![j].at = "attempt", ![j].opened = "none"]
             /\ UNCHANGED <<failures, abandoned>>
    <2> DEFINE r == [job[j] EXCEPT !.at = "attempt", !.opened = "none"]
    <2>1. /\ r \in JobType /\ r.at = "attempt" /\ r.opened = "none" /\ r.bytes = job[j].bytes
          /\ r.result = job[j].result
      BY TaskTypes DEF JobType, Waiting, Files
    <2>2. job' = [job EXCEPT ![j] = r]
      BY <1>3, TaskTypes DEF JobType
    <2> HIDE DEF r
    <2>3. Works(j, r)
      BY <2>1, <2>2, TaskTypes DEF Retryable, Works, UnderWay, callers, unpaused
    <2>4. cloud[Artifact(j)] # "none" => cloud'[Artifact(j)] # "none"
      BY <1>1, TaskTypes DEF IndInv, TypeOK
    <2>5. Touches(j, r)
      BY <1>1, <1>3, <2>1, <2>4, TaskTypes DEF Retryable, Touches, callers
    <2> QED  BY <2>3, <2>5, WorksFacts
  <1> QED  BY <1>2, <1>3 DEF Retryable

(* The first 401 changes nothing but the attempt. *)
LEMMA AuthRetryStep ==
    ASSUME IndInv, NEW j \in Jobs, AuthRetry(j)
    PROVE  Keeps
  <1> DEFINE r == [job[j] EXCEPT !.at = "attempt", !.authRetried = TRUE, !.opened = "none"]
  <1>1. /\ r \in JobType /\ r.at = "attempt" /\ r.opened = "none" /\ r.bytes = job[j].bytes
        /\ r.result = job[j].result
    BY TaskTypes DEF JobType, Waiting, Files
  <1>2. job' = [job EXCEPT ![j] = r]
    BY TaskTypes DEF AuthRetry, JobType
  <1> HIDE DEF r
  <1>3. Works(j, r)
    BY <1>1, <1>2, TaskTypes DEF AuthRetry, Works, UnderWay, disk, callers, loop
  <1>4. Touches(j, r)
    BY <1>1, TaskTypes DEF AuthRetry, Touches, disk, callers, loop
  <1> QED  BY <1>3, <1>4, WorksFacts

(* A job that parks leaves its slot, and its waiter, who is not told of an upload. *)
LEMMA ParkStep ==
    ASSUME IndInv, NEW j \in Jobs, Park(j)
    PROVE  Keeps
  <1>1. slots' \subseteq Jobs /\ IsFiniteSet(slots') /\ Cardinality(slots') <= MaxConcurrent
    BY TaskTypes, SlotFacts DEF Park, Released
  <1>2. told' = told \/ /\ told[Artifact(j)] = "waiting"
                        /\ told' = [told EXCEPT ![Artifact(j)] = "parked"]
    BY DEF Park, Notified
  <1>3. CASE GiveUp(j)
    <2> DEFINE r == Ended("failed", job[j].bytes)
    <2>1. /\ job' = [job EXCEPT ![j] = r] /\ r \in JobType /\ r.at = "remove"
          /\ r.result = "failed"
          /\ r.bytes = job[j].bytes /\ r.opened = "none"
          /\ abandoned' = abandoned \cup {Artifact(j)} /\ Disposed(Artifact(j))'
      BY <1>3, AbandonFacts DEF GiveUp
    <2>2. failures' \in 0 .. Threshold
      BY <1>3, TaskTypes, UploadAssumption DEF GiveUp
    <2> HIDE DEF r
    <2>3. Works(j, r)
      BY <2>1, TaskTypes DEF Park, Works, UnderWay, disk, unpaused
    <2>4. Touches(j, r)
      BY <1>1, <1>2, <2>1, <2>2, TaskTypes DEF Park, Touches, disk
    <2> QED  BY <2>3, <2>4, WorksFacts
  <1>4. CASE /\ job' = [job EXCEPT ![j].at = "parked", ![j].opened = "none"]
             /\ UNCHANGED <<abandoned, failures>>
    <2> DEFINE r == [job[j] EXCEPT !.at = "parked", !.opened = "none"]
    <2>1. /\ r \in JobType /\ r.at = "parked" /\ r.opened = "none" /\ r.bytes = job[j].bytes
          /\ r.result = job[j].result
      BY TaskTypes DEF JobType, Waiting, Files
    <2>2. job' = [job EXCEPT ![j] = r]
      BY <1>4, TaskTypes DEF JobType
    <2> HIDE DEF r
    <2>3. Works(j, r)
      BY <2>1, <2>2, TaskTypes DEF Park, Works, UnderWay, disk, unpaused
    <2>4. Touches(j, r)
      BY <1>1, <1>2, <1>4, <2>1, TaskTypes DEF Park, Touches, disk
    <2> QED  BY <2>3, <2>4, WorksFacts
  <1> QED  BY <1>3, <1>4 DEF Park

(* A parked job wakes as it was. *)
LEMMA WakeStep ==
    ASSUME IndInv, NEW j \in Jobs, Wake(j)
    PROVE  Keeps
  <1> DEFINE r == [job[j] EXCEPT !.at = "reacquire"]
  <1>1. /\ r \in JobType /\ r.at = "reacquire" /\ r.opened = job[j].opened
        /\ r.bytes = job[j].bytes /\ r.result = job[j].result
    BY TaskTypes DEF JobType, Waiting
  <1>2. job' = [job EXCEPT ![j] = r]
    BY TaskTypes DEF Wake, JobType
  <1> HIDE DEF r
  <1>3. Works(j, r)
    BY <1>1, <1>2, TaskTypes DEF Wake, Works, UnderWay, disk, callers, loop
  <1>4. Touches(j, r)
    BY <1>1, TaskTypes DEF Wake, Touches, disk, callers, loop
  <1> QED  BY <1>3, <1>4, WorksFacts

(* A parked job that gives up has disposed of its artifact. *)
LEMMA ParkEndsStep ==
    ASSUME IndInv, NEW j \in Jobs, ParkEnds(j) \/ CredentialGone(j)
    PROVE  Keeps
  <1> DEFINE r == Ended("failed", job[j].bytes)
  <1>1. /\ job' = [job EXCEPT ![j] = r] /\ r \in JobType /\ r.at = "remove" /\ r.result = "failed"
        /\ r.bytes = job[j].bytes /\ r.opened = "none"
        /\ abandoned' = abandoned \cup {Artifact(j)} /\ Disposed(Artifact(j))'
    BY AbandonFacts DEF ParkEnds, CredentialGone, GiveUp
  <1>2. failures' \in 0 .. Threshold
    BY TaskTypes, UploadAssumption DEF ParkEnds, CredentialGone, GiveUp
  <1>3. /\ job[j].at = "parked"
        /\ UNCHANGED <<disk, callers, slots, unpaused, stats, marks, scan, crashes>>
    BY DEF ParkEnds, CredentialGone
  <1> HIDE DEF r
  <1>4. Works(j, r)
    BY <1>1, <1>3, TaskTypes DEF Works, UnderWay, disk, callers, unpaused
  <1>5. Touches(j, r)
    BY <1>1, <1>2, <1>3, TaskTypes DEF Touches, disk, callers
  <1> QED  BY <1>4, <1>5, WorksFacts

(* A slot is taken again only when one is free. *)
LEMMA ReacquireStep ==
    ASSUME IndInv, NEW j \in Jobs, Reacquire(j)
    PROVE  Keeps
  <1> DEFINE r == [job[j] EXCEPT !.at = "attempt", !.authRetried = FALSE]
  <1>1. /\ r \in JobType /\ r.at = "attempt" /\ r.opened = job[j].opened
        /\ r.bytes = job[j].bytes /\ r.result = job[j].result
    BY TaskTypes DEF JobType, Waiting
  <1>2. job' = [job EXCEPT ![j] = r]
    BY TaskTypes DEF Reacquire, JobType
  <1> HIDE DEF r
  <1>3. Works(j, r)
    BY <1>1, <1>2, TaskTypes DEF Reacquire, Works, UnderWay, disk, callers, loop
  <1>4. slots' \subseteq Jobs /\ IsFiniteSet(slots') /\ Cardinality(slots') <= MaxConcurrent
    BY TaskTypes, SlotFacts DEF Reacquire
  <1>5. Touches(j, r)
    BY <1>1, <1>4, TaskTypes DEF Reacquire, Touches, disk, callers, loop
  <1> QED  BY <1>3, <1>5, WorksFacts

(* The temp file goes when the artifact has been disposed of ... *)
LEMMA RemoveTempStep ==
    ASSUME IndInv, NEW j \in Jobs, RemoveTemp(j)
    PROVE  Keeps
  <1> DEFINE r == [job[j] EXCEPT !.at = "removeSidecar"]
  <1>1. /\ r \in JobType /\ r.at = "removeSidecar" /\ r.opened = job[j].opened
        /\ r.bytes = job[j].bytes /\ r.result = job[j].result
    BY TaskTypes DEF JobType, Finishing
  <1>2. job' = [job EXCEPT ![j] = r]
    BY TaskTypes DEF RemoveTemp, JobType
  <1> HIDE DEF r
  <1>3. Works(j, r)
    BY <1>1, <1>2, TaskTypes DEF RemoveTemp, Works, UnderWay, callers, loop
  <1>4. Disposed(Artifact(j)) /\ Disposed(Artifact(j))'
    BY TaskTypes DEF RemoveTemp, Disposed
  <1>5. Touches(j, r)
    BY <1>1, <1>4, TaskTypes DEF RemoveTemp, Touches, callers, loop
  <1> QED  BY <1>3, <1>5, WorksFacts

(* ... and so does the sidecar; a waiter who is told of an upload finds it stored. *)
LEMMA RemoveSidecarStep ==
    ASSUME IndInv, NEW j \in Jobs, RemoveSidecar(j)
    PROVE  Keeps
  <1> DEFINE r == [job[j] EXCEPT !.at = "settle", !.result = "none"]
  <1>1. /\ r \in JobType /\ r.at = "settle" /\ r.opened = job[j].opened
        /\ r.bytes = job[j].bytes /\ r.result = "none"
    BY TaskTypes DEF JobType, Finishing
  <1>2. job' = [job EXCEPT ![j] = r]
    BY TaskTypes DEF RemoveSidecar, JobType
  <1> HIDE DEF r
  <1>3. Works(j, r)
    BY <1>1, <1>2, TaskTypes DEF RemoveSidecar, Works, UnderWay, loop
  <1>4. Disposed(Artifact(j))
    BY TaskTypes DEF RemoveSidecar
  <1>5. told' = told \/ \E t \in {"uploaded", "error", "parked"} :
          /\ t = "uploaded" => cloud[Artifact(j)] # "none"
          /\ told[Artifact(j)] = "waiting" /\ told' = [told EXCEPT ![Artifact(j)] = t]
    BY TaskTypes DEF RemoveSidecar, Notified
  <1>6. Touches(j, r)
    BY <1>1, <1>4, <1>5, TaskTypes DEF RemoveSidecar, Touches, loop
  <1> QED  BY <1>3, <1>6, WorksFacts

(* The gauges while a job moves from one side of inflight to the other. *)
LEMMA GaugeTypes ==
    ASSUME IndInv
    PROVE  /\ pending \in Nat /\ inflight \in Nat /\ pendingBytes \in Nat
           /\ AtLeast(pending - inflight, Owed) /\ AtLeast(inflight, Flying)
           /\ AtLeast(pendingBytes, Weighed)
  BY DEF IndInv, TypeOK, CountsInv

(* Job j alone moves to r; nothing else of the queue moves but its gauges. *)
Counts(j, r) ==
    /\ job' = [job EXCEPT ![j] = r] /\ r \in JobType /\ r.opened \in {"none", job[j].opened}
    /\ job[j].at \notin {"queued", "none"} /\ r.at \notin Undispatched \cup {"none"}
    /\ r.at \in Waiting \cup Finishing => job[j].at \in Waiting \cup Finishing
    /\ r.result \in {job[j].result, "none", "expired"}
    /\ r.at \in {"remove", "removeSidecar"} => Disposed(Artifact(j))'
    /\ abandoned' \in {abandoned, abandoned \cup {Artifact(j)}}
    /\ told' \in {told, Notified(j, "error")}
    /\ slots' \in {slots, slots \ {j}}
    /\ marks' \subseteq marks
    /\ UNCHANGED <<disk, kind, caller, inline, loop, scan, crashes>>

(* Such a step keeps the invariant, if it keeps the gauges and the marks. *)
LEMMA CountsFacts ==
    ASSUME IndInv, NEW j \in Jobs, NEW r, Counts(j, r), CountsInv', MarksAreHeld',
           pending' \in Nat, pendingBytes' \in Nat, inflight' \in Nat
    PROVE  Keeps
  <1> SUFFICES Advances(j)
    BY AdvancesFacts
  <1>1. job' \in [Jobs -> JobType] /\ job'[j] = r /\ \A k \in Jobs \ {j} : job'[k] = job[k]
    BY TaskTypes DEF Counts
  <1>2. /\ UNCHANGED <<temp, sidecar, old, cloud, kind, caller, inline, channel, worker, failures,
                       drain, draining, reconcile, recovery, todo, verified, crashes>>
    BY DEF Counts, disk, loop, scan
  <1>3. /\ told' = [a \in Artifacts |-> told'[a]]
        /\ \A a \in Artifacts : told'[a] # told[a] => told[a] = "waiting" /\ told'[a] = "error"
    <2>1. told = [a \in Artifacts |-> told[a]]
      BY DEF IndInv, TypeOK
    <2> QED  BY <2>1, TaskTypes DEF Counts, Notified
  <1>4. Moves(j)
    BY <1>1, <1>2, <1>3 DEF Moves, scan, IndInv, TypeOK
  <1>5. Unsettled' \subseteq Unsettled
    BY <1>1 DEF Unsettled, Counts
  <1>6. channel' \in Seq(Jobs) /\ Len(channel') <= Capacity /\ ChannelInv'
    <2>1. \A k \in 1 .. Len(channel) : channel[k] \in Jobs /\ channel[k] # j
      BY DEF IndInv, TypeOK, ChannelInv, Counts
    <2> QED  BY <1>1, <1>2, <2>1 DEF IndInv, TypeOK, ChannelInv
  <1>7. /\ cloud' \in [Artifacts -> Files] /\ \A a \in Artifacts : cloud'[a] \in {cloud[a], "whole"}
        /\ worker' \in WorkerType
        /\ failures' \in 0 .. Threshold
    BY <1>2 DEF IndInv, TypeOK
  <1>8. /\ job'[j].opened # "torn" /\ job[j].at # "none"
        /\ job'[j].at \notin Undispatched \cup {"none"}
        /\ job'[j].result = "ok" => cloud'[Artifact(j)] # "none"
        /\ job'[j].at \in {"remove", "removeSidecar"} => Disposed(Artifact(j))'
    BY <1>1, <1>2, TaskTypes DEF Counts
  <1>9. /\ abandoned \subseteq abandoned' /\ abandoned' \subseteq Artifacts
        /\ marks' \subseteq Addressed
    BY TaskTypes DEF Counts, IndInv, TypeOK
  <1>10. slots' \subseteq Jobs /\ IsFiniteSet(slots') /\ Cardinality(slots') <= MaxConcurrent
    BY TaskTypes, SlotFacts DEF Counts
  <1> QED  BY <1>2, <1>3, <1>4, <1>5, <1>6, <1>7, <1>8, <1>9, <1>10 DEF Advances

(* The task of a job starts: what it will settle is in the gauges already. *)
LEMMA StartStep ==
    ASSUME IndInv, NEW j \in Jobs, Start(j)
    PROVE  Keeps
  <1> DEFINE b == IF temp[Artifact(j)] = "none" THEN 0 ELSE 1
             r == IF Expired(j) THEN Ended("expired", b)
                  ELSE [job[j] EXCEPT !.at = "attempt", !.bytes = b]
  <1>0. b \in 0 .. 1
    OBVIOUS
  <1>1. /\ r \in JobType /\ r.at \in {"attempt", "remove"} /\ r.bytes = b
        /\ r.opened \in {"none", job[j].opened} /\ r.result \in {job[j].result, "expired"}
        /\ r.at = "remove" => Expired(j)
    <2>1. CASE Expired(j)
      BY <1>0, <2>1, EndedFacts
    <2>2. CASE ~Expired(j)
      BY <1>0, <2>2, TaskTypes DEF JobType, Waiting
    <2> QED  BY <2>1, <2>2
  <1>2. job' = [job EXCEPT ![j] = r]
    <2>1. CASE Expired(j)
      BY <2>1 DEF Start
    <2>2. CASE ~Expired(j)
      BY <2>2, TaskTypes DEF Start, JobType
    <2> QED  BY <2>1, <2>2
  <1>3. r.at = "remove" => Disposed(Artifact(j))'
    BY <1>1 DEF Start, Disposed
  <1>4. b = 1 <=> temp[Artifact(j)] # "none"
    OBVIOUS
  <1> HIDE DEF r, b
  <1>5. Counts(j, r)
    BY <1>1, <1>2, <1>3, TaskTypes DEF Counts, Start, callers, Waiting, Finishing, Undispatched
  <1>6. /\ job'[j] = r /\ \A k \in Jobs \ {j} : job'[k] = job[k]
        /\ job[j].at = "spawned" /\ inflight' = inflight + 1
        /\ UNCHANGED <<caller, temp, pending, pendingBytes, marks, kind>>
    BY <1>2, TaskTypes DEF Start, disk, callers
  <1>7. CountsInv' /\ pending' \in Nat /\ pendingBytes' \in Nat /\ inflight' \in Nat
    <2>1. Sending' = Sending
      BY <1>6 DEF Sending
    <2>2. j \in Owed
      BY <1>6 DEF Owed, Undispatched
    <2>3. Owed' \subseteq Owed \ {j}
      BY <1>1, <1>6, <2>1, JobFacts DEF Owed, Undispatched, Sending
    <2>4. Flying' \subseteq Flying \cup {j}
      BY <1>1, <1>6 DEF Flying, UnderWay
    <2>5. Weighed' \subseteq Weighed
      BY <1>1, <1>4, <1>6, <2>1, JobFacts DEF Weighed, Undispatched, UnderWay
    <2>6. AtLeast(pending - inflight - 1, Owed \ {j}) /\ AtLeast(inflight + 1, Flying \cup {j})
      BY <2>2, GaugeTypes, CountFacts
    <2>7. pending' - inflight' = pending - inflight - 1
      BY <1>6, GaugeTypes
    <2>8. AtLeast(pending' - inflight', Owed')
      BY <2>3, <2>6, <2>7, CountFacts
    <2>9. AtLeast(inflight', Flying') /\ AtLeast(pendingBytes', Weighed')
      BY <1>6, <2>4, <2>5, <2>6, GaugeTypes, CountFacts
    <2> QED  BY <1>6, <2>8, <2>9, GaugeTypes DEF CountsInv
  <1>8. MarksAreHeld'
    <2>1. Unsettled \subseteq Unsettled'
      BY <1>1, <1>6 DEF Unsettled, Waiting, Finishing
    <2> QED  BY <1>6, <2>1 DEF IndInv, MarksAreHeld, Dedups
  <1> QED  BY <1>5, <1>7, <1>8, CountsFacts

(* inflight goes down before pending: the job is owed again. *)
LEMMA SettleInflightStep ==
    ASSUME IndInv, NEW j \in Jobs, SettleInflight(j)
    PROVE  Keeps
  <1> DEFINE r == [job[j] EXCEPT !.at = "settlePending"]
  <1>1. /\ r \in JobType /\ r.at = "settlePending" /\ r.opened = job[j].opened
        /\ r.bytes = job[j].bytes /\ r.result = job[j].result
    BY TaskTypes DEF JobType, Finishing
  <1>2. job' = [job EXCEPT ![j] = r]
    BY TaskTypes DEF SettleInflight, JobType
  <1> HIDE DEF r
  <1>3. Counts(j, r)
    BY <1>1, <1>2, TaskTypes DEF Counts, SettleInflight, callers, Waiting, Finishing, Undispatched
  <1>4. /\ job'[j] = r /\ \A k \in Jobs \ {j} : job'[k] = job[k]
        /\ job[j].at = "settle" /\ inflight' = inflight - 1
        /\ UNCHANGED <<caller, temp, pending, pendingBytes, marks, kind>>
    BY <1>2, TaskTypes DEF SettleInflight, disk, callers
  <1>5. CountsInv' /\ pending' \in Nat /\ pendingBytes' \in Nat /\ inflight' \in Nat
    <2>1. Sending' = Sending
      BY <1>4 DEF Sending
    <2>2. j \in Flying
      BY <1>4 DEF Flying, UnderWay
    <2>3. Owed' \subseteq Owed \cup {j}
      BY <1>1, <1>4, <2>1 DEF Owed, Undispatched
    <2>4. Flying' \subseteq Flying \ {j}
      BY <1>1, <1>4 DEF Flying, UnderWay
    <2>5. Weighed' \subseteq Weighed
      BY <1>1, <1>4, <2>1, JobFacts DEF Weighed, Undispatched, UnderWay
    <2>6. AtLeast(pending - inflight + 1, Owed \cup {j}) /\ AtLeast(inflight - 1, Flying \ {j})
      BY <2>2, GaugeTypes, CountFacts
    <2>7. pending' - inflight' = pending - inflight + 1 /\ inflight' \in Nat
      BY <1>4, <2>6, GaugeTypes DEF AtLeast
    <2>8. AtLeast(pending' - inflight', Owed')
      BY <2>3, <2>6, <2>7, CountFacts
    <2>9. AtLeast(inflight', Flying') /\ AtLeast(pendingBytes', Weighed')
      BY <1>4, <2>4, <2>5, <2>6, GaugeTypes, CountFacts
    <2> QED  BY <1>4, <2>7, <2>8, <2>9, GaugeTypes DEF CountsInv
  <1>6. MarksAreHeld'
    <2>1. Unsettled \subseteq Unsettled'
      BY <1>1, <1>4 DEF Unsettled, Waiting, Finishing
    <2> QED  BY <1>4, <2>1 DEF IndInv, MarksAreHeld, Dedups
  <1> QED  BY <1>3, <1>5, <1>6, CountsFacts

(* The job leaves the gauges, its slot and its mark together. *)
LEMMA SettlePendingStep ==
    ASSUME IndInv, NEW j \in Jobs, SettlePending(j)
    PROVE  Keeps
  <1> DEFINE r == [NoJob EXCEPT !.at = "settled"]
  <1>1. r \in JobType /\ r.at = "settled" /\ r.opened = "none" /\ r.result = "none"
    <2>1. 0 \in 0 .. MaxAttempts /\ FALSE \in BOOLEAN
      BY UploadAssumption
    <2>2. NoJob \in JobType
      BY <2>1 DEF NoJob, JobType, Files
    <2>3. NoJob.opened = "none" /\ NoJob.result = "none"
      BY DEF NoJob
    <2> HIDE DEF NoJob
    <2> QED  BY <2>2, <2>3 DEF JobType
  <1>2. job' = [job EXCEPT ![j] = r]
    BY DEF SettlePending
  <1> HIDE DEF r
  <1>3. marks' = IF ~Recovered(j) /\ Dedups(Artifact(j)) THEN marks \ {Dest[Artifact(j)]} ELSE marks
    BY DEF SettlePending, Unmarked
  <1>4. Counts(j, r)
    BY <1>1, <1>2, <1>3, TaskTypes DEF Counts, SettlePending, Waiting, Finishing, Undispatched
  <1>5. /\ job'[j] = r /\ \A k \in Jobs \ {j} : job'[k] = job[k]
        /\ job[j].at = "settlePending"
        /\ pending' = pending - 1 /\ pendingBytes' = pendingBytes - job[j].bytes
        /\ UNCHANGED <<caller, temp, inflight, kind>>
    BY <1>2, TaskTypes DEF SettlePending, disk
  <1>6. CountsInv' /\ pending' \in Nat /\ pendingBytes' \in Nat /\ inflight' \in Nat
    <2>1. Sending' = Sending
      BY <1>5 DEF Sending
    <2>2. j \in Owed
      BY <1>5 DEF Owed
    <2>3. Owed' \subseteq Owed \ {j}
      BY <1>1, <1>5, <2>1, JobFacts DEF Owed, Undispatched, Sending
    <2>4. Flying' \subseteq Flying
      BY <1>1, <1>5 DEF Flying, UnderWay
    <2>5. Weighed' \subseteq Weighed \ {j}
      BY <1>1, <1>5, <2>1, JobFacts DEF Weighed, Undispatched, UnderWay, Sending
    <2>6. AtLeast(pending - inflight - 1, Owed \ {j})
      BY <2>2, GaugeTypes, CountFacts
    <2>7. pending' - inflight' = pending - inflight - 1 /\ pending' \in Nat
      BY <1>5, <2>6, GaugeTypes DEF AtLeast
    <2>8. AtLeast(pending' - inflight', Owed') /\ AtLeast(inflight', Flying')
      BY <1>5, <2>3, <2>4, <2>6, <2>7, GaugeTypes, CountFacts
    <2>9. AtLeast(pendingBytes', Weighed') /\ pendingBytes' \in Nat
      <3>1. CASE job[j].bytes = 1
        <4>1. j \in Weighed
          BY <1>5, <3>1 DEF Weighed
        <4>2. AtLeast(pendingBytes - 1, Weighed \ {j})
          BY <4>1, GaugeTypes, CountFacts
        <4> QED  BY <1>5, <2>5, <3>1, <4>2, CountFacts DEF AtLeast
      <3>2. CASE job[j].bytes = 0
        <4>1. pendingBytes' = pendingBytes
          BY <1>5, <3>2, GaugeTypes
        <4> QED  BY <2>5, <4>1, GaugeTypes, CountFacts
      <3> QED  BY <3>1, <3>2, TaskTypes
    <2> QED  BY <1>5, <2>7, <2>8, <2>9, GaugeTypes DEF CountsInv
  <1>7. MarksAreHeld'
    <2> SUFFICES ASSUME NEW d \in marks'
                 PROVE  \E a \in Artifacts :
                          /\ Dedups(a)' /\ Dest[a] = d
                          /\ \/ caller[a] \notin {"idle", "returned"}
                             \/ <<a, "sent">> \in Unsettled'
      BY <1>5 DEF MarksAreHeld
    <2>1. PICK a \in Artifacts : /\ Dedups(a) /\ Dest[a] = d
                                 /\ \/ caller[a] \notin {"idle", "returned"}
                                    \/ <<a, "sent">> \in Unsettled
      BY <1>3 DEF IndInv, MarksAreHeld
    <2>2. Dedups(a)'
      BY <1>5, <2>1 DEF Dedups
    <2>3. <<a, "sent">> # j
      BY <1>3, <2>1, JobFacts
    <2>4. <<a, "sent">> \in Unsettled => <<a, "sent">> \in Unsettled'
      BY <1>5, <2>3, JobFacts DEF Unsettled
    <2> QED  BY <2>1, <2>2, <2>4
  <1> QED  BY <1>4, <1>6, <1>7, CountsFacts

-----------------------------------------------------------------------------
(* The worker, and the clock of a recovered item. *)

(* Job j goes on to r on its way to a task, or grows older. *)
Shifts(j, r) ==
    /\ job' = [job EXCEPT ![j] = r] /\ r \in JobType
    /\ r.opened = job[j].opened /\ r.result = job[j].result /\ r.bytes = job[j].bytes
    /\ \/ job[j].at \in Undispatched /\ r.at \in Undispatched
       \/ job[j].at \in UnderWay /\ r.at = job[j].at
    /\ UNCHANGED <<disk, callers, failures, drain, draining, stats, marks, scan, abandoned,
                   crashes>>

(* Such a step keeps the invariant, if it keeps the channel and the slots. *)
LEMMA ShiftsFacts ==
    ASSUME IndInv, NEW j \in Jobs, NEW r, Shifts(j, r), ChannelInv',
           channel' \in Seq(Jobs), Len(channel') <= Capacity,
           slots' \in {slots, slots \cup {j}}, slots' # slots => SlotFree,
           worker' \in {worker, "acquire", "drainAcquire", "top", "drain"}
    PROVE  Keeps
  <1> SUFFICES Advances(j)
    BY AdvancesFacts
  <1>1. job' \in [Jobs -> JobType] /\ job'[j] = r /\ \A k \in Jobs \ {j} : job'[k] = job[k]
    BY TaskTypes DEF Shifts
  <1>2. UNCHANGED <<temp, sidecar, old, cloud, kind, caller, told, inline, failures, drain,
                    draining,
                    pending, pendingBytes, inflight, marks, reconcile, recovery, todo, verified,
                    abandoned, crashes>>
    BY DEF Shifts, disk, callers, stats, scan
  <1>3. Stays(j)
    BY <1>1, <1>2 DEF Stays, Moves, Shifts, stats, scan, IndInv, TypeOK
  <1>4. CountsInv' /\ MarksAreHeld' /\ Unsettled' = Unsettled
    BY <1>3, StaysFacts
  <1>5. slots' \subseteq Jobs /\ IsFiniteSet(slots') /\ Cardinality(slots') <= MaxConcurrent
    BY TaskTypes, SlotFacts
  <1>6. Moves(j) /\ job[j].at # "none" /\ job'[j].at # "none"
    BY <1>3 DEF Stays, UnderWay, Undispatched
  <1>7. /\ job'[j].opened # "torn"
        /\ job'[j].at \in Undispatched => job'[j].bytes = 0
        /\ job'[j].result = "ok" => cloud'[Artifact(j)] # "none"
        /\ job'[j].at \in {"remove", "removeSidecar"} => Disposed(Artifact(j))'
    <2>1. job'[j].at \in {"remove", "removeSidecar"} => Disposed(Artifact(j))
      BY <1>1, TaskTypes DEF Shifts, Undispatched
    <2>2. job'[j].at \in Undispatched => job'[j].bytes = 0
      BY <1>1 DEF Shifts, IndInv, FreshInv, UnderWay, Undispatched
    <2> QED  BY <1>1, <1>2, <2>1, <2>2, TaskTypes DEF Shifts, Disposed
  <1>8. /\ worker' \in WorkerType
        /\ failures' \in 0 .. Threshold /\ marks' \subseteq Addressed
        /\ pending' \in Nat /\ pendingBytes' \in Nat /\ inflight' \in Nat
        /\ cloud' \in [Artifacts -> Files]
        /\ abandoned' \subseteq Artifacts
        /\ told' = [a \in Artifacts |-> told'[a]]
    BY <1>2 DEF IndInv, TypeOK
  <1> QED  BY <1>2, <1>4, <1>5, <1>6, <1>7, <1>8 DEF Advances

(* The head of the channel leaves it, and was in it once. *)
LEMMA RecvStep ==
    ASSUME IndInv, Recv
    PROVE  Keeps
  <1> DEFINE j == Head(channel)
             r == [job[j] EXCEPT !.at = "held"]
             n == Len(channel)
  <1>1. /\ channel \in Seq(Jobs) /\ channel # << >> /\ n <= Capacity
        /\ channel' = Tail(channel)
    BY DEF IndInv, TypeOK, Recv
  <1>2. /\ n \in Nat \ {0} /\ j = channel[1] /\ j \in Jobs
        /\ channel' \in Seq(Jobs) /\ Len(channel') = n - 1
        /\ \A k \in 1 .. (n - 1) : channel'[k] = channel[k + 1]
    BY <1>1
  <1>3. /\ \A k \in 1 .. n : channel[k] \in Jobs /\ job[channel[k]].at = "queued"
        /\ \A k, l \in 1 .. n : channel[k] = channel[l] => k = l
    BY <1>1 DEF IndInv, ChannelInv
  <1>4. job[j].at = "queued"
    BY <1>2, <1>3
  <1> HIDE DEF j, n
  <1>5. /\ r \in JobType /\ r.at = "held" /\ r.opened = job[j].opened
        /\ r.bytes = job[j].bytes /\ r.result = job[j].result
    BY <1>2, TaskTypes DEF JobType, Waiting
  <1>6. job' = [job EXCEPT ![j] = r]
    BY <1>2, TaskTypes DEF Recv, JobType, j
  <1> HIDE DEF r
  <1>7. Shifts(j, r)
    BY <1>2, <1>4, <1>5, <1>6, TaskTypes DEF Shifts, Recv, Undispatched
  <1>8. \A k \in Jobs \ {j} : job'[k] = job[k]
    BY <1>2, <1>6, TaskTypes
  <1>9. ChannelInv'
    <2>1. \A k \in 1 .. (n - 1) : /\ k + 1 \in 1 .. n /\ channel'[k] = channel[k + 1]
                                  /\ channel'[k] \in Jobs \ {j}
      BY <1>2, <1>3
    <2>2. \A k \in 1 .. (n - 1) : job'[channel'[k]].at = "queued"
      BY <1>3, <1>8, <2>1
    <2>3. \A k, l \in 1 .. (n - 1) : channel'[k] = channel'[l] => k = l
      BY <1>2, <1>3, <2>1
    <2> QED  BY <1>2, <2>2, <2>3 DEF ChannelInv
  <1>10. Len(channel') <= Capacity
    BY <1>1, <1>2, UploadAssumption
  <1> QED  BY <1>2, <1>7, <1>9, <1>10, ShiftsFacts DEF Recv

(* A held job gets a slot that is free. *)
LEMMA DispatchStep ==
    ASSUME IndInv, NEW j \in Jobs, Dispatch(j)
    PROVE  Keeps
  <1> DEFINE r == [job[j] EXCEPT !.at = "spawned"]
  <1>1. /\ r \in JobType /\ r.at = "spawned" /\ r.opened = job[j].opened
        /\ r.bytes = job[j].bytes /\ r.result = job[j].result
    BY TaskTypes DEF JobType, Waiting
  <1>2. job' = [job EXCEPT ![j] = r]
    BY TaskTypes DEF Dispatch, JobType
  <1> HIDE DEF r
  <1>3. Shifts(j, r)
    BY <1>1, <1>2, TaskTypes DEF Shifts, Dispatch, Undispatched
  <1>4. ChannelInv' /\ channel' \in Seq(Jobs) /\ Len(channel') <= Capacity
    <2>1. \A k \in 1 .. Len(channel) : channel[k] \in Jobs /\ channel[k] # j
      BY DEF IndInv, TypeOK, ChannelInv, Dispatch
    <2>2. \A k \in Jobs \ {j} : job'[k] = job[k]
      BY <1>2, TaskTypes
    <2> QED  BY <2>1, <2>2 DEF IndInv, TypeOK, ChannelInv, Dispatch
  <1> QED  BY <1>3, <1>4, ShiftsFacts DEF Dispatch

(* A recovered job grows older where it is. *)
LEMMA AgeRecoveredStep ==
    ASSUME IndInv, NEW j \in Jobs, AgeRecovered(j)
    PROVE  Keeps
  <1> DEFINE r == [job[j] EXCEPT !.old = TRUE]
  <1>1. /\ r \in JobType /\ r.at = job[j].at /\ r.opened = job[j].opened
        /\ r.bytes = job[j].bytes /\ r.result = job[j].result
    BY TaskTypes DEF JobType
  <1>2. job' = [job EXCEPT ![j] = r]
    BY TaskTypes DEF AgeRecovered, JobType
  <1> HIDE DEF r
  <1>3. Shifts(j, r)
    BY <1>1, <1>2, TaskTypes DEF Shifts, AgeRecovered, Undispatched, UnderWay, Waiting, loop
  <1>4. ChannelInv' /\ channel' \in Seq(Jobs) /\ Len(channel') <= Capacity
    <2>1. \A k \in Jobs : job'[k].at = job[k].at
      BY <1>1, <1>2, TaskTypes
    <2> QED  BY <2>1 DEF IndInv, TypeOK, ChannelInv, AgeRecovered, loop
  <1> QED  BY <1>3, <1>4, ShiftsFacts DEF AgeRecovered, loop

(* The steps that move the worker alone, or the drain() it answers. *)
LEMMA WorkerStep ==
    ASSUME IndInv,
           LoopTop \/ CooldownEnds \/ SeeShutdown \/ Drained \/ DropHandles \/ ChannelEnds
           \/ Join \/ Drain
    PROVE  Keeps
  <1>1. /\ UNCHANGED <<temp, sidecar, old, cloud, kind, caller, told, inline, job, slots, channel,
                       pending, pendingBytes, inflight, marks, reconcile, recovery, todo,
                       verified,
                       abandoned, crashes>>
        /\ worker' \in {worker, "cooldown", "select", "drain", "joining", "exited"}
        /\ failures' \in {failures, 0}
        /\ drain' \in {drain, "dropped", "done", "asked"}
    BY DEF LoopTop, CooldownEnds, SeeShutdown, Drained, DropHandles, ChannelEnds, Join, Drain,
           disk, callers, stats, scan
  <1>2. TypeOK'
    <2>1. draining' \in BOOLEAN
      BY DEF IndInv, TypeOK, LoopTop, CooldownEnds, SeeShutdown, Drained, DropHandles, ChannelEnds, Join, Drain
    <2>2. failures' \in 0 .. Threshold
      BY <1>1, UploadAssumption DEF IndInv, TypeOK
    <2> QED  BY <1>1, <2>1, <2>2 DEF IndInv, TypeOK
  <1>3. SlotsInv' /\ ChannelInv' /\ CountsInv' /\ LifeInv' /\ MarksAreHeld'
    <2>1. Owed' = Owed /\ Flying' = Flying /\ Weighed' = Weighed /\ Unsettled' = Unsettled
      BY <1>1 DEF Owed, Flying, Weighed, Sending, Unsettled
    <2>2. SlotsInv' /\ ChannelInv' /\ CountsInv'
      BY <1>1, <2>1 DEF IndInv, SlotsInv, ChannelInv, CountsInv
    <2>3. LifeInv' /\ MarksAreHeld'
      BY <1>1, <2>1 DEF IndInv, LifeInv, LifeOf, MarksAreHeld, Dedups
    <2> QED  BY <2>2, <2>3
  <1>4. WholeInv' /\ FateInv'
    BY <1>1 DEF IndInv, WholeInv, WholeOf, CloudIsWhole, Unsettled, FateInv, PairOf, Disposed
  <1>5. Drops /\ FreshInv'
    BY <1>1 DEF Drops, Taken, IndInv, FreshInv
  <1> QED  BY <1>2, <1>3, <1>4, <1>5 DEF Keeps, IndInv

-----------------------------------------------------------------------------
(* The enqueue calls and the inline upload. *)

(* What belongs to the call that brings artifact a may change; its job may be queued. *)
Calling(a) ==
    /\ UNCHANGED <<old, slots, worker, failures, drain, draining, scan, abandoned, crashes>>
    /\ temp' \in [Artifacts -> Files] /\ cloud' \in [Artifacts -> Files]
    /\ sidecar' \subseteq Artifacts /\ inline' \subseteq Artifacts
    /\ kind' \in [Artifacts -> Calls \cup {"none"}]
    /\ caller' \in CallerType
    /\ told' \in ToldType
    /\ \A b \in Artifacts \ {a} :
         /\ temp'[b] = temp[b] /\ cloud'[b] = cloud[b] /\ (b \in sidecar' <=> b \in sidecar)
         /\ (b \in inline' <=> b \in inline)
         /\ kind'[b] = kind[b] /\ caller'[b] = caller[b] /\ told'[b] = told[b]
    /\ job' \in [Jobs -> JobType]
    /\ \A k \in Jobs : /\ k # <<a, "sent">> => job'[k] = job[k]
                       /\ job'[k].at = job[k].at \/ (job'[k].at = "queued" /\ job[k].at = "none")
                       /\ job'[k].bytes = job[k].bytes
                       /\ job'[k].opened = job[k].opened /\ job'[k].result = job[k].result

(* The part of the invariant that speaks of artifact a. *)
Fine(a) ==
    /\ LifeOf(a) /\ WholeOf(a) /\ PairOf(a)
    /\ told[a] = "uploaded" => cloud[a] # "none"
    /\ cloud[a] # "torn"

(* A call keeps the invariant of every other artifact. *)
LEMMA CallingFacts ==
    ASSUME IndInv, NEW a \in Artifacts, Calling(a), Fine(a)', ChannelInv', CountsInv',
           MarksAreHeld',
           channel' \in Seq(Jobs), Len(channel') <= Capacity, marks' \subseteq Addressed,
           pending' \in Nat, pendingBytes' \in Nat, inflight' \in Nat,
           cloud[a] # "none" => cloud'[a] # "none",
           \/ cloud' = cloud /\ (Taken(a) => Taken(a)')
           \/ cloud'[a] # "none" /\ (Taken(a)' <=> Taken(a))
    PROVE  Keeps
  <1>1. UNCHANGED <<old, slots, worker, failures, drain, draining, reconcile, recovery, todo,
                    verified, abandoned, crashes>>
    BY DEF Calling, scan
  <1>2. TypeOK'
    <2>1. UNCHANGED draining
      BY <1>1
    <2>2. draining' \in BOOLEAN
      BY <2>1 DEF IndInv, TypeOK
    <2> QED  BY <1>1, <2>2 DEF IndInv, TypeOK, Calling, JobType
  <1>3. SlotsInv'
    BY <1>1 DEF IndInv, SlotsInv
  <1>4. ASSUME NEW b \in Artifacts, b # a
        PROVE  Fine(b)'
    <2>1. /\ <<b, "sent">> \in Jobs /\ <<b, "recovered">> \in Jobs
          /\ <<b, "sent">> # <<a, "sent">> /\ <<b, "recovered">> # <<a, "sent">>
      BY <1>4, JobFacts
    <2>2. /\ job'[<<b, "sent">>] = job[<<b, "sent">>]
          /\ job'[<<b, "recovered">>] = job[<<b, "recovered">>]
      BY <2>1 DEF Calling
    <2>3. /\ temp'[b] = temp[b] /\ cloud'[b] = cloud[b] /\ (b \in sidecar' <=> b \in sidecar)
          /\ (b \in inline' <=> b \in inline)
          /\ kind'[b] = kind[b] /\ caller'[b] = caller[b] /\ told'[b] = told[b]
      BY <1>4 DEF Calling
    <2>4. Fine(b)
      BY DEF IndInv, LifeInv, WholeInv, FateInv, CloudIsWhole, Fine
    <2>5. LifeOf(b)'
      BY <1>1, <2>2, <2>3, <2>4 DEF Fine, LifeOf
    <2>6. WholeOf(b)'
      BY <1>1, <2>1, <2>2, <2>3, <2>4 DEF Fine, WholeOf, Unsettled
    <2>7. PairOf(b)'
      BY <1>1, <2>3, <2>4 DEF Fine, PairOf, Disposed
    <2> QED  BY <2>3, <2>4, <2>5, <2>6, <2>7 DEF Fine
  <1>5. \A b \in Artifacts : Fine(b)'
    BY <1>4
  <1>6. LifeInv'
    BY <1>5 DEF LifeInv, Fine
  <1>7. WholeInv'
    <2>1. \A k \in Jobs : job'[k].opened # "torn"
      BY DEF IndInv, WholeInv, Calling
    <2> QED  BY <1>5, <2>1 DEF WholeInv, CloudIsWhole, Fine
  <1>8. FateInv'
    <2>1. \A b \in Artifacts : cloud[b] # "none" => cloud'[b] # "none"
      BY DEF Calling
    <2>2. \A b \in Artifacts : Disposed(b) => Disposed(b)'
      BY <1>1, <2>1 DEF Disposed
    <2>3. \A k \in Jobs : job'[k].result = "ok" => cloud'[Artifact(k)] # "none"
      BY <2>1, JobFacts DEF IndInv, FateInv, Calling
    <2>4. \A k \in Jobs : job'[k].at \in {"remove", "removeSidecar"} => Disposed(Artifact(k))'
      BY <2>2, JobFacts DEF IndInv, FateInv, Calling
    <2> QED  BY <1>5, <2>3, <2>4 DEF FateInv, Fine
  <1>9. \A b \in Artifacts \ {a} : Taken(b)' <=> Taken(b)
    BY DEF Calling, Taken
  <1>10. Accepts \/ Stores
    <2>1. CASE cloud' = cloud /\ (Taken(a) => Taken(a)')
      BY <1>1, <1>9, <2>1 DEF Accepts
    <2>2. CASE cloud'[a] # "none" /\ (Taken(a)' <=> Taken(a))
      <3>1. \A b \in Artifacts \ {a} : cloud'[b] = cloud[b] /\ (b \in abandoned' <=> b \in abandoned)
        BY <1>1 DEF Calling
      <3> QED  BY <1>9, <2>2, <3>1 DEF Stores
    <2> QED  BY <2>1, <2>2
  <1>11. FreshInv'
    BY DEF IndInv, FreshInv, Calling
  <1> QED  BY <1>2, <1>3, <1>6, <1>7, <1>8, <1>10, <1>11 DEF Keeps, IndInv

(* The types the calls start from, and what is known of an artifact. *)
LEMMA CallTypes ==
    ASSUME IndInv, NEW a \in Artifacts
    PROVE  /\ temp \in [Artifacts -> Files] /\ cloud \in [Artifacts -> Files]
           /\ sidecar \subseteq Artifacts /\ inline \subseteq Artifacts
           /\ kind \in [Artifacts -> Calls \cup {"none"}]
           /\ caller \in CallerType
           /\ told \in ToldType
           /\ job \in [Jobs -> JobType]
           /\ Fine(a) /\ <<a, "sent">> \in Jobs /\ <<a, "recovered">> \in Jobs
           /\ pending \in Nat /\ pendingBytes \in Nat /\ inflight \in Nat
           /\ channel \in Seq(Jobs) /\ Len(channel) <= Capacity /\ marks \subseteq Addressed
  <1>1. /\ temp \in [Artifacts -> Files] /\ cloud \in [Artifacts -> Files]
        /\ sidecar \subseteq Artifacts /\ inline \subseteq Artifacts
        /\ kind \in [Artifacts -> Calls \cup {"none"}]
        /\ caller \in CallerType
        /\ told \in ToldType
        /\ job \in [Jobs -> JobType]
        /\ pending \in Nat /\ pendingBytes \in Nat /\ inflight \in Nat
        /\ channel \in Seq(Jobs) /\ Len(channel) <= Capacity /\ marks \subseteq Addressed
    BY DEF IndInv, TypeOK, JobType
  <1>2. Fine(a)
    BY DEF IndInv, LifeInv, WholeInv, FateInv, CloudIsWhole, Fine
  <1> QED  BY <1>1, <1>2, JobFacts

(* A call that neither counts an item nor sends one keeps the gauges. *)
LEMMA UncountedFacts ==
    ASSUME IndInv, UNCHANGED <<job, pending, pendingBytes, inflight>>,
           \A b \in Artifacts : caller'[b] = "send" <=> caller[b] = "send",
           \A b \in Artifacts : temp'[b] # "none" =>
             temp[b] # "none" \/ (job[<<b, "sent">>].at = "none" /\ job[<<b, "recovered">>].at = "none")
    PROVE  CountsInv'
  <1>1. Sending' = Sending
    BY DEF Sending
  <1>2. Owed' = Owed /\ Flying' = Flying
    BY <1>1 DEF Owed, Flying
  <1>3. Weighed' \subseteq Weighed
    <2>1. \A k \in Jobs : job[k].at \in Undispatched /\ temp'[Artifact(k)] # "none" =>
                            temp[Artifact(k)] # "none"
      BY JobFacts DEF Undispatched
    <2> QED  BY <1>1, <2>1 DEF Weighed
  <1> QED  BY <1>2, <1>3, CountFacts DEF IndInv, CountsInv

(* A call that ends takes its mark off; one that goes on keeps it. *)
LEMMA MarkFacts ==
    ASSUME IndInv, NEW a \in Artifacts, UNCHANGED <<kind>>, Unsettled \subseteq Unsettled',
           \A b \in Artifacts \ {a} : caller'[b] = caller[b],
           \/ marks' = Unmarked(a) /\ <<a, "sent">> \notin Unsettled
           \/ marks' = marks /\ (caller[a] \notin {"idle", "returned"} =>
                                   caller'[a] \notin {"idle", "returned"} \/ <<a, "sent">> \in Unsettled')
    PROVE  MarksAreHeld' /\ marks' \subseteq Addressed
  <1>1. marks' \subseteq marks /\ marks' \subseteq Addressed
    BY DEF IndInv, TypeOK, Unmarked
  <1>2. SUFFICES ASSUME NEW d \in marks'
                 PROVE  \E b \in Artifacts : /\ Dedups(b)' /\ Dest[b] = d
                                             /\ \/ caller'[b] \notin {"idle", "returned"}
                                                \/ <<b, "sent">> \in Unsettled'
    BY <1>1 DEF MarksAreHeld
  <1>3. PICK b \in Artifacts : /\ Dedups(b) /\ Dest[b] = d
                               /\ \/ caller[b] \notin {"idle", "returned"}
                                  \/ <<b, "sent">> \in Unsettled
    BY <1>1 DEF IndInv, MarksAreHeld
  <1>4. Dedups(b)'
    BY <1>3 DEF Dedups
  <1>5. CASE b # a
    BY <1>3, <1>4, <1>5
  <1>6. CASE b = a
    BY <1>3, <1>4, <1>6 DEF Unmarked
  <1> QED  BY <1>5, <1>6

(* What all the steps of a call leave alone, and a call that has not returned. *)
LEMMA OpenCall ==
    ASSUME IndInv, NEW a \in Artifacts, caller[a] # "returned"
    PROVE  /\ told[a] = "nothing" /\ a \notin inline /\ job[<<a, "sent">>].at = "none"
           /\ <<a, "sent">> \notin Unsettled /\ ~Taken(a)
  BY CallTypes DEF Fine, LifeOf, Unsettled, Taken, Waiting, Finishing

(* A call begins: nothing is left of the artifact from before. *)
LEMMA BeginStep ==
    ASSUME IndInv, NEW a \in Artifacts, NEW k \in Calls, Begin(a, k)
    PROVE  Keeps
  <1>1. /\ UNCHANGED <<sidecar, old, cloud, inline, job, slots, channel, worker, failures, drain,
                       draining, pending, pendingBytes, inflight, reconcile, recovery, todo,
                       verified,
                       abandoned, crashes>>
        /\ caller[a] = "idle" /\ kind' = [kind EXCEPT ![a] = k]
    BY DEF Begin, loop, stats, scan
  <1>2. \/ /\ marks' = marks /\ temp' = temp
           /\ caller' = [caller EXCEPT ![a] = "returned"]
           /\ told' = [told EXCEPT ![a] = "deduplicated"]
        \/ /\ marks' = marks \/ /\ k # "awaited" /\ Dest[a] \in Addressed
                                /\ marks' = marks \cup {Dest[a]}
           /\ temp' = [temp EXCEPT ![a] = "torn"]
           /\ caller' = [caller EXCEPT ![a] = "writing"] /\ told' = told
    BY DEF Begin, Return, CallerTo
  <1>3. /\ told[a] = "nothing" /\ a \notin inline /\ job[<<a, "sent">>].at = "none"
        /\ <<a, "sent">> \notin Unsettled /\ ~Taken(a)
    BY <1>1, OpenCall
  <1>4. /\ temp[a] = "none" /\ job[<<a, "recovered">>].at = "none"
        /\ a \notin sidecar \cup todo \cup verified
    BY <1>1, CallTypes DEF Fine, LifeOf
  <1>5. Calling(a)
    <2>1. /\ temp' \in [Artifacts -> Files]
          /\ \A b \in Artifacts \ {a} : temp'[b] = temp[b] /\ caller'[b] = caller[b] /\ told'[b] = told[b]
                                        /\ kind'[b] = kind[b]
      BY <1>1, <1>2, CallTypes DEF Files
    <2>2. /\ kind' \in [Artifacts -> Calls \cup {"none"}]
          /\ caller' \in CallerType
          /\ told' \in ToldType
      BY <1>1, <1>2, CallTypes
    <2> QED  BY <1>1, <2>1, <2>2, CallTypes DEF Calling, scan
  <1>6. Fine(a)'
    <2>1. /\ caller'[a] \in {"returned", "writing"} /\ told'[a] \in {"nothing", "deduplicated"}
          /\ caller'[a] = "writing" => temp'[a] = "torn" /\ told'[a] = "nothing"
          /\ caller'[a] = "returned" => temp'[a] = "none"
      BY <1>1, <1>2, <1>3, <1>4, CallTypes
    <2>2. <<a, "sent">> \notin Unsettled' /\ <<a, "recovered">> \notin Unsettled'
      BY <1>1, <1>3, <1>4 DEF Unsettled, Waiting, Finishing
    <2>3. LifeOf(a)'
      BY <1>1, <1>3, <1>4, <2>1 DEF LifeOf
    <2>4. WholeOf(a)' /\ PairOf(a)'
      BY <1>1, <1>3, <1>4, <2>1, <2>2 DEF WholeOf, PairOf
    <2> QED  BY <1>1, <2>1, <2>3, <2>4, CallTypes DEF Fine
  <1>7. CountsInv'
    <2>1. \A b \in Artifacts : caller'[b] = "send" <=> caller[b] = "send"
      BY <1>1, <1>2, CallTypes
    <2>2. \A b \in Artifacts \ {a} : temp'[b] = temp[b]
      BY <1>2, CallTypes
    <2> QED  BY <1>1, <1>3, <1>4, <2>1, <2>2, UncountedFacts
  <1>8. MarksAreHeld' /\ marks' \subseteq Addressed
    <2>1. Unsettled' = Unsettled
      BY <1>1 DEF Unsettled
    <2>2. \A b \in Artifacts \ {a} : caller'[b] = caller[b] /\ (Dedups(b)' <=> Dedups(b))
      BY <1>1, <1>2, CallTypes DEF Dedups
    <2>3. ASSUME NEW d \in marks
          PROVE  \E b \in Artifacts : /\ Dedups(b)' /\ Dest[b] = d
                                      /\ \/ caller'[b] \notin {"idle", "returned"}
                                         \/ <<b, "sent">> \in Unsettled'
      BY <1>1, <1>3, <2>1, <2>2 DEF IndInv, MarksAreHeld
    <2>4. CASE marks' = marks
      BY <2>3, <2>4, CallTypes DEF MarksAreHeld
    <2>5. CASE marks' # marks
      <3>1. /\ k # "awaited" /\ Dest[a] \in Addressed /\ marks' = marks \cup {Dest[a]}
            /\ caller' = [caller EXCEPT ![a] = "writing"]
        BY <1>2, <2>5
      <3>2. kind'[a] = k /\ k \in {"bytes", "durable"} /\ caller'[a] = "writing"
        BY <1>1, <3>1, CallTypes, UploadAssumption DEF Kinds
      <3>3. Dedups(a)'
        BY <3>1, <3>2 DEF Dedups
      <3> QED  BY <2>3, <3>1, <3>2, <3>3, CallTypes DEF MarksAreHeld
    <2> QED  BY <2>4, <2>5
  <1>9. ChannelInv' /\ channel' \in Seq(Jobs) /\ Len(channel') <= Capacity
    BY <1>1, CallTypes DEF IndInv, ChannelInv
  <1> QED  BY <1>1, <1>3, <1>5, <1>6, <1>7, <1>8, <1>9, CallTypes, CallingFacts

(* A step of the call that brings a: its file is f, the call is at p and its caller told t. *)
Goes(a, f, p, t) ==
    /\ UNCHANGED <<kind, old, cloud, job, slots, loop, inflight, scan, abandoned, crashes>>
    /\ f \in Files /\ p \in {"budget", "sidecar", "count", "send", "returned"}
    /\ t \in {"nothing", "failed", "inline", "waiting"} /\ (p # "returned" => t = "nothing")
    /\ temp' = [temp EXCEPT ![a] = f]
    /\ caller' = [caller EXCEPT ![a] = p]
    /\ told' = [told EXCEPT ![a] = t]
    /\ sidecar' \in {sidecar, sidecar \cup {a}, sidecar \ {a}}
    /\ inline' \in {inline, inline \cup {a}}
    /\ p # "returned" => inline' = inline
    /\ caller[a] \notin {"idle", "returned"}
    /\ p \in {"budget", "sidecar"} => caller[a] \in {"writing", "budget"} /\ sidecar' = sidecar

(* What such a step does, field by field. *)
LEMMA GoesFlat ==
    ASSUME IndInv, NEW a \in Artifacts, NEW f, NEW p, NEW t, Goes(a, f, p, t)
    PROVE  /\ temp'[a] = f /\ caller'[a] = p /\ told'[a] = t
           /\ \A b \in Artifacts \ {a} : caller'[b] = caller[b] /\ temp'[b] = temp[b]
           /\ UNCHANGED <<kind, cloud, job, channel, inflight, reconcile, todo, verified,
                          abandoned>>
           /\ Unsettled' = Unsettled
  BY CallTypes DEF Goes, loop, scan, Unsettled

(* Such a step keeps the invariant, if it keeps the gauges, the marks and the pair of a. *)
LEMMA GoesFacts ==
    ASSUME IndInv, NEW a \in Artifacts, NEW f, NEW p, NEW t, Goes(a, f, p, t),
           WholeOf(a)', PairOf(a)', CountsInv', MarksAreHeld',
           marks' \subseteq Addressed, pending' \in Nat, pendingBytes' \in Nat
    PROVE  Keeps
  <1>1. /\ temp'[a] = f /\ caller'[a] = p /\ told'[a] = t
        /\ \A b \in Artifacts \ {a} : caller'[b] = caller[b] /\ temp'[b] = temp[b]
        /\ UNCHANGED <<kind, cloud, job, channel, inflight, reconcile, todo, verified, abandoned>>
        /\ Unsettled' = Unsettled
    BY GoesFlat
  <1>2. Calling(a)
    <2>1. /\ temp' \in [Artifacts -> Files]
          /\ \A b \in Artifacts \ {a} : told'[b] = told[b] /\ (b \in sidecar' <=> b \in sidecar)
                                        /\ (b \in inline' <=> b \in inline)
          /\ sidecar' \subseteq Artifacts /\ inline' \subseteq Artifacts
      BY CallTypes DEF Goes
    <2>2. /\ kind' \in [Artifacts -> Calls \cup {"none"}]
          /\ caller' \in CallerType
          /\ told' \in ToldType
      BY CallTypes DEF Goes
    <2>3. UNCHANGED <<old, slots, worker, failures, drain, draining, scan, abandoned, crashes>>
      BY DEF Goes, loop
    <2> QED  BY <1>1, <2>1, <2>2, <2>3, CallTypes DEF Calling
  <1>3. /\ told[a] = "nothing" /\ a \notin inline /\ job[<<a, "sent">>].at = "none" /\ ~Taken(a)
    BY OpenCall DEF Goes
  <1>4. Fine(a)'
    <2>1. LifeOf(a)
      BY CallTypes DEF Fine
    <2>2. LifeOf(a)'
      BY <1>1, <1>3, <2>1 DEF LifeOf, Goes
    <2> QED  BY <1>1, <2>2, CallTypes DEF Fine, Goes
  <1>5. ChannelInv' /\ channel' \in Seq(Jobs) /\ Len(channel') <= Capacity
    BY <1>1, CallTypes DEF IndInv, ChannelInv
  <1> QED  BY <1>1, <1>2, <1>3, <1>4, <1>5, CallTypes, CallingFacts

(* The file is whole once it is written. *)
LEMMA WriteTempStep ==
    ASSUME IndInv, NEW a \in Artifacts, WriteTemp(a)
    PROVE  Keeps
  <1> DEFINE f == IF temp[a] = "torn" THEN "whole" ELSE temp[a]
             p == IF kind[a] = "awaited" THEN "sidecar" ELSE "budget"
  <1>1. f \in Files /\ f # "torn" /\ (temp[a] = "torn" => f = "whole")
        /\ (f # "none" => temp[a] # "none") /\ p \in {"budget", "sidecar"}
    BY CallTypes DEF Files
  <1>2. temp' = [temp EXCEPT ![a] = f]
    BY CallTypes DEF WriteTemp
  <1>3. caller' = [caller EXCEPT ![a] = p]
    BY DEF WriteTemp, CallerTo
  <1>4. told' = [told EXCEPT ![a] = "nothing"]
    <2>1. told[a] = "nothing" /\ told' = told
      BY OpenCall DEF WriteTemp, CallerTo
    <2> QED  BY <2>1, CallTypes
  <1> HIDE DEF f, p
  <1>5. Goes(a, f, p, "nothing")
    BY <1>1, <1>2, <1>3, <1>4 DEF Goes, WriteTemp, stats
  <1>6. /\ temp'[a] = f /\ caller'[a] = p /\ told'[a] = "nothing"
        /\ \A b \in Artifacts \ {a} : caller'[b] = caller[b] /\ temp'[b] = temp[b]
        /\ UNCHANGED <<kind, cloud, job, verified, abandoned, pending, pendingBytes, inflight,
                       marks>>
        /\ Unsettled' = Unsettled
    BY <1>5, GoesFlat DEF WriteTemp, stats
  <1>7. WholeOf(a)' /\ PairOf(a)'
    BY <1>1, <1>6, CallTypes DEF WriteTemp, Fine, WholeOf, PairOf, Disposed
  <1>8. CountsInv'
    <2>1. \A b \in Artifacts : /\ caller'[b] = "send" <=> caller[b] = "send"
                               /\ temp'[b] # "none" => temp[b] # "none"
      BY <1>1, <1>6 DEF WriteTemp
    <2> QED  BY <1>6, <2>1, UncountedFacts
  <1>9. MarksAreHeld' /\ marks' \subseteq Addressed
    BY <1>1, <1>6, MarkFacts DEF WriteTemp
  <1> QED  BY <1>5, <1>6, <1>7, <1>8, <1>9, CallTypes, GoesFacts

(* A call that gives up: its temp file goes, or is left torn, and its mark is taken off. *)
LEMMA FailsStep ==
    ASSUME IndInv, NEW a \in Artifacts, NEW f \in {temp[a], "none"}, NEW t \in {"failed",
           "inline"},
           Goes(a, f, "returned", t), sidecar' = sidecar, caller[a] # "send",
           marks' = Unmarked(a),
           UNCHANGED <<pending, pendingBytes>>,
           f = "none" \/ inline' = inline
    PROVE  Keeps
  <1>1. /\ temp'[a] = f /\ caller'[a] = "returned" /\ told'[a] = t
        /\ \A b \in Artifacts \ {a} : caller'[b] = caller[b] /\ temp'[b] = temp[b]
        /\ UNCHANGED <<kind, cloud, job, verified, abandoned, inflight>>
        /\ Unsettled' = Unsettled
    BY GoesFlat
  <1>2. WholeOf(a)' /\ PairOf(a)'
    BY <1>1, CallTypes DEF Fine, WholeOf, PairOf, Disposed
  <1>3. CountsInv'
    <2>1. \A b \in Artifacts : /\ caller'[b] = "send" <=> caller[b] = "send"
                               /\ temp'[b] # "none" => temp[b] # "none"
      BY <1>1
    <2> QED  BY <1>1, <2>1, UncountedFacts
  <1>4. <<a, "sent">> \notin Unsettled
    BY OpenCall DEF Goes
  <1>5. MarksAreHeld' /\ marks' \subseteq Addressed
    BY <1>1, <1>4, MarkFacts
  <1> QED  BY <1>2, <1>3, <1>5, CallTypes, GoesFacts

(* A write that fails leaves no promise. *)
LEMMA WriteFailsStep ==
    ASSUME IndInv, NEW a \in Artifacts, WriteFails(a)
    PROVE  Keeps
  <1>1. PICK f \in {temp[a], "none"} : temp' = [temp EXCEPT ![a] = f]
    <2>1. CASE temp' = temp
      BY <2>1, CallTypes
    <2>2. CASE temp' = [temp EXCEPT ![a] = "none"]
      BY <2>2
    <2> QED  BY <2>1, <2>2 DEF WriteFails
  <1>2. Goes(a, f, "returned", "failed")
    BY <1>1, CallTypes DEF Goes, WriteFails, Return, stats, Files
  <1> QED  BY <1>2, FailsStep DEF WriteFails, stats

(* A call that goes on with its file as it is. *)
LEMMA ProceedsStep ==
    ASSUME IndInv, NEW a \in Artifacts, NEW p \in {"sidecar", "count"},
           Goes(a, temp[a], p, "nothing"), caller[a] \in {"budget", "sidecar"},
           p = "count" /\ kind[a] = "durable" => a \in sidecar',
           UNCHANGED <<pending, pendingBytes, marks>>
    PROVE  Keeps
  <1>1. /\ temp'[a] = temp[a] /\ caller'[a] = p /\ told'[a] = "nothing"
        /\ \A b \in Artifacts \ {a} : caller'[b] = caller[b] /\ temp'[b] = temp[b]
        /\ UNCHANGED <<kind, cloud, job, verified, abandoned, inflight>>
        /\ Unsettled' = Unsettled
    BY GoesFlat
  <1>2. temp[a] # "torn" /\ (kind[a] = "durable" /\ ~Disposed(a) => temp[a] = "whole")
    BY CallTypes DEF Fine, WholeOf, PairOf
  <1>3. WholeOf(a)' /\ PairOf(a)'
    BY <1>1, <1>2 DEF WholeOf, PairOf, Disposed
  <1>4. CountsInv'
    <2>1. \A b \in Artifacts : /\ caller'[b] = "send" <=> caller[b] = "send"
                               /\ temp'[b] # "none" => temp[b] # "none"
      BY <1>1
    <2> QED  BY <1>1, <2>1, UncountedFacts
  <1>5. MarksAreHeld' /\ marks' \subseteq Addressed
    BY <1>1, MarkFacts
  <1> QED  BY <1>3, <1>4, <1>5, CallTypes, GoesFacts

(* A call over the budget goes inline; a durable one within it goes on to its sidecar. *)
LEMMA CheckBudgetStep ==
    ASSUME IndInv, NEW a \in Artifacts, CheckBudget(a)
    PROVE  Keeps
  <1>1. /\ caller[a] = "budget"
        /\ UNCHANGED <<kind, sidecar, old, cloud, job, slots, loop, pending, pendingBytes,
                       inflight,
                       scan, abandoned, crashes>>
    BY DEF CheckBudget, stats
  <1>2. CASE /\ temp' = [temp EXCEPT ![a] = "none"]
             /\ inline' = inline \cup {a}
             /\ marks' = Unmarked(a)
             /\ Return(a, "inline")
    <2>1. Goes(a, "none", "returned", "inline")
      BY <1>1, <1>2 DEF Goes, Return, Files
    <2> QED  BY <1>1, <1>2, <2>1, FailsStep
  <1>3. CASE /\ CallerTo(a, IF HasSidecar(a) THEN "sidecar" ELSE "count")
             /\ UNCHANGED <<temp, inline, marks>>
    <2>1. PICK p \in {"sidecar", "count"} : /\ caller' = [caller EXCEPT ![a] = p]
                                            /\ p = "count" => kind[a] # "durable"
      BY <1>3 DEF CallerTo, HasSidecar
    <2>2. temp' = [temp EXCEPT ![a] = temp[a]] /\ temp[a] \in Files
      BY <1>3, CallTypes
    <2>3. told' = [told EXCEPT ![a] = "nothing"]
      <3>1. told[a] = "nothing" /\ told' = told
        BY <1>1, <1>3, OpenCall DEF CallerTo
      <3> QED  BY <3>1, CallTypes
    <2>4. Goes(a, temp[a], p, "nothing")
      BY <1>1, <1>3, <2>1, <2>2, <2>3 DEF Goes
    <2> QED  BY <1>1, <1>3, <2>1, <2>4, ProceedsStep
  <1> QED  BY <1>2, <1>3 DEF CheckBudget

(* The sidecar of a durable artifact is there before it is counted. *)
LEMMA WriteSidecarStep ==
    ASSUME IndInv, NEW a \in Artifacts, WriteSidecar(a)
    PROVE  Keeps
  <1>1. /\ caller[a] = "sidecar"
        /\ UNCHANGED <<kind, old, cloud, inline, job, slots, loop, pending, pendingBytes,
                       inflight,
                       scan, abandoned, crashes>>
    BY DEF WriteSidecar, stats
  <1>2. CASE /\ temp' = [temp EXCEPT ![a] = "none"]
             /\ marks' = Unmarked(a)
             /\ Return(a, "failed")
             /\ UNCHANGED sidecar
    <2>1. Goes(a, "none", "returned", "failed")
      BY <1>1, <1>2 DEF Goes, Return, Files
    <2> QED  BY <1>1, <1>2, <2>1, FailsStep
  <1>3. CASE /\ sidecar' = sidecar \cup {a}
             /\ CallerTo(a, "count")
             /\ UNCHANGED <<temp, marks>>
    <2>1. temp' = [temp EXCEPT ![a] = temp[a]] /\ temp[a] \in Files
      BY <1>3, CallTypes
    <2>2. told' = [told EXCEPT ![a] = "nothing"]
      <3>1. told[a] = "nothing" /\ told' = told
        BY <1>1, <1>3, OpenCall DEF CallerTo
      <3> QED  BY <3>1, CallTypes
    <2>3. Goes(a, temp[a], "count", "nothing")
      BY <1>1, <1>3, <2>1, <2>2 DEF Goes, CallerTo
    <2> QED  BY <1>1, <1>3, <2>3, ProceedsStep
  <1> QED  BY <1>2, <1>3 DEF WriteSidecar

(* The item is counted before anyone can settle it. *)
LEMMA CountStep ==
    ASSUME IndInv, NEW a \in Artifacts, Count(a)
    PROVE  Keeps
  <1>1. /\ caller[a] = "count" /\ pending' = pending + 1 /\ pendingBytes' = pendingBytes + 1
        /\ UNCHANGED <<kind, temp, sidecar, old, cloud, inline, job, slots, loop, inflight, marks,
                       scan, abandoned, crashes>>
        /\ caller' = [caller EXCEPT ![a] = "send"] /\ told' = told
    BY DEF Count, CallerTo, disk
  <1>2. temp' = [temp EXCEPT ![a] = temp[a]] /\ temp[a] \in Files
    BY <1>1, CallTypes
  <1>3. told' = [told EXCEPT ![a] = "nothing"]
    BY <1>1, OpenCall, CallTypes
  <1>4. Goes(a, temp[a], "send", "nothing")
    BY <1>1, <1>2, <1>3 DEF Goes
  <1>5. /\ temp'[a] = temp[a] /\ caller'[a] = "send" /\ told'[a] = "nothing"
        /\ \A b \in Artifacts \ {a} : caller'[b] = caller[b] /\ temp'[b] = temp[b]
        /\ Unsettled' = Unsettled /\ verified' = verified
    BY <1>4, GoesFlat
  <1>6. WholeOf(a)' /\ PairOf(a)'
    BY <1>1, <1>5, CallTypes DEF Fine, WholeOf, PairOf, Disposed
  <1>7. CountsInv' /\ pending' \in Nat /\ pendingBytes' \in Nat
    <2> DEFINE c == <<a, "call">>
    <2>1. Sending' = Sending \cup {c}
      BY <1>1, <1>5 DEF Sending
    <2> HIDE DEF c
    <2>2. Owed' = Owed \cup {c} /\ Flying' = Flying
      BY <1>1, <2>1 DEF Owed, Flying
    <2>3. Weighed' = Weighed \cup {c}
      BY <1>1, <2>1 DEF Weighed
    <2>4. pending' - inflight' = pending - inflight + 1
      BY <1>1, GaugeTypes
    <2>5. AtLeast(pending' - inflight', Owed') /\ AtLeast(pendingBytes', Weighed')
      BY <1>1, <2>2, <2>3, <2>4, GaugeTypes, CountFacts
    <2> QED  BY <1>1, <2>2, <2>5, GaugeTypes DEF CountsInv
  <1>8. MarksAreHeld' /\ marks' \subseteq Addressed
    BY <1>1, <1>5, MarkFacts
  <1> QED  BY <1>4, <1>6, <1>7, <1>8, GoesFacts

(* An item that comes back is uncounted. *)
LEMMA SendFailsStep ==
    ASSUME IndInv, NEW a \in Artifacts, SendFails(a)
    PROVE  Keeps
  <1>1. /\ caller[a] = "send" /\ pending' = pending - 1 /\ pendingBytes' = pendingBytes - 1
        /\ marks' = Unmarked(a) /\ sidecar' = sidecar \ {a}
        /\ inline' \in {inline, inline \cup {a}}
        /\ UNCHANGED <<kind, old, cloud, job, slots, loop, inflight, scan, abandoned, crashes>>
        /\ caller' = [caller EXCEPT ![a] = "returned"]
    BY DEF SendFails, Return
  <1>2. PICK t \in {"waiting", "inline", "failed"} : told' = [told EXCEPT ![a] = t]
    BY DEF SendFails, Return
  <1>3. PICK f \in {temp[a], "none"} : temp' = [temp EXCEPT ![a] = f]
    <2>1. CASE temp' = temp
      BY <2>1, CallTypes
    <2>2. CASE temp' = [temp EXCEPT ![a] = "none"]
      BY <2>2
    <2> QED  BY <2>1, <2>2 DEF SendFails
  <1>4. Goes(a, f, "returned", t)
    BY <1>1, <1>2, <1>3, CallTypes DEF Goes, Files
  <1>5. /\ temp'[a] = f /\ caller'[a] = "returned" /\ told'[a] = t
        /\ \A b \in Artifacts \ {a} : caller'[b] = caller[b] /\ temp'[b] = temp[b]
        /\ Unsettled' = Unsettled /\ verified' = verified
    BY <1>4, GoesFlat
  <1>6. WholeOf(a)' /\ PairOf(a)'
    BY <1>1, <1>5, CallTypes DEF Fine, WholeOf, PairOf, Disposed
  <1>7. CountsInv' /\ pending' \in Nat /\ pendingBytes' \in Nat
    <2> DEFINE c == <<a, "call">>
    <2>1. Sending' = Sending \ {c} /\ c \in Sending /\ c \notin Jobs
      BY <1>1, <1>5, JobFacts DEF Sending
    <2> HIDE DEF c
    <2>2. Owed' = Owed \ {c} /\ Flying' = Flying /\ c \in Owed
      BY <1>1, <2>1 DEF Owed, Flying
    <2>3. Weighed' \subseteq Weighed \ {c} /\ c \in Weighed
      <3>1. \A b \in Artifacts : temp'[b] # "none" => temp[b] # "none"
        BY <1>5
      <3> QED  BY <1>1, <2>1, <3>1, JobFacts DEF Weighed
    <2>4. AtLeast(pending - inflight - 1, Owed \ {c}) /\ AtLeast(pendingBytes - 1, Weighed \ {c})
      BY <2>2, <2>3, GaugeTypes, CountFacts
    <2>5. pending' - inflight' = pending - inflight - 1 /\ pending' \in Nat /\ pendingBytes' \in Nat
      BY <1>1, <2>4, GaugeTypes DEF AtLeast
    <2>6. AtLeast(pendingBytes', Weighed')
      BY <1>1, <2>3, <2>4, CountFacts
    <2> QED  BY <1>1, <2>2, <2>4, <2>5, <2>6, GaugeTypes DEF CountsInv
  <1>8. <<a, "sent">> \notin Unsettled
    BY <1>1, OpenCall
  <1>9. MarksAreHeld' /\ marks' \subseteq Addressed
    BY <1>1, <1>5, <1>8, MarkFacts
  <1> QED  BY <1>4, <1>6, <1>7, <1>9, GoesFacts

(* A job that is sent: it was none, and is now the last in the channel. *)
LEMMA QueuedFacts ==
    ASSUME IndInv, NEW j \in Jobs, job[j].at = "none", Len(channel) < Capacity,
           channel' = Append(channel, j), job' = [job EXCEPT ![j].at = "queued"]
    PROVE  /\ job' \in [Jobs -> JobType] /\ \A k \in Jobs \ {j} : job'[k] = job[k]
           /\ job'[j].at = "queued" /\ job'[j].opened = job[j].opened
           /\ job'[j].result = job[j].result /\ job'[j].bytes = job[j].bytes
           /\ ChannelInv' /\ channel' \in Seq(Jobs) /\ Len(channel') <= Capacity
           /\ Unsettled' = Unsettled \cup {j}
           /\ Flying' = Flying /\ j \notin Flying
  <1>1. /\ job' \in [Jobs -> JobType] /\ \A k \in Jobs \ {j} : job'[k] = job[k]
        /\ job'[j].at = "queued" /\ job'[j].opened = job[j].opened
        /\ job'[j].result = job[j].result /\ job'[j].bytes = job[j].bytes
    BY TaskTypes DEF JobType, Waiting
  <1> DEFINE n == Len(channel)
  <1>2. channel \in Seq(Jobs) /\ n \in Nat /\ n < Capacity
    BY DEF IndInv, TypeOK
  <1>3. /\ channel' \in Seq(Jobs) /\ Len(channel') = n + 1 /\ channel'[n + 1] = j
        /\ \A k \in 1 .. n : channel'[k] = channel[k] /\ channel[k] \in Jobs
    BY <1>2
  <1>4. /\ \A k \in 1 .. n : job[channel[k]].at = "queued" /\ channel[k] # j
        /\ \A k, l \in 1 .. n : channel[k] = channel[l] => k = l
    BY DEF IndInv, ChannelInv
  <1> HIDE DEF n
  <1>5. ChannelInv'
    <2>1. \A k \in 1 .. (n + 1) : k \in 1 .. n \/ k = n + 1
      BY <1>2
    <2>2. \A k \in 1 .. (n + 1) : job'[channel'[k]].at = "queued"
      BY <1>1, <1>3, <1>4, <2>1
    <2>3. \A k, l \in 1 .. (n + 1) : channel'[k] = channel'[l] => k = l
      BY <1>3, <1>4, <2>1
    <2> QED  BY <1>3, <2>2, <2>3 DEF ChannelInv
  <1>6. Len(channel') <= Capacity
    BY <1>2, <1>3, UploadAssumption
  <1>7. Unsettled' = Unsettled \cup {j} /\ Flying' = Flying /\ j \notin Flying
    BY <1>1 DEF Unsettled, Flying, UnderWay, Waiting, Finishing
  <1> QED  BY <1>1, <1>3, <1>5, <1>6, <1>7

(* An item that is sent is owed by its job instead of by its call. *)
LEMMA SendStep ==
    ASSUME IndInv, NEW a \in Artifacts, Send(a)
    PROVE  Keeps
  <1> DEFINE j == <<a, "sent">>
  <1>1. /\ caller[a] = "send" /\ Len(channel) < Capacity /\ j \in Jobs
        /\ channel' = Append(channel, j) /\ job' = [job EXCEPT ![j].at = "queued"]
        /\ UNCHANGED <<kind, temp, sidecar, old, cloud, inline, slots, worker, failures, drain,
                       draining, pending, pendingBytes, inflight, marks, reconcile, recovery,
                       todo,
                       verified, abandoned, crashes>>
        /\ caller' = [caller EXCEPT ![a] = "returned"]
    BY JobFacts DEF Send, Return, disk, stats, scan
  <1>2. PICK t \in {"waiting", "enqueued"} : told' = [told EXCEPT ![a] = t]
    BY DEF Send, Return
  <1>3. job[j].at = "none" /\ ~Taken(a) /\ a \notin inline
    BY <1>1, OpenCall
  <1>4. /\ job' \in [Jobs -> JobType] /\ \A k \in Jobs \ {j} : job'[k] = job[k]
        /\ job'[j].at = "queued" /\ job'[j].opened = job[j].opened
        /\ job'[j].result = job[j].result /\ job'[j].bytes = job[j].bytes
        /\ ChannelInv' /\ channel' \in Seq(Jobs) /\ Len(channel') <= Capacity
        /\ Unsettled' = Unsettled \cup {j}
        /\ Flying' = Flying /\ j \notin Flying
    BY <1>1, <1>3, QueuedFacts
  <1>5. /\ caller'[a] = "returned" /\ told'[a] = t
        /\ \A b \in Artifacts \ {a} : caller'[b] = caller[b] /\ told'[b] = told[b]
    BY <1>1, <1>2, CallTypes
  <1>6. Calling(a)
    <2>1. /\ caller' \in CallerType
          /\ told' \in ToldType
      BY <1>1, <1>2, CallTypes
    <2>2. \A k \in Jobs : /\ k # <<a, "sent">> => job'[k] = job[k]
                          /\ job'[k].at = job[k].at \/ (job'[k].at = "queued" /\ job[k].at = "none")
                          /\ job'[k].bytes = job[k].bytes
                          /\ job'[k].opened = job[k].opened /\ job'[k].result = job[k].result
      BY <1>3, <1>4
    <2> QED  BY <1>1, <1>4, <1>5, <2>1, <2>2, CallTypes DEF Calling, scan
  <1>7. temp[a] # "torn"
    BY <1>1, CallTypes DEF Fine, WholeOf
  <1>8. Fine(a)'
    <2>1. job'[<<a, "recovered">>] = job[<<a, "recovered">>]
      BY <1>4, JobFacts
    <2>2. LifeOf(a)'
      BY <1>1, <1>5, <2>1, CallTypes DEF LifeOf, Fine
    <2>3. WholeOf(a)'
      BY <1>1, <1>7 DEF WholeOf
    <2>4. PairOf(a)'
      BY <1>1, <1>5, CallTypes DEF Fine, PairOf, Disposed
    <2> QED  BY <1>1, <1>5, <2>2, <2>3, <2>4, CallTypes DEF Fine
  <1>9. CountsInv'
    <2> DEFINE c == <<a, "call">>
    <2>1. Sending' = Sending \ {c} /\ c \in Sending /\ c \notin Jobs
      BY <1>1, <1>5, JobFacts DEF Sending
    <2> HIDE DEF c, j
    <2>2. Owed' \subseteq (Owed \ {c}) \cup {j} /\ c \in Owed
      BY <1>1, <1>4, <2>1 DEF Owed
    <2>3. Weighed' \subseteq (Weighed \ {c}) \cup {j} /\ c \in Weighed
      BY <1>1, <1>4, <2>1 DEF Weighed
    <2>4. /\ AtLeast(pending - inflight, (Owed \ {c}) \cup {j})
          /\ AtLeast(pendingBytes, (Weighed \ {c}) \cup {j})
      BY <2>2, <2>3, GaugeTypes, CountFacts
    <2>5. AtLeast(pending' - inflight', Owed') /\ AtLeast(pendingBytes', Weighed')
      BY <1>1, <2>2, <2>3, <2>4, CountFacts
    <2> QED  BY <1>1, <1>4, <2>5, GaugeTypes DEF CountsInv
  <1>10. MarksAreHeld' /\ marks' \subseteq Addressed
    BY <1>1, <1>4, <1>5, MarkFacts
  <1> QED  BY <1>1, <1>3, <1>4, <1>6, <1>8, <1>9, <1>10, CallTypes, CallingFacts

(* An inline upload stores whole bytes or nothing. *)
LEMMA InlineUploadStep ==
    ASSUME IndInv, NEW a \in Artifacts, InlineUpload(a)
    PROVE  Keeps
  <1>1. /\ a \in inline /\ inline' = inline \ {a}
        /\ UNCHANGED <<kind, sidecar, old, caller, job, slots, channel, worker, failures, drain,
                       draining, pending, pendingBytes, inflight, marks, reconcile, recovery,
                       todo,
                       verified, abandoned, crashes>>
        /\ temp' = IF kind[a] = "awaited" THEN [temp EXCEPT ![a] = "none"] ELSE temp
    BY DEF InlineUpload, loop, stats, scan
  <1>2. caller[a] = "returned" /\ temp[a] \in Files /\ temp[a] # "torn"
    BY <1>1, CallTypes DEF Fine, LifeOf, WholeOf
  <1>3. PICK s \in {"none", "whole"} :
          /\ cloud' = IF s = "none" THEN cloud ELSE [cloud EXCEPT ![a] = s]
          /\ told' = IF kind[a] # "awaited" THEN told
                     ELSE [told EXCEPT ![a] = IF s = "none" THEN "error" ELSE "uploaded"]
    <2>1. (IF kind[a] = "awaited" THEN temp[a] ELSE "whole") \in {"none", "whole"}
      BY <1>2 DEF Files
    <2> QED  BY <2>1 DEF InlineUpload
  <1>4. /\ cloud' \in [Artifacts -> Files] /\ cloud'[a] \in {cloud[a], "whole"}
        /\ cloud' = cloud \/ cloud'[a] = "whole"
        /\ \A b \in Artifacts \ {a} : cloud'[b] = cloud[b]
    BY <1>3, CallTypes DEF Files
  <1>5. /\ told' \in ToldType
        /\ \A b \in Artifacts \ {a} : told'[b] = told[b]
        /\ told'[a] # told[a] => kind[a] = "awaited"
        /\ told'[a] = "uploaded" => cloud'[a] # "none"
    <2>1. CASE kind[a] # "awaited"
      BY <1>3, <1>4, <2>1, CallTypes DEF Fine
    <2>2. CASE kind[a] = "awaited"
      BY <1>3, <1>4, <2>2, CallTypes
    <2> QED  BY <2>1, <2>2
  <1>6. /\ temp' \in [Artifacts -> Files] /\ \A b \in Artifacts \ {a} : temp'[b] = temp[b]
        /\ temp'[a] \in {temp[a], "none"} /\ (temp'[a] # temp[a] => kind[a] = "awaited")
    BY <1>1, CallTypes DEF Files
  <1>7. Calling(a)
    BY <1>1, <1>4, <1>5, <1>6, CallTypes DEF Calling, scan
  <1>8. Fine(a)'
    <2>1. LifeOf(a)'
      BY <1>1, <1>2, CallTypes DEF Fine, LifeOf
    <2>2. WholeOf(a)'
      BY <1>1, <1>2, <1>6 DEF WholeOf
    <2>3. PairOf(a)'
      BY <1>1, <1>2, <1>4, <1>5, <1>6, CallTypes DEF Fine, PairOf, Disposed
    <2> QED  BY <1>4, <1>5, <2>1, <2>2, <2>3, CallTypes DEF Fine
  <1>9. CountsInv'
    BY <1>1, <1>6, UncountedFacts
  <1>10. MarksAreHeld' /\ marks' \subseteq Addressed
    <2>1. Unsettled' = Unsettled
      BY <1>1 DEF Unsettled
    <2> QED  BY <1>1, <2>1, MarkFacts
  <1>11. ChannelInv'
    BY <1>1 DEF IndInv, ChannelInv
  <1>12. Taken(a)' <=> Taken(a)
    BY <1>1, <1>5 DEF Taken
  <1>13. cloud[a] # "none" => cloud'[a] # "none"
    BY <1>4
  <1> QED  BY <1>1, <1>4, <1>7, <1>8, <1>9, <1>10, <1>11, <1>12, <1>13, CallTypes, CallingFacts

-----------------------------------------------------------------------------
(* Restart, and what the clock and the reconcile do to the disk. *)

(* Files go and artifacts are given up; the queue itself does not move. *)
Tidies ==
    /\ UNCHANGED <<cloud, callers, job, slots, channel, failures, drain, draining, stats, marks,
                   crashes>>
    /\ temp' \in [Artifacts -> Files] /\ \A a \in Artifacts : temp'[a] \in {temp[a], "none"}
    /\ sidecar' \subseteq Artifacts /\ old' \subseteq Artifacts
    /\ abandoned \subseteq abandoned' /\ abandoned' \subseteq Artifacts
    /\ worker' \in {worker, "top"}
    /\ reconcile' \in {"fresh", "recovered", "purged"}
    /\ recovery' \in {"none", "running", "done"}
    /\ todo' \subseteq Artifacts /\ verified' \subseteq Artifacts
    /\ \A a \in verified' : a \in verified \/ temp[a] = "whole"

(* Such a step keeps the invariant, if it keeps the life and the pair of every artifact. *)
LEMMA TidiesFacts ==
    ASSUME IndInv, Tidies, LifeInv', \A a \in Artifacts : PairOf(a)'
    PROVE  Keeps
  <1>1. UNCHANGED <<cloud, kind, caller, told, inline, job, slots, channel, failures, drain,
                    draining,
                    pending, pendingBytes, inflight, marks, crashes>>
    BY DEF Tidies, callers, stats
  <1>2. TypeOK'
    <2>1. draining' \in BOOLEAN
      BY <1>1 DEF IndInv, TypeOK
    <2> QED  BY <1>1, <2>1 DEF IndInv, TypeOK, Tidies
  <1>3. Unsettled' = Unsettled /\ SlotsInv' /\ ChannelInv'
    BY <1>1 DEF Unsettled, IndInv, SlotsInv, ChannelInv
  <1>4. CountsInv'
    <2>1. \A b \in Artifacts : temp'[b] # "none" => temp[b] # "none"
      BY DEF Tidies
    <2> QED  BY <1>1, <2>1, UncountedFacts
  <1>5. MarksAreHeld'
    BY <1>1, <1>3 DEF IndInv, MarksAreHeld, Dedups
  <1>6. WholeInv'
    <2>1. \A a \in Artifacts : temp'[a] = "torn" => temp[a] = "torn" /\ a \notin verified'
      BY DEF Tidies, IndInv, WholeInv, WholeOf
    <2> QED  BY <1>1, <1>3, <2>1 DEF IndInv, WholeInv, WholeOf, CloudIsWhole
  <1>7. FateInv'
    <2>1. \A b \in Artifacts : Disposed(b) => Disposed(b)'
      BY <1>1 DEF Disposed, Tidies
    <2> QED  BY <1>1, <2>1, JobFacts DEF IndInv, FateInv
  <1>8. Drops /\ FreshInv'
    BY <1>1 DEF Drops, Tidies, Taken, IndInv, FreshInv
  <1> QED  BY <1>2, <1>3, <1>4, <1>5, <1>6, <1>7, <1>8 DEF Keeps, IndInv

(* An artifact whose pair goes, but for one that has been given up, was not promised. *)
LEMMA TidyPair ==
    ASSUME IndInv, Tidies, NEW a \in Artifacts,
           Disposed(a)' \/ (temp'[a] = temp[a] /\ (a \in sidecar => a \in sidecar'))
                        \/ temp[a] = "none" \/ (caller[a] \in {"count", "send", "returned"} /\ a \notin sidecar)
    PROVE  PairOf(a)'
  <1>1. kind' = kind /\ caller' = caller /\ told' = told /\ (~Disposed(a)' => ~Disposed(a))
    BY DEF Tidies, callers, Disposed
  <1>2. PairOf(a) /\ caller[a] \in {"idle", "writing", "budget", "sidecar", "count", "send", "returned"}
        /\ (caller[a] # "returned" => told[a] = "nothing")
    BY CallTypes DEF Fine, LifeOf
  <1> QED  BY <1>1, <1>2 DEF PairOf

(* The janitor's sweep. *)
LEMMA SweepFacts ==
    ASSUME IndInv, Sweep(temp, sidecar)
    PROVE  /\ temp' \in [Artifacts -> Files] /\ \A a \in Artifacts : temp'[a] \in {temp[a], "none"}
           /\ sidecar' \subseteq sidecar
           /\ abandoned \subseteq abandoned' /\ abandoned' \subseteq Artifacts
           /\ \A a \in Artifacts : \/ a \in abandoned' \/ temp[a] = "none"
                                   \/ temp'[a] = temp[a] /\ (a \in sidecar => a \in sidecar')
  BY DEF Sweep, IndInv, TypeOK, Files

(* The janitor and the purge give up what they delete. *)
LEMMA SweepStep ==
    ASSUME IndInv, RecoverDone \/ Restart \/ Purge
    PROVE  Keeps
  <1>1. /\ temp' \in [Artifacts -> Files] /\ \A a \in Artifacts : temp'[a] \in {temp[a], "none"}
        /\ sidecar' \subseteq sidecar
        /\ abandoned \subseteq abandoned' /\ abandoned' \subseteq Artifacts
        /\ \A a \in Artifacts : \/ a \in abandoned' \/ temp[a] = "none"
                                \/ temp'[a] = temp[a] /\ (a \in sidecar => a \in sidecar')
    <2>1. CASE Sweep(temp, sidecar)
      BY <2>1, SweepFacts
    <2>2. CASE Purge
      BY <2>2 DEF Purge, IndInv, TypeOK, Files
    <2> QED  BY <2>1, <2>2 DEF RecoverDone, Restart
  <1>2. /\ UNCHANGED <<old, cloud, callers, job, slots, channel, failures, drain, draining,
                       stats, marks,
                       todo, verified, crashes>>
        /\ worker' \in {worker, "top"} /\ reconcile' \in {reconcile, "purged"}
        /\ recovery' \in {recovery, "done"}
    BY DEF RecoverDone, Restart, Purge, loop, scan
  <1>3. Tidies
    BY <1>1, <1>2 DEF Tidies, IndInv, TypeOK
  <1>4. LifeInv'
    <2> SUFFICES ASSUME NEW a \in Artifacts PROVE LifeOf(a)'
      BY DEF LifeInv
    <2>1. LifeOf(a) /\ temp'[a] \in {temp[a], "none"}
      BY <1>1, CallTypes DEF Fine
    <2>2. caller' = caller /\ told' = told /\ inline' = inline
      BY <1>2 DEF callers
    <2> QED  BY <1>1, <1>2, <2>1, <2>2 DEF LifeOf
  <1>5. \A a \in Artifacts : PairOf(a)'
    BY <1>1, <1>3, TidyPair DEF Disposed
  <1> QED  BY <1>3, <1>4, <1>5, TidiesFacts

(* The scan finds no sidecar of a call that has not written it. *)
LEMMA RecoverScanStep ==
    ASSUME IndInv, RecoverScan
    PROVE  Keeps
  <1>1. /\ UNCHANGED <<temp, sidecar, old, cloud, callers, job, slots, channel, failures, drain,
                       draining, stats, marks, verified, crashes, worker, abandoned>>
        /\ reconcile = "fresh" /\ reconcile' = "recovered" /\ recovery' = "running"
        /\ todo' = sidecar
    BY DEF RecoverScan, disk, loop
  <1>2. Tidies
    BY <1>1 DEF Tidies, IndInv, TypeOK
  <1>3. LifeInv'
    <2> SUFFICES ASSUME NEW a \in Artifacts PROVE LifeOf(a)'
      BY DEF LifeInv
    <2>1. LifeOf(a) /\ caller' = caller /\ told' = told /\ inline' = inline
      BY <1>1, CallTypes DEF Fine, callers
    <2> QED  BY <1>1, <2>1 DEF LifeOf
  <1>4. \A a \in Artifacts : PairOf(a)'
    BY <1>1, <1>2, TidyPair
  <1> QED  BY <1>2, <1>3, <1>4, TidiesFacts

(* Time passes. *)
LEMMA AgeStep ==
    ASSUME IndInv, NEW a \in Artifacts, Age(a)
    PROVE  Keeps
  <1>1. /\ UNCHANGED <<temp, sidecar, cloud, callers, job, slots, channel, failures, drain,
                       draining, stats, marks, crashes, worker, abandoned>>
        /\ UNCHANGED <<reconcile, recovery, todo, verified>>
        /\ old' = old \cup {a}
    BY DEF Age, loop, scan
  <1>2. Tidies
    BY <1>1 DEF Tidies, IndInv, TypeOK
  <1>3. LifeInv'
    BY <1>1 DEF callers, IndInv, LifeInv, LifeOf
  <1>4. \A b \in Artifacts : PairOf(b)'
    BY <1>1, <1>2, TidyPair
  <1> QED  BY <1>2, <1>3, <1>4, TidiesFacts

(* Recovery deletes a pair only when it gives it up or nobody was promised it. *)
LEMMA RecoverCheckStep ==
    ASSUME IndInv, NEW a \in Artifacts, RecoverCheck(a)
    PROVE  Keeps
  <1>1. /\ verified = {} /\ a \in todo /\ todo' = todo \ {a}
        /\ UNCHANGED <<old, cloud, callers, job, slots, channel, worker, failures, drain,
                       draining,
                       stats, marks, reconcile, recovery, crashes>>
    BY DEF RecoverCheck, loop
  <1>2. caller' = caller /\ told' = told /\ inline' = inline
    BY <1>1 DEF callers
  <1>3. caller[a] \in {"count", "send", "returned"}
    BY <1>1, CallTypes DEF Fine, LifeOf
  <1>4. CASE Sound(a) /\ verified' = {a} /\ UNCHANGED <<temp, sidecar, abandoned>>
    <2>1. Tidies
      BY <1>1, <1>4 DEF Tidies, Sound, IndInv, TypeOK
    <2>2. LifeInv'
      <3> SUFFICES ASSUME NEW b \in Artifacts PROVE LifeOf(b)'
        BY DEF LifeInv
      <3>1. LifeOf(b) /\ (b = a => b \in todo)
        BY <1>1, CallTypes DEF Fine
      <3> QED  BY <1>1, <1>2, <1>4, <3>1 DEF LifeOf
    <2>3. \A b \in Artifacts : PairOf(b)'
      BY <1>4, <2>1, TidyPair
    <2> QED  BY <2>1, <2>2, <2>3, TidiesFacts
  <1>5. CASE /\ temp' = [temp EXCEPT ![a] = "none"]
             /\ sidecar' = sidecar \ {a}
             /\ abandoned' = IF a \in sidecar /\ temp[a] # "none" THEN abandoned \cup {a} ELSE abandoned
             /\ UNCHANGED verified
    <2>1. /\ temp' \in [Artifacts -> Files] /\ \A b \in Artifacts : temp'[b] \in {temp[b], "none"}
          /\ \A b \in Artifacts \ {a} : temp'[b] = temp[b] /\ (b \in sidecar => b \in sidecar')
      BY <1>5, CallTypes DEF Files
    <2>2. Tidies
      BY <1>1, <1>5, <2>1 DEF Tidies, IndInv, TypeOK
    <2>3. LifeInv'
      <3> SUFFICES ASSUME NEW b \in Artifacts PROVE LifeOf(b)'
        BY DEF LifeInv
      <3>1. LifeOf(b) /\ temp'[b] \in {temp[b], "none"}
        BY <2>1, CallTypes DEF Fine
      <3> QED  BY <1>1, <1>2, <1>5, <3>1 DEF LifeOf
    <2>4. PairOf(a)'
      <3>1. Disposed(a)' \/ temp[a] = "none" \/ a \notin sidecar
        BY <1>5 DEF Disposed
      <3> QED  BY <1>3, <2>2, <3>1, TidyPair
    <2>5. \A b \in Artifacts : PairOf(b)'
      BY <2>1, <2>2, <2>4, TidyPair
    <2> QED  BY <2>2, <2>3, <2>5, TidiesFacts
  <1> QED  BY <1>4, <1>5 DEF RecoverCheck

(* A recovered pair is counted as it is sent, by what it weighs now. *)
LEMMA ReenqueueStep ==
    ASSUME IndInv, NEW a \in Artifacts, Reenqueue(a)
    PROVE  Keeps
  <1> DEFINE j == <<a, "recovered">>
             size == IF temp[a] = "none" THEN 0 ELSE 1
  <1>1. /\ a \in verified /\ verified' = {} /\ j \in Jobs /\ Artifact(j) = a
        /\ UNCHANGED <<temp, sidecar, old, cloud, kind, caller, told, inline, slots, worker,
                       failures,
                       drain, draining, inflight, marks, reconcile, recovery, todo, abandoned,
                       crashes>>
    BY JobFacts DEF Reenqueue, disk, callers
  <1>2. /\ job[j].at = "none" /\ reconcile # "fresh" /\ temp[a] # "torn"
        /\ caller[a] \in {"count", "send", "returned"}
    BY <1>1, CallTypes DEF Fine, LifeOf, WholeOf
  <1>3. CASE UNCHANGED <<channel, job, pending, pendingBytes>>
    <2>1. Tidies
      BY <1>1, <1>3 DEF Tidies, callers, stats, IndInv, TypeOK
    <2>2. LifeInv'
      BY <1>1, <1>3 DEF IndInv, LifeInv, LifeOf
    <2>3. \A b \in Artifacts : PairOf(b)'
      BY <1>1, <2>1, TidyPair
    <2> QED  BY <2>1, <2>2, <2>3, TidiesFacts
  <1>4. CASE /\ Len(channel) < Capacity
             /\ pending' = pending + 1 /\ pendingBytes' = pendingBytes + size
             /\ channel' = Append(channel, j) /\ job' = [job EXCEPT ![j].at = "queued"]
    <2>1. /\ job' \in [Jobs -> JobType] /\ \A k \in Jobs \ {j} : job'[k] = job[k]
          /\ job'[j].at = "queued" /\ job'[j].opened = job[j].opened
          /\ job'[j].result = job[j].result /\ job'[j].bytes = job[j].bytes
          /\ ChannelInv' /\ channel' \in Seq(Jobs) /\ Len(channel') <= Capacity
          /\ Unsettled' = Unsettled \cup {j}
          /\ Flying' = Flying /\ j \notin Flying
      BY <1>1, <1>2, <1>4, QueuedFacts
    <2>2. size \in 0 .. 1 /\ (temp[a] # "none" => size = 1)
      OBVIOUS
    <2>3. TypeOK'
      <3>1. draining' \in BOOLEAN
        BY <1>1 DEF IndInv, TypeOK
      <3> HIDE DEF size, j
      <3>2. pending' \in Nat /\ pendingBytes' \in Nat
        BY <1>4, <2>2, GaugeTypes
      <3> QED  BY <1>1, <2>1, <3>1, <3>2 DEF IndInv, TypeOK, JobType
    <2>4. CountsInv'
      <3>1. Sending' = Sending
        BY <1>1 DEF Sending
      <3>2. Owed' \subseteq Owed \cup {j}
        BY <2>1, <3>1 DEF Owed
      <3>3. Weighed' \subseteq Weighed \cup {j} /\ (temp[a] = "none" => Weighed' \subseteq Weighed)
        BY <1>1, <2>1, <3>1 DEF Weighed, UnderWay
      <3>4. pending' - inflight' = pending - inflight + 1
        BY <1>1, <1>4, GaugeTypes
      <3> HIDE DEF j
      <3>5. AtLeast(pending - inflight + 1, Owed \cup {j}) /\ AtLeast(pendingBytes + 1, Weighed \cup {j})
        BY GaugeTypes, CountFacts
      <3>6. AtLeast(pending' - inflight', Owed')
        BY <3>2, <3>4, <3>5, CountFacts
      <3>7. AtLeast(pendingBytes', Weighed')
        <4>1. CASE temp[a] = "none"
          <5>1. pendingBytes' = pendingBytes
            BY <1>4, <4>1, GaugeTypes
          <5> QED  BY <3>3, <4>1, <5>1, GaugeTypes, CountFacts
        <4>2. CASE temp[a] # "none"
          <5>1. pendingBytes' = pendingBytes + 1
            BY <1>4, <4>2
          <5> QED  BY <3>3, <3>5, <5>1, CountFacts
        <4> QED  BY <4>1, <4>2
      <3> QED  BY <1>1, <2>1, <3>6, <3>7, GaugeTypes DEF CountsInv
    <2>5. LifeInv'
      <3> SUFFICES ASSUME NEW b \in Artifacts PROVE LifeOf(b)'
        BY DEF LifeInv
      <3>1. /\ LifeOf(b) /\ <<b, "sent">> \in Jobs /\ <<b, "recovered">> \in Jobs
            /\ <<b, "sent">> # j /\ (b # a => <<b, "recovered">> # j)
        BY CallTypes, JobFacts DEF Fine
      <3>2. /\ job'[<<b, "sent">>] = job[<<b, "sent">>]
            /\ b # a => job'[<<b, "recovered">>] = job[<<b, "recovered">>]
        BY <2>1, <3>1
      <3>3. b = a => LifeOf(a) /\ job'[<<a, "recovered">>].at = "queued" /\ a \notin todo
        BY <1>1, <2>1, <3>1 DEF LifeOf
      <3> QED  BY <1>1, <1>2, <3>1, <3>2, <3>3 DEF LifeOf
    <2>6. WholeInv'
      <3>1. \A k \in Jobs : job'[k].opened # "torn"
        BY <2>1 DEF IndInv, WholeInv
      <3>2. \A b \in Artifacts : WholeOf(b)'
        <4> SUFFICES ASSUME NEW b \in Artifacts, temp[b] = "torn" PROVE WholeOf(b)'
          BY <1>1 DEF WholeOf
        <4>1. WholeOf(b) /\ <<b, "sent">> # j /\ <<b, "recovered">> # j
          BY <1>2, CallTypes DEF Fine
        <4> QED  BY <1>1, <2>1, <4>1 DEF WholeOf
      <3> QED  BY <1>1, <3>1, <3>2 DEF IndInv, WholeInv, CloudIsWhole
    <2>7. FateInv'
      <3>1. \A b \in Artifacts : (Disposed(b)' <=> Disposed(b)) /\ (PairOf(b) => PairOf(b)')
        BY <1>1 DEF Disposed, PairOf
      <3>2. \A k \in Jobs : /\ job'[k].result = job[k].result
                            /\ job'[k].at \in {"remove", "removeSidecar"} =>
                                 job[k].at \in {"remove", "removeSidecar"}
        BY <2>1
      <3> QED  BY <1>1, <3>1, <3>2, JobFacts DEF IndInv, FateInv
    <2>8. SlotsInv' /\ MarksAreHeld'
      BY <1>1, <2>1 DEF IndInv, SlotsInv, MarksAreHeld, Dedups
    <2>9. Drops /\ FreshInv'
      BY <1>1, <1>2, <2>1 DEF Drops, Taken, IndInv, FreshInv
    <2> QED  BY <2>1, <2>3, <2>4, <2>5, <2>6, <2>7, <2>8, <2>9 DEF Keeps, IndInv
  <1> QED  BY <1>3, <1>4 DEF Reenqueue

(* The abort drops jobs and marks; the gauges stay above what is left. *)
LEMMA DrainTimesOutStep ==
    ASSUME IndInv, DrainTimesOut
    PROVE  Keeps
  <1> DEFINE A == {j \in Jobs : job[j].at \in Waiting}
             n == [NoJob EXCEPT !.at = "aborted"]
  <1>1. /\ drain' = "timedOut" /\ worker' = "aborted" /\ channel' = << >>
        /\ job' = [j \in Jobs |-> IF j \in A THEN n ELSE job[j]]
        /\ slots' = slots \ A
        /\ marks' = marks \ {Dest[a] : a \in {b \in Artifacts : Dedups(b) /\ <<b, "sent">> \in A}}
        /\ told' = [a \in Artifacts |-> IF told[a] = "waiting" /\ <<a, "sent">> \in A THEN "closed"
                                        ELSE told[a]]
        /\ UNCHANGED <<kind, temp, sidecar, old, cloud, caller, inline, failures, draining,
                       pending,
                       pendingBytes, inflight, reconcile, recovery, todo, verified, abandoned,
                       crashes>>
    BY DEF DrainTimesOut, disk, stats, scan
  <1>2. n \in JobType /\ n.at = "aborted" /\ n.opened = "none" /\ n.result = "none"
    <2>1. 0 \in 0 .. MaxAttempts /\ FALSE \in BOOLEAN
      BY UploadAssumption
    <2>2. NoJob \in JobType
      BY <2>1 DEF NoJob, JobType, Files
    <2>3. NoJob.opened = "none" /\ NoJob.result = "none"
      BY DEF NoJob
    <2> HIDE DEF NoJob
    <2> QED  BY <2>2, <2>3 DEF JobType
  <1>3. /\ A \subseteq Jobs /\ \A j \in Jobs : j \in A <=> job[j].at \in Waiting
    OBVIOUS
  <1> HIDE DEF A, n
  <1>4. /\ job' \in [Jobs -> JobType]
        /\ \A j \in Jobs : IF job[j].at \in Waiting THEN job'[j] = n ELSE job'[j] = job[j]
    BY <1>1, <1>2, <1>3, TaskTypes
  <1>5. TypeOK'
    <2>1. draining' \in BOOLEAN
      BY <1>1 DEF IndInv, TypeOK
    <2>2. told' \in ToldType
      BY <1>1 DEF IndInv, TypeOK
    <2>3. slots' \subseteq Jobs /\ Cardinality(slots') <= MaxConcurrent
      <3>1. IsFiniteSet(slots) /\ Cardinality(slots) <= MaxConcurrent /\ slots' \subseteq slots
        BY <1>1 DEF IndInv, SlotsInv, TypeOK
      <3>2. IsFiniteSet(slots') /\ Cardinality(slots') <= Cardinality(slots)
        BY <3>1, FS_Subset
      <3>3. Cardinality(slots') \in Nat /\ Cardinality(slots) \in Nat
        BY <3>1, <3>2, FS_CardinalityType
      <3> QED  BY <3>1, <3>2, <3>3, UploadAssumption DEF IndInv, TypeOK
    <2>4. channel' \in Seq(Jobs) /\ Len(channel') <= Capacity
      BY <1>1, UploadAssumption
    <2>5. marks' \subseteq Addressed
      BY <1>1 DEF IndInv, TypeOK
    <2> QED  BY <1>1, <1>4, <2>1, <2>2, <2>3, <2>4, <2>5 DEF IndInv, TypeOK, JobType
  <1>6. SlotsInv' /\ ChannelInv'
    <2>1. slots' \subseteq slots /\ IsFiniteSet(slots)
      BY <1>1 DEF IndInv, SlotsInv
    <2>2. IsFiniteSet(slots')
      BY <2>1, FS_Subset
    <2> QED  BY <1>1, <2>2 DEF SlotsInv, ChannelInv
  <1>7. CountsInv'
    <2>1. Sending' = Sending
      BY <1>1 DEF Sending
    <2>2. Owed' \subseteq Owed /\ Flying' \subseteq Flying
      BY <1>2, <1>4, <2>1 DEF Owed, Flying, Undispatched, UnderWay
    <2>3. Weighed' \subseteq Weighed
      BY <1>1, <1>2, <1>4, <2>1 DEF Weighed, Undispatched, UnderWay
    <2> QED  BY <1>1, <2>2, <2>3, GaugeTypes, CountFacts DEF CountsInv
  <1>8. LifeInv'
    <2> SUFFICES ASSUME NEW a \in Artifacts PROVE LifeOf(a)'
      BY DEF LifeInv
    <2>1. LifeOf(a) /\ <<a, "sent">> \in Jobs /\ <<a, "recovered">> \in Jobs
      BY CallTypes DEF Fine
    <2>2. /\ told[a] # "waiting" => told'[a] = told[a]
          /\ job'[<<a, "sent">>].at = "none" <=> job[<<a, "sent">>].at = "none"
          /\ job'[<<a, "recovered">>].at = "none" <=> job[<<a, "recovered">>].at = "none"
      BY <1>1, <1>2, <1>4, <2>1 DEF Waiting
    <2> QED  BY <1>1, <2>1, <2>2 DEF LifeOf
  <1>9. WholeInv'
    <2>1. Unsettled' \subseteq Unsettled /\ \A j \in Jobs : job'[j].opened # "torn"
      BY <1>2, <1>4 DEF Unsettled, Waiting, Finishing, IndInv, WholeInv
    <2> QED  BY <1>1, <2>1 DEF IndInv, WholeInv, WholeOf, CloudIsWhole
  <1>10. FateInv'
    <2>1. \A a \in Artifacts : told'[a] # told[a] => told'[a] = "closed"
      BY <1>1
    <2>2. \A a \in Artifacts : (Disposed(a)' <=> Disposed(a)) /\ (PairOf(a) => PairOf(a)')
      BY <1>1, <2>1 DEF Disposed, PairOf
    <2>3. \A j \in Jobs : /\ job'[j].result = "ok" => job[j].result = "ok"
                          /\ job'[j].at \in {"remove", "removeSidecar"} => job'[j].at = job[j].at
      BY <1>2, <1>4
    <2> QED  BY <1>1, <2>1, <2>2, <2>3, JobFacts DEF IndInv, FateInv
  <1>11. MarksAreHeld'
    <2> SUFFICES ASSUME NEW d \in marks'
                 PROVE  \E a \in Artifacts :
                          /\ Dedups(a)' /\ Dest[a] = d
                          /\ \/ caller[a] \notin {"idle", "returned"}
                             \/ <<a, "sent">> \in Unsettled'
      BY <1>1 DEF MarksAreHeld
    <2>1. PICK a \in Artifacts : /\ Dedups(a) /\ Dest[a] = d
                                 /\ \/ caller[a] \notin {"idle", "returned"}
                                    \/ <<a, "sent">> \in Unsettled
      BY <1>1 DEF IndInv, MarksAreHeld
    <2>2. Dedups(a)'
      BY <1>1, <2>1 DEF Dedups
    <2>3. <<a, "sent">> \notin A
      BY <1>1, <2>1
    <2>4. <<a, "sent">> \in Unsettled => <<a, "sent">> \in Unsettled'
      BY <1>3, <1>4, <2>3, JobFacts DEF Unsettled
    <2> QED  BY <2>1, <2>2, <2>4
  <1>12. Drops
    <2>1. \A a \in Artifacts : told'[a] # told[a] => told[a] = "waiting" /\ told'[a] = "closed"
      BY <1>1
    <2> QED  BY <1>1, <2>1 DEF Drops, Taken
  <1>13. FreshInv'
    BY <1>2, <1>4 DEF IndInv, FreshInv, Undispatched
  <1> QED  BY <1>5, <1>6, <1>7, <1>8, <1>9, <1>10, <1>11, <1>12, <1>13 DEF Keeps, IndInv

(* A queue with nothing in it. *)
LEMMA EmptyFacts ==
    /\ AtLeast(0, {}) /\ IsFiniteSet({}) /\ Cardinality({}) = 0
    /\ NoJob \in JobType /\ NoJob.at = "none" /\ NoJob.opened = "none" /\ NoJob.result = "none"
    /\ NoJob.bytes = 0
    /\ << >> \in Seq(Jobs) /\ Len(<< >>) = 0
  <1>1. IsFiniteSet({}) /\ Cardinality({}) = 0
    BY FS_EmptySet
  <1>2. 0 \in 0 .. MaxAttempts /\ FALSE \in BOOLEAN
    BY UploadAssumption
  <1>3. NoJob \in JobType
    BY <1>2 DEF NoJob, JobType, Files
  <1>4. NoJob.at = "none" /\ NoJob.opened = "none" /\ NoJob.result = "none" /\ NoJob.bytes = 0
    BY DEF NoJob
  <1> HIDE DEF NoJob
  <1> QED  BY <1>1, <1>3, <1>4 DEF AtLeast

(* A crash leaves the disk: what the power tears is given up. *)
LEMMA CrashStep ==
    ASSUME IndInv, Crash
    PROVE  Keeps
  <1>1. PICK lost \in SUBSET {a \in Artifacts : "power" \in Events /\ temp[a] = "whole"},
             unnamed \in SUBSET {a \in sidecar : "power" \in Events} :
          /\ temp' = [a \in Artifacts |-> IF a \in lost THEN "torn" ELSE temp[a]]
          /\ sidecar' = sidecar \ unnamed
          /\ abandoned' = abandoned \cup lost \cup unnamed
    BY DEF Crash
  <1>2. /\ caller' = [a \in Artifacts |-> IF caller[a] = "idle" THEN "idle" ELSE "returned"]
        /\ told' = [a \in Artifacts |-> IF told[a] = "waiting" THEN "closed" ELSE told[a]]
        /\ job' = [j \in Jobs |-> NoJob]
        /\ inline' = {} /\ channel' = << >> /\ slots' = {} /\ worker' = "down"
        /\ failures' = 0 /\ drain' = "none"
        /\ pending' = 0 /\ pendingBytes' = 0 /\ inflight' = 0
        /\ marks' = {} /\ reconcile' = "fresh" /\ recovery' = "none" /\ todo' = {}
        /\ verified' = {}
        /\ crashes' = crashes + 1 /\ crashes < MaxCrashes
        /\ UNCHANGED <<kind, old, cloud>>
    BY DEF Crash
  <1>3. /\ temp' \in [Artifacts -> Files] /\ abandoned \subseteq abandoned'
        /\ abandoned' \subseteq Artifacts /\ sidecar' \subseteq Artifacts
        /\ sidecar' \subseteq sidecar
        /\ \A a \in Artifacts : /\ a \notin lost => temp'[a] = temp[a]
                                /\ a \in lost => a \in abandoned' /\ temp[a] = "whole"
                                /\ a \in sidecar \ sidecar' => a \in abandoned'
    BY <1>1, CallTypes DEF Files, IndInv, TypeOK
  <1>4. \A a \in Artifacts : /\ caller'[a] = IF caller[a] = "idle" THEN "idle" ELSE "returned"
                             /\ told'[a] = IF told[a] = "waiting" THEN "closed" ELSE told[a]
    BY <1>2
  <1>5. /\ job' \in [Jobs -> JobType]
        /\ \A j \in Jobs : job'[j].at = "none" /\ job'[j].opened = "none" /\ job'[j].result = "none"
                            /\ job'[j].bytes = 0
    BY <1>2, EmptyFacts
  <1>6. TypeOK'
    <2>1. draining' \in BOOLEAN
      BY DEF Crash
    <2>2. told' \in ToldType
      BY <1>2 DEF IndInv, TypeOK
    <2>3. caller' \in CallerType
      BY <1>2 DEF IndInv, TypeOK
    <2>4. /\ channel' \in Seq(Jobs) /\ Len(channel') <= Capacity /\ failures' \in 0 .. Threshold
          /\ crashes' \in 0 .. MaxCrashes /\ slots' \subseteq Jobs
          /\ Cardinality(slots') <= MaxConcurrent
          /\ pending' \in Nat /\ pendingBytes' \in Nat /\ inflight' \in Nat
      BY <1>2, EmptyFacts, UploadAssumption DEF IndInv, TypeOK
    <2> QED  BY <1>2, <1>3, <1>5, <2>1, <2>2, <2>3, <2>4 DEF IndInv, TypeOK, JobType
  <1>7. SlotsInv' /\ ChannelInv' /\ MarksAreHeld'
    BY <1>2, EmptyFacts DEF SlotsInv, ChannelInv, MarksAreHeld
  <1>8. CountsInv'
    <2>1. Sending' = {}
      BY <1>4 DEF Sending
    <2>2. Owed' = {} /\ Flying' = {} /\ Weighed' = {}
      BY <1>5, <2>1 DEF Owed, Flying, Weighed, Undispatched, UnderWay
    <2>3. pending' - inflight' = 0
      BY <1>2
    <2> QED  BY <1>2, <2>2, <2>3, EmptyFacts DEF CountsInv
  <1>9. LifeInv'
    <2> SUFFICES ASSUME NEW a \in Artifacts PROVE LifeOf(a)'
      BY DEF LifeInv
    <2>1. LifeOf(a) /\ <<a, "sent">> \in Jobs /\ <<a, "recovered">> \in Jobs
      BY CallTypes DEF Fine
    <2> QED  BY <1>2, <1>3, <1>4, <1>5, <2>1 DEF LifeOf
  <1>10. WholeInv'
    <2>1. Unsettled' = {}
      BY <1>5 DEF Unsettled, Waiting, Finishing
    <2>2. \A a \in Artifacts : temp'[a] = "torn" => caller'[a] = "returned"
      <3> SUFFICES ASSUME NEW a \in Artifacts, temp'[a] = "torn", caller[a] = "idle" PROVE FALSE
        BY <1>4
      <3> QED  BY <1>3, CallTypes DEF Fine, LifeOf
    <2> QED  BY <1>2, <1>5, <2>1, <2>2 DEF IndInv, WholeInv, WholeOf, CloudIsWhole
  <1>11. FateInv'
    <2>1. \A a \in Artifacts : told'[a] = "uploaded" => cloud'[a] # "none"
      BY <1>2, <1>4 DEF IndInv, FateInv
    <2>2. \A a \in Artifacts : PairOf(a)'
      <3> SUFFICES ASSUME NEW a \in Artifacts, kind[a] = "durable", ~Disposed(a)', told'[a] = "enqueued"
                   PROVE  temp'[a] = "whole" /\ a \in sidecar'
        BY <1>2, <1>4 DEF PairOf
      <3>1. a \notin lost /\ ~Disposed(a) /\ told[a] = "enqueued" /\ PairOf(a)
        BY <1>2, <1>3, <1>4, CallTypes DEF Disposed, Fine
      <3>2. temp[a] = "whole" /\ a \in sidecar
        BY <1>2, <3>1 DEF PairOf
      <3>3. a \notin abandoned'
        BY DEF Disposed
      <3> QED  BY <1>3, <3>1, <3>2, <3>3
    <2> QED  BY <1>5, <2>1, <2>2 DEF FateInv
  <1>12. Drops /\ FreshInv'
    BY <1>2, <1>3, <1>4, <1>5 DEF Drops, Taken, FreshInv
  <1> QED  BY <1>6, <1>7, <1>8, <1>9, <1>10, <1>11, <1>12 DEF Keeps, IndInv

-----------------------------------------------------------------------------
(* Initially nothing is there. *)
LEMMA InitInv ==
    Init => IndInv
  <1> SUFFICES ASSUME Init PROVE IndInv
    OBVIOUS
  <1>1. /\ job \in [Jobs -> JobType]
        /\ \A j \in Jobs : job[j].at = "none" /\ job[j].opened = "none" /\ job[j].result = "none"
                            /\ job[j].bytes = 0
    BY EmptyFacts DEF Init
  <1>2. TypeOK
    <2>1. draining \in BOOLEAN
      BY DEF Init
    <2>2. /\ channel \in Seq(Jobs) /\ Len(channel) <= Capacity /\ failures \in 0 .. Threshold
          /\ crashes \in 0 .. MaxCrashes /\ slots \subseteq Jobs
          /\ Cardinality(slots) <= MaxConcurrent
          /\ pending \in Nat /\ pendingBytes \in Nat /\ inflight \in Nat
      BY EmptyFacts, UploadAssumption DEF Init
    <2> QED  BY <1>1, <2>1, <2>2 DEF Init, TypeOK, JobType, Files
  <1>3. SlotsInv /\ ChannelInv /\ MarksAreHeld
    BY EmptyFacts DEF Init, SlotsInv, ChannelInv, MarksAreHeld
  <1>4. CountsInv
    <2>1. Sending = {}
      BY DEF Init, Sending
    <2>2. Owed = {} /\ Flying = {} /\ Weighed = {} /\ pending - inflight = 0
      BY <1>1, <2>1 DEF Owed, Flying, Weighed, Undispatched, UnderWay, Init
    <2> QED  BY <2>2, EmptyFacts DEF CountsInv, Init
  <1>5. LifeInv
    BY <1>1, JobFacts DEF Init, LifeInv, LifeOf
  <1>6. WholeInv /\ FateInv /\ FreshInv
    BY <1>1 DEF Init, FreshInv, WholeInv, WholeOf, CloudIsWhole, FateInv, PairOf
  <1> QED  BY <1>2, <1>3, <1>4, <1>5, <1>6 DEF IndInv

(* Every step keeps the invariant and is one that DurableUpload allows. *)
LEMMA NextStep ==
    IndInv /\ [Next]_vars => IndInv' /\ (Accepts \/ Drops \/ Stores)
  <1> SUFFICES ASSUME IndInv, [Next]_vars PROVE Keeps
    BY DEF Keeps
  <1>1. ASSUME NEW a \in Artifacts, Call(a) \/ InlineUpload(a) \/ Age(a)
        PROVE  Keeps
    BY <1>1, BeginStep, WriteTempStep, WriteFailsStep, CheckBudgetStep, WriteSidecarStep,
       CountStep,
       SendStep, SendFailsStep, InlineUploadStep, AgeStep DEF Call
  <1>2. CASE Loop \/ Drain \/ DrainTimesOut
    BY <1>2, WorkerStep, RecvStep, DispatchStep, DrainTimesOutStep DEF Loop
  <1>3. ASSUME NEW j \in Jobs, Task(j) \/ AgeRecovered(j)
        PROVE  Keeps
    BY <1>3, StartStep, AttemptStep, UploadedStep, TerminalStep, RetryableStep, AuthRetryStep,
       ParkStep,
       WakeStep, ParkEndsStep, ReacquireStep, RemoveTempStep, RemoveSidecarStep,
       SettleInflightStep,
       SettlePendingStep, AgeRecoveredStep DEF Task, Answer
  <1>4. CASE Recover \/ Purge \/ Crash \/ Restart
    BY <1>4, SweepStep, RecoverScanStep, RecoverCheckStep, ReenqueueStep, CrashStep DEF Recover
  <1>5. CASE UNCHANGED vars
    <2>1. UNCHANGED <<temp, sidecar, old, cloud, kind, caller, told, inline, job, slots,
                      channel, worker,
                      failures, drain, draining, pending, pendingBytes, inflight, marks,
                      reconcile,
                      recovery, todo, verified, abandoned, crashes>>
      BY <1>5 DEF vars, disk, callers, loop, stats, scan
    <2>2. Tidies
      BY <2>1 DEF Tidies, callers, stats, IndInv, TypeOK
    <2>3. LifeInv'
      BY <2>1 DEF IndInv, LifeInv, LifeOf
    <2>4. \A a \in Artifacts : PairOf(a)'
      BY <2>1, <2>2, TidyPair
    <2> QED  BY <2>2, <2>3, <2>4, TidiesFacts
  <1> QED  BY <1>1, <1>2, <1>3, <1>4, <1>5 DEF Next

(* The invariant holds in every execution. *)
LEMMA Invariance ==
    Spec => []IndInv
  <1>1. IndInv /\ [Next]_vars => IndInv'
    BY NextStep
  <1> QED  BY <1>1, InitInv, PTL DEF Spec

-----------------------------------------------------------------------------
(* In every execution every part of the queue has its type, no more than MaxConcurrent jobs   *)
(* hold a permit of the semaphore (dispatch_item, ConcurrencyPermit::reacquire), and the      *)
(* channel stays within its capacity.                                                         *)
THEOREM TypeCorrect ==
    Spec => []TypeOK
  <1>1. IndInv => TypeOK
    BY DEF IndInv
  <1> QED  BY <1>1, Invariance, PTL

(* In every execution the object store holds whole artifacts only: no attempt of process_item *)
(* and no inline upload opens a file that is half written or that a crash has torn.           *)
THEOREM StoredWhole ==
    Spec => []CloudIsWhole
  <1>1. IndInv => CloudIsWhole
    BY DEF IndInv, WholeInv
  <1> QED  BY <1>1, Invariance, PTL

(* In every execution a pending count of zero, which wait_idle waits for, means that every    *)
(* item the queue has taken is settled, whatever has been aborted, parked or recovered.       *)
THEOREM IdleSettled ==
    Spec => []IdleMeansSettled
  <1>1. IndInv => IdleMeansSettled
    <2> SUFFICES ASSUME IndInv, pending = 0, NEW j \in Jobs
                 PROVE  job[j].at \notin Waiting \cup Finishing
      BY DEF IdleMeansSettled
    <2>1. pending - inflight \in Nat /\ inflight \in Nat
      BY GaugeTypes DEF AtLeast
    <2>2. inflight = 0 /\ pending - inflight = 0
      BY <2>1
    <2>3. Owed = {} /\ Flying = {}
      BY <2>2, GaugeTypes, CountFacts
    <2> QED  BY <2>3 DEF Owed, Flying, Undispatched, UnderWay, Waiting, Finishing
  <1> QED  BY <1>1, Invariance, PTL

(* In every execution the gauges of UploadQueueStats show no more uploads under way than      *)
(* items pending, and settle_pending never takes pending_bytes below what is left to take:    *)
(* the unsigned counters cannot wrap.                                                         *)
THEOREM GaugesSound ==
    Spec => []GaugesHold
  <1>1. IndInv => GaugesHold
    <2> SUFFICES ASSUME IndInv PROVE GaugesHold
      OBVIOUS
    <2>1. inflight <= pending
      BY GaugeTypes DEF AtLeast
    <2> DEFINE W == {j \in Unsettled : job[j].bytes = 1}
    <2>2. W \subseteq Weighed
      BY DEF IndInv, FreshInv, Unsettled, Weighed, Undispatched, UnderWay, Waiting, Finishing
    <2>3. AtLeast(pendingBytes, W)
      BY <2>2, GaugeTypes, CountFacts
    <2>4. Cardinality(W) \in Nat /\ Cardinality(W) <= pendingBytes /\ pendingBytes \in Nat
      BY <2>3, FS_CardinalityType DEF AtLeast
    <2> QED  BY <2>1, <2>4 DEF GaugesHold
  <1> QED  BY <1>1, Invariance, PTL

(* In every execution a destination in uploads_in_flight is held by a call under way or by an *)
(* item that is not settled: no mark is left behind to swallow later uploads.                 *)
THEOREM MarksHeld ==
    Spec => []MarksAreHeld
  <1>1. IndInv => MarksAreHeld
    BY DEF IndInv
  <1> QED  BY <1>1, Invariance, PTL

-----------------------------------------------------------------------------
(* The fate of an artifact in a queue that keeps its promise. *)
Outcome(a) ==
    IF cloud[a] # "none" THEN "stored"
    ELSE IF a \in abandoned THEN "dropped" ELSE IF Taken(a) THEN "accepted" ELSE "open"

FatesHold == \A a \in Artifacts : Fate(a) = Outcome(a)

(* It is what has become of it in every state that satisfies the invariant. *)
LEMMA FateFacts == IndInv => FatesHold
  BY DEF IndInv, FateInv, PairOf, Disposed, Fate, Taken, FatesHold, Outcome

(* A step of the queue is a step of DurableUpload. *)
LEMMA PromiseStep ==
    ASSUME FatesHold, FatesHold', Accepts \/ Drops \/ Stores
    PROVE  Promise!Next
  <1> DEFINE f == [a \in Artifacts |-> Fate(a)]
             Becomes(S, t) == f' = [a \in Artifacts |-> IF a \in S THEN t ELSE f[a]]
  <1>1. \A a \in Artifacts : f[a] = Outcome(a) /\ f'[a] = Outcome(a)'
    BY DEF FatesHold
  <1>2. f' = [a \in Artifacts |-> f'[a]]
    OBVIOUS
  <1>3. ASSUME Accepts
        PROVE  \E S \in SUBSET {a \in Artifacts : f[a] \in {"open"}} : Becomes(S, "accepted")
    <2> DEFINE S == {a \in Artifacts : f[a] = "open" /\ f'[a] = "accepted"}
    <2>1. \A a \in Artifacts : f'[a] = IF a \in S THEN "accepted" ELSE f[a]
      BY <1>1, <1>3 DEF Accepts, Outcome
    <2>2. S \in SUBSET {a \in Artifacts : f[a] \in {"open"}}
      OBVIOUS
    <2> HIDE DEF S, f
    <2>3. Becomes(S, "accepted")
      BY <1>2, <2>1
    <2> QED  BY <2>2, <2>3
  <1>4. ASSUME Drops
        PROVE  \E S \in SUBSET {a \in Artifacts : f[a] \in {"open", "accepted"}} : Becomes(S, "dropped")
    <2> DEFINE S == {a \in Artifacts : f[a] \in {"open", "accepted"} /\ f'[a] = "dropped"}
    <2>1. \A a \in Artifacts : f'[a] = IF a \in S THEN "dropped" ELSE f[a]
      BY <1>1, <1>4 DEF Drops, Outcome
    <2>2. S \in SUBSET {a \in Artifacts : f[a] \in {"open", "accepted"}}
      OBVIOUS
    <2> HIDE DEF S, f
    <2>3. Becomes(S, "dropped")
      BY <1>2, <2>1
    <2> QED  BY <2>2, <2>3
  <1>5. ASSUME Stores
        PROVE  \E S \in SUBSET {a \in Artifacts : f[a] \in {"open", "accepted", "dropped"}} :
                 Becomes(S, "stored")
    <2> DEFINE S == {a \in Artifacts : f[a] \in {"open", "accepted", "dropped"} /\ f'[a] = "stored"}
    <2>1. \A a \in Artifacts : f'[a] = IF a \in S THEN "stored" ELSE f[a]
      BY <1>1, <1>5 DEF Stores, Outcome
    <2>2. S \in SUBSET {a \in Artifacts : f[a] \in {"open", "accepted", "dropped"}}
      OBVIOUS
    <2> HIDE DEF S, f
    <2>3. Becomes(S, "stored")
      BY <1>2, <2>1
    <2> QED  BY <2>2, <2>3
  <1> QED  BY <1>3, <1>4, <1>5
           DEF Promise!Next, Promise!Accept, Promise!Drop, Promise!Store, Promise!In, Promise!Becomes

(* Initially nothing is promised. *)
LEMMA PromiseInit == Init => Promise!Init
  BY DEF Init, Promise!Init, Fate

(***************************************************************************)
(* The queue implements DurableUpload, for any artifacts and any number of *)
(* crashes: no crash, abort, restart, purge or second life of a pair makes *)
(* an artifact vanish once enqueue_bytes_blocking has answered Enqueued,   *)
(* and no waiter is told of an upload that was none.                       *)
(***************************************************************************)
THEOREM QueueKeepsPromise ==
    Spec => KeepsPromise
  <1>1. IndInv /\ [Next]_vars => Accepts \/ Drops \/ Stores
    BY NextStep
  <1>2. FatesHold /\ FatesHold' /\ (Accepts \/ Drops \/ Stores) => Promise!Next
    BY PromiseStep
  <1> QED  BY <1>1, <1>2, Invariance, FateFacts, PromiseInit, PTL
           DEF Spec, KeepsPromise, Promise!Spec

-----------------------------------------------------------------------------
(* The worker's hand, the slots and the waiters. *)

(* The worker holds at most one item, and only where it waits for a slot; what is queued is   *)
(* in the channel, which is empty once the worker has left its loops.                         *)
WorkerInv ==
    /\ \A j \in Jobs : job[j].at = "held" => worker \in {"acquire", "drainAcquire"}
    /\ \A i, j \in Jobs : job[i].at = "held" /\ job[j].at = "held" => i = j
    /\ \A j \in Jobs : job[j].at = "queued" => \E k \in 1 .. Len(channel) : channel[k] = j
    /\ worker \in {"joining", "exited"} => channel = << >>
    /\ DrainLeavesNothing

(* Only enqueue_blocking waits. *)
WaitersInv ==
    /\ \A a \in Artifacts : told[a] = "waiting" => kind[a] = "awaited"
    /\ WaiterIsOwed

HandsInv == SlotsAreUsed /\ WorkerInv /\ WaitersInv

Tasked == (Waiting \ Untasked) \cup Finishing

(* Of all jobs only j moves, to p. *)
AtMoves(j, p) == \A k \in Jobs : job'[k].at = IF k = j THEN p ELSE job[k].at

(* A task takes the job j to p: its slot is one that it needs, and a waiter whose job is      *)
(* settled has its answer.                                                                    *)
Serves(j, p) ==
    /\ job[j].at \in Tasked /\ p \in Tasked \cup {"settled"}
    /\ AtMoves(j, p)
    /\ UNCHANGED <<channel, worker, kind, inline>>
    /\ \A k \in Jobs \ {j} : k \in slots' <=> k \in slots
    /\ slots' \subseteq Jobs
    /\ p \in Slotted => j \in slots'
    /\ j \in slots' => p \in Slotted \cup Finishing
    /\ \A a \in Artifacts : told'[a] = "waiting" =>
         told[a] = "waiting" /\ ~(p = "settled" /\ j = <<a, "sent">>)

(* Such a step keeps what is said of the worker's hand, the slots and the waiters. *)
LEMMA ServesFacts ==
    ASSUME IndInv, HandsInv, NEW j \in Jobs, NEW p, Serves(j, p)
    PROVE  HandsInv'
  <1>1. /\ job[j].at \in Tasked /\ p \in Tasked \cup {"settled"}
        /\ job'[j].at = p /\ \A k \in Jobs \ {j} : job'[k].at = job[k].at
    BY DEF Serves, AtMoves
  <1>2. SlotsAreUsed'
    <2>1. ASSUME NEW k \in Jobs, job'[k].at \in Slotted
          PROVE  k \in slots'
      BY <1>1, <2>1 DEF Serves, HandsInv, SlotsAreUsed
    <2>2. ASSUME NEW k \in slots'
          PROVE  k \in Jobs /\ job'[k].at \in Slotted \cup Finishing
      BY <1>1, <2>2 DEF Serves, HandsInv, SlotsAreUsed
    <2> QED  BY <2>1, <2>2 DEF SlotsAreUsed
  <1>3. WorkerInv'
    <2>1. \A k \in Jobs : job'[k].at \in {"queued", "held"} => job[k].at = job'[k].at
      BY <1>1 DEF Tasked, Waiting, Untasked, Finishing
    <2>2. worker # "exited"
      BY <1>1 DEF HandsInv, WorkerInv, DrainLeavesNothing, Unsettled, Tasked
    <2>3. channel' = channel /\ worker' = worker
      BY DEF Serves
    <2> QED  BY <2>1, <2>2, <2>3 DEF HandsInv, WorkerInv, DrainLeavesNothing
  <1>4. WaitersInv'
    <2>1. kind' = kind /\ inline' = inline
      BY DEF Serves
    <2>2. ASSUME NEW a \in Artifacts, told'[a] = "waiting"
          PROVE  kind[a] = "awaited" /\ (a \in inline \/ <<a, "sent">> \in Unsettled')
      <3>1. told[a] = "waiting" /\ ~(p = "settled" /\ j = <<a, "sent">>) /\ <<a, "sent">> \in Jobs
        BY <2>2, JobFacts DEF Serves
      <3>2. kind[a] = "awaited" /\ (a \in inline \/ <<a, "sent">> \in Unsettled)
        BY <3>1 DEF HandsInv, WaitersInv, WaiterIsOwed
      <3> QED  BY <1>1, <3>1, <3>2 DEF Unsettled, Tasked
    <2> QED  BY <2>1, <2>2 DEF WaitersInv, WaiterIsOwed
  <1> QED  BY <1>2, <1>3, <1>4 DEF HandsInv

(* Every step of a task serves. *)
LEMMA TaskHands ==
    ASSUME IndInv, HandsInv, NEW j \in Jobs, Task(j)
    PROVE  HandsInv'
  <1>0. /\ job \in [Jobs -> JobType] /\ slots \subseteq Jobs /\ Artifact(j) \in Artifacts
        /\ told \in ToldType
    BY TaskTypes DEF IndInv, TypeOK
  <1>1. /\ job[j].at \in Slotted => j \in slots
        /\ j \in slots => job[j].at \in Slotted \cup Finishing
    BY DEF HandsInv, SlotsAreUsed
  <1> SUFFICES \E p : Serves(j, p)
    BY ServesFacts
  <1>2. CASE Start(j)
    <2>1. AtMoves(j, "remove") \/ AtMoves(j, "attempt")
      <3>1. CASE Expired(j)
        BY <1>0, <1>2, <3>1 DEF Start, Ended, NoJob, AtMoves, JobType
      <3>2. CASE ~Expired(j)
        BY <1>0, <1>2, <3>2 DEF Start, AtMoves, JobType
      <3> QED  BY <3>1, <3>2
    <2> QED  BY <1>0, <1>1, <1>2, <2>1 DEF Start, Serves, Tasked, Waiting, Untasked, Finishing,
                                        Slotted, callers, loop
  <1>3. CASE Attempt(j)
    <2>1. AtMoves(j, "wire")
      BY <1>0, <1>3 DEF Attempt, AtMoves, JobType
    <2> QED  BY <1>0, <1>1, <1>3, <2>1 DEF Attempt, Serves, Tasked, Waiting, Untasked, Finishing,
                                        Slotted, callers, loop
  <1>4. CASE Uploaded(j)
    <2>1. AtMoves(j, "remove")
      BY <1>0, <1>4 DEF Uploaded, Ended, NoJob, AtMoves, JobType
    <2> QED  BY <1>0, <1>1, <1>4, <2>1 DEF Uploaded, Serves, Tasked, Waiting, Untasked, Finishing,
                                        Slotted, callers, unpaused
  <1>5. CASE Terminal(j)
    <2>1. AtMoves(j, "remove")
      BY <1>0, <1>5 DEF Terminal, Abandon, Ended, NoJob, AtMoves, JobType
    <2> QED  BY <1>0, <1>1, <1>5, <2>1 DEF Terminal, Serves, Tasked, Waiting, Untasked, Finishing,
                                        Slotted, callers, loop
  <1>6. CASE Retryable(j)
    <2>1. AtMoves(j, "remove") \/ AtMoves(j, "attempt")
      BY <1>0, <1>6 DEF Retryable, GiveUp, Abandon, Ended, NoJob, AtMoves, JobType
    <2> QED  BY <1>0, <1>1, <1>6, <2>1 DEF Retryable, Serves, Tasked, Waiting, Untasked, Finishing,
                                        Slotted, callers, unpaused
  <1>7. CASE AuthRetry(j)
    <2>1. AtMoves(j, "attempt")
      BY <1>0, <1>7 DEF AuthRetry, AtMoves, JobType
    <2> QED  BY <1>0, <1>1, <1>7, <2>1 DEF AuthRetry, Serves, Tasked, Waiting, Untasked, Finishing,
                                        Slotted, callers, loop
  <1>8. CASE Park(j)
    <2>1. AtMoves(j, "remove") \/ AtMoves(j, "parked")
      <3>1. CASE GiveUp(j)
        BY <1>0, <3>1 DEF GiveUp, Abandon, Ended, NoJob, AtMoves, JobType
      <3>2. CASE job' = [job EXCEPT ![j].at = "parked", ![j].opened = "none"]
        BY <1>0, <3>2 DEF AtMoves, JobType
      <3> QED  BY <1>8, <3>1, <3>2 DEF Park
    <2>2. \A a \in Artifacts : told'[a] = "waiting" => told[a] = "waiting"
      BY <1>0, <1>8 DEF Park, Notified
    <2>3. slots' = slots \ {j} /\ UNCHANGED <<channel, worker, kind, inline>>
      BY <1>8 DEF Park, Released, unpaused
    <2> QED  BY <1>0, <1>8, <2>1, <2>2, <2>3
             DEF Park, Serves, Tasked, Waiting, Untasked, Finishing, Slotted
  <1>9. CASE Wake(j)
    <2>1. AtMoves(j, "reacquire")
      BY <1>0, <1>9 DEF Wake, AtMoves, JobType
    <2> QED  BY <1>0, <1>1, <1>9, <2>1 DEF Wake, Serves, Tasked, Waiting, Untasked, Finishing,
                                        Slotted, callers, loop
  <1>10. CASE ParkEnds(j) \/ CredentialGone(j)
    <2>1. AtMoves(j, "remove")
      BY <1>0, <1>10 DEF ParkEnds, CredentialGone, GiveUp, Abandon, Ended, NoJob, AtMoves, JobType
    <2> QED  BY <1>0, <1>1, <1>10, <2>1
             DEF ParkEnds, CredentialGone, Serves, Tasked, Waiting, Untasked, Finishing, Slotted,
                 callers, unpaused
  <1>11. CASE Reacquire(j)
    <2>1. AtMoves(j, "attempt")
      BY <1>0, <1>11 DEF Reacquire, AtMoves, JobType
    <2> QED  BY <1>0, <1>1, <1>11, <2>1 DEF Reacquire, Serves, Tasked, Waiting, Untasked, Finishing,
                                         Slotted, callers, loop
  <1>12. CASE RemoveTemp(j)
    <2>1. AtMoves(j, "removeSidecar")
      BY <1>0, <1>12 DEF RemoveTemp, AtMoves, JobType
    <2> QED  BY <1>0, <1>1, <1>12, <2>1 DEF RemoveTemp, Serves, Tasked, Waiting, Untasked, Finishing,
                                         Slotted, callers, loop
  <1>13. CASE RemoveSidecar(j)
    <2>1. AtMoves(j, "settle")
      BY <1>0, <1>13 DEF RemoveSidecar, AtMoves, JobType
    <2>2. \A a \in Artifacts : told'[a] = "waiting" => told[a] = "waiting"
      <3>1. told' \in {told, Notified(j, "uploaded"), Notified(j, "error")}
        BY <1>13 DEF RemoveSidecar
      <3> QED  BY <1>0, <3>1 DEF Notified
    <2>3. UNCHANGED <<slots, channel, worker, kind, inline>>
      BY <1>13 DEF RemoveSidecar, loop
    <2> QED  BY <1>0, <1>1, <1>13, <2>1, <2>2, <2>3
             DEF RemoveSidecar, Serves, Tasked, Waiting, Untasked, Finishing, Slotted
  <1>14. CASE SettleInflight(j)
    <2>1. AtMoves(j, "settlePending")
      BY <1>0, <1>14 DEF SettleInflight, AtMoves, JobType
    <2> QED  BY <1>0, <1>1, <1>14, <2>1 DEF SettleInflight, Serves, Tasked, Waiting, Untasked,
                                         Finishing, Slotted, callers, loop
  <1>15. CASE SettlePending(j)
    <2>1. AtMoves(j, "settled")
      BY <1>0, <1>15 DEF SettlePending, NoJob, AtMoves, JobType
    <2>2. \A a \in Artifacts : told'[a] = "waiting" => told[a] = "waiting" /\ j # <<a, "sent">>
      <3>1. told' = Notified(j, "error")
        BY <1>15 DEF SettlePending
      <3> QED  BY <1>0, <3>1, JobFacts DEF Notified
    <2>3. UNCHANGED <<channel, worker, kind, inline>> /\ slots' = slots \ {j}
      BY <1>15 DEF SettlePending, loop
    <2> QED  BY <1>0, <1>15, <2>1, <2>2, <2>3
             DEF SettlePending, Serves, Tasked, Waiting, Untasked, Finishing, Slotted
  <1> QED  BY <1>2, <1>3, <1>4, <1>5, <1>6, <1>7, <1>8, <1>9, <1>10, <1>11, <1>12, <1>13, <1>14,
              <1>15 DEF Task, Answer

(* What the worker does without touching a job: it holds nothing where it goes on, and joins  *)
(* its tasks only when the channel is empty.                                                  *)
LEMMA LoopHands ==
    ASSUME IndInv, HandsInv,
           LoopTop \/ CooldownEnds \/ SeeShutdown \/ Drained \/ DropHandles \/ ChannelEnds
           \/ Join \/ Drain
    PROVE  HandsInv'
  <1>1. UNCHANGED <<kind, told, inline, job, slots, channel>>
    BY DEF LoopTop, CooldownEnds, SeeShutdown, Drained, DropHandles, ChannelEnds, Join, Drain, disk, callers
  <1>2. /\ worker' \in {"acquire", "drainAcquire"} \/ worker \notin {"acquire", "drainAcquire"}
        /\ worker' \in {"joining", "exited"} => worker' = worker \/ worker = "joining" \/ channel = << >>
    BY DEF LoopTop, CooldownEnds, SeeShutdown, Drained, DropHandles, ChannelEnds, Join, Drain
  <1>3. worker' = "exited" => worker = "exited" \/ Join
    BY DEF LoopTop, CooldownEnds, SeeShutdown, Drained, DropHandles, ChannelEnds, Drain
  <1>4. Unsettled' = Unsettled
    BY <1>1 DEF Unsettled
  <1>5. WorkerInv'
    <2>1. worker' = "exited" => Unsettled = {}
      <3>1. CASE worker = "exited"
        BY <3>1 DEF HandsInv, WorkerInv, DrainLeavesNothing
      <3>2. CASE Join
        <4>1. ASSUME NEW j \in Jobs
              PROVE  job[j].at \notin Waiting \cup Finishing
          <5>1. job[j].at # "held" /\ channel = << >>
            BY <3>2 DEF Join, HandsInv, WorkerInv
          <5>2. job[j].at # "queued"
            BY <5>1 DEF HandsInv, WorkerInv
          <5> QED  BY <3>2, <5>1, <5>2 DEF Join, Untasked
        <4> QED  BY <4>1 DEF Unsettled
      <3> QED  BY <1>3, <3>1, <3>2
    <2>2. worker' \in {"joining", "exited"} => channel = << >>
      BY <1>2 DEF HandsInv, WorkerInv
    <2> QED  BY <1>1, <1>2, <1>4, <2>1, <2>2 DEF HandsInv, WorkerInv, DrainLeavesNothing
  <1>6. SlotsAreUsed' /\ WaitersInv'
    BY <1>1, <1>4 DEF HandsInv, SlotsAreUsed, WaitersInv, WaiterIsOwed
  <1> QED  BY <1>5, <1>6 DEF HandsInv

(* An item that changes hands: from the channel to the worker, from the worker to its task. *)
LEMMA RecvHands ==
    ASSUME IndInv, HandsInv, Recv
    PROVE  HandsInv'
  <1> DEFINE h == Head(channel)
             n == Len(channel)
  <1>1. /\ channel \in Seq(Jobs) /\ channel # << >> /\ job \in [Jobs -> JobType]
        /\ \A k \in 1 .. Len(channel) : job[channel[k]].at = "queued"
    BY DEF IndInv, TypeOK, JobType, Recv, ChannelInv
  <1>2. /\ h \in Jobs /\ job[h].at = "queued" /\ n \in Nat \ {0} /\ h = channel[1]
        /\ Len(Tail(channel)) = n - 1
        /\ \A k \in 1 .. (n - 1) : Tail(channel)[k] = channel[k + 1]
    BY <1>1
  <1> HIDE DEF h, n
  <1>3. AtMoves(h, "held")
    BY <1>1, <1>2 DEF Recv, AtMoves, JobType, h
  <1>4. /\ channel' = Tail(channel) /\ worker \in {"select", "drain"}
        /\ worker' \in {"acquire", "drainAcquire"} /\ UNCHANGED <<kind, told, inline, slots>>
    BY DEF Recv, callers
  <1>5. /\ job'[h].at = "held" /\ \A k \in Jobs \ {h} : job'[k].at = job[k].at
        /\ \A k \in Jobs : job[k].at # "held"
    BY <1>2, <1>3, <1>4 DEF AtMoves, HandsInv, WorkerInv
  <1>6. Unsettled' = Unsettled
    BY <1>2, <1>5 DEF Unsettled, Waiting
  <1>7. ASSUME NEW j \in Jobs, job'[j].at = "queued"
        PROVE  \E k \in 1 .. Len(channel') : channel'[k] = j
    <2>1. j # h /\ job[j].at = "queued"
      BY <1>5, <1>7
    <2>2. PICK k \in 1 .. Len(channel) : channel[k] = j
      BY <2>1 DEF HandsInv, WorkerInv
    <2>3. k - 1 \in 1 .. (n - 1) /\ (k - 1) + 1 = k
      BY <1>2, <2>1, <2>2 DEF n
    <2>4. Tail(channel)[k - 1] = j
      BY <1>2, <2>2, <2>3
    <2> QED  BY <1>2, <1>4, <2>3, <2>4
  <1>8. WorkerInv'
    BY <1>4, <1>5, <1>7 DEF WorkerInv, DrainLeavesNothing
  <1>9. SlotsAreUsed' /\ WaitersInv'
    BY <1>2, <1>4, <1>5, <1>6 DEF HandsInv, SlotsAreUsed, WaitersInv, WaiterIsOwed, Slotted, Finishing
  <1> QED  BY <1>8, <1>9 DEF HandsInv

(* dispatch_item spawns the task of the item in the worker's hand, with the slot it waited for. *)
LEMMA DispatchHands ==
    ASSUME IndInv, HandsInv, NEW j \in Jobs, Dispatch(j)
    PROVE  HandsInv'
  <1>1. job \in [Jobs -> JobType]
    BY DEF IndInv, TypeOK, JobType
  <1>2. /\ job[j].at = "held" /\ worker \in {"acquire", "drainAcquire"}
        /\ worker' \in {"top", "drain"} /\ slots' = slots \cup {j}
        /\ UNCHANGED <<kind, told, inline, channel>>
    BY DEF Dispatch, HandsInv, WorkerInv, callers
  <1>3. job'[j].at = "spawned" /\ \A k \in Jobs \ {j} : job'[k].at = job[k].at
    BY <1>1 DEF Dispatch, JobType
  <1>4. \A k \in Jobs : job'[k].at # "held"
    BY <1>2, <1>3 DEF HandsInv, WorkerInv
  <1>5. Unsettled' = Unsettled
    BY <1>2, <1>3 DEF Unsettled, Waiting
  <1>6. WorkerInv'
    BY <1>2, <1>3, <1>4 DEF HandsInv, WorkerInv, DrainLeavesNothing
  <1>7. SlotsAreUsed'
    BY <1>2, <1>3 DEF HandsInv, SlotsAreUsed, Slotted
  <1>8. WaitersInv'
    BY <1>2, <1>5 DEF HandsInv, WaitersInv, WaiterIsOwed
  <1> QED  BY <1>6, <1>7, <1>8 DEF HandsInv

(* A step that leaves the jobs where they are, and owes no waiter less. *)
LEMMA IdleHands ==
    ASSUME IndInv, HandsInv,
           \A j \in Jobs : job'[j].at = job[j].at,
           UNCHANGED <<slots, channel, worker>>,
           \A a \in Artifacts : told'[a] = "waiting" =>
             \/ kind'[a] = "awaited" /\ a \in inline'
             \/ told[a] = "waiting" /\ kind'[a] = kind[a] /\ (a \in inline => a \in inline')
    PROVE  HandsInv'
  <1>1. Unsettled' = Unsettled
    BY DEF Unsettled
  <1>2. SlotsAreUsed' /\ WorkerInv'
    BY <1>1 DEF HandsInv, SlotsAreUsed, WorkerInv, DrainLeavesNothing
  <1>3. WaitersInv'
    BY <1>1 DEF HandsInv, WaitersInv, WaiterIsOwed
  <1> QED  BY <1>2, <1>3 DEF HandsInv

(* A call, up to its send, and the inline upload that answers its waiter. *)
LEMMA CallHands ==
    ASSUME IndInv, HandsInv, NEW a \in Artifacts,
           \/ \E k \in Calls : Begin(a, k)
           \/ WriteTemp(a) \/ WriteFails(a) \/ CheckBudget(a) \/ WriteSidecar(a)
           \/ Count(a) \/ SendFails(a) \/ InlineUpload(a)
    PROVE  HandsInv'
  <1>0. told \in ToldType /\ kind \in [Artifacts -> Calls \cup {"none"}]
    BY DEF IndInv, TypeOK
  <1> DEFINE Owes == \A b \in Artifacts : told'[b] = "waiting" =>
               \/ kind'[b] = "awaited" /\ b \in inline'
               \/ told[b] = "waiting" /\ kind'[b] = kind[b] /\ (b \in inline => b \in inline')
  <1>1. UNCHANGED <<job, slots, channel, worker>>
    BY DEF Begin, WriteTemp, WriteFails, CheckBudget, WriteSidecar, Count, SendFails, InlineUpload,
           loop
  <1> SUFFICES Owes
    <2>1. \A j \in Jobs : job'[j].at = job[j].at
      BY <1>1
    <2> QED  BY <1>1, <2>1, IdleHands
  <1>2. ASSUME NEW k \in Calls, Begin(a, k)
        PROVE  Owes
    <2>1. told[a] # "waiting"
      BY <1>2 DEF Begin, IndInv, LifeInv, LifeOf
    <2>2. inline' = inline /\ \A b \in Artifacts \ {a} : kind'[b] = kind[b] /\ told'[b] = told[b]
      BY <1>0, <1>2 DEF Begin, Return, CallerTo
    <2>3. told'[a] # "waiting"
      BY <1>0, <1>2, <2>1 DEF Begin, Return, CallerTo
    <2> QED  BY <2>2, <2>3
  <1>3. CASE WriteTemp(a) \/ Count(a)
    BY <1>3 DEF WriteTemp, Count, CallerTo
  <1>4. CASE WriteFails(a)
    BY <1>0, <1>4 DEF WriteFails, Return
  <1>5. CASE CheckBudget(a)
    BY <1>0, <1>5 DEF CheckBudget, Return, CallerTo
  <1>6. CASE WriteSidecar(a)
    BY <1>0, <1>6 DEF WriteSidecar, Return, CallerTo
  <1>7. CASE SendFails(a)
    <2>1. /\ kind' = kind /\ inline \subseteq inline'
          /\ \A b \in Artifacts \ {a} : told'[b] = told[b]
      BY <1>0, <1>7 DEF SendFails, Return
    <2>2. told'[a] = "waiting" => kind[a] = "awaited" /\ a \in inline'
      BY <1>0, <1>7 DEF SendFails, Return
    <2> QED  BY <2>1, <2>2
  <1>8. CASE InlineUpload(a)
    <2>1. kind' = kind /\ inline' = inline \ {a} /\ \A b \in Artifacts \ {a} : told'[b] = told[b]
      BY <1>0, <1>8 DEF InlineUpload
    <2>2. told'[a] # "waiting"
      <3>1. CASE kind[a] = "awaited"
        BY <1>0, <1>8, <3>1 DEF InlineUpload
      <3>2. CASE kind[a] # "awaited"
        BY <1>8, <3>2 DEF InlineUpload, HandsInv, WaitersInv
      <3> QED  BY <3>1, <3>2
    <2> QED  BY <2>1, <2>2
  <1> QED  BY <1>2, <1>3, <1>4, <1>5, <1>6, <1>7, <1>8

(* A job j that had not been is put at the end of the channel. *)
LEMMA QueuedHands ==
    ASSUME IndInv, HandsInv, NEW j \in Jobs, job[j].at = "none", AtMoves(j, "queued"),
           channel' = Append(channel, j), UNCHANGED <<slots, worker, kind, inline>>, ~Closed,
           \A a \in Artifacts : told'[a] = "waiting" =>
             told[a] = "waiting" \/ (kind[a] = "awaited" /\ j = <<a, "sent">>)
    PROVE  HandsInv'
  <1> DEFINE n == Len(channel)
  <1>1. /\ channel' \in Seq(Jobs) /\ n \in Nat /\ Len(channel') = n + 1 /\ channel'[n + 1] = j
        /\ \A k \in 1 .. n : channel'[k] = channel[k]
    <2>1. channel \in Seq(Jobs)
      BY DEF IndInv, TypeOK
    <2> QED  BY <2>1
  <1> HIDE DEF n
  <1>2. job'[j].at = "queued" /\ \A k \in Jobs \ {j} : job'[k].at = job[k].at
    BY DEF AtMoves
  <1>3. ASSUME NEW i \in Jobs, job'[i].at = "queued"
        PROVE  \E k \in 1 .. Len(channel') : channel'[k] = i
    <2>1. CASE i = j
      <3>1. n + 1 \in 1 .. Len(channel')
        BY <1>1
      <3> QED  BY <1>1, <2>1, <3>1
    <2>2. CASE i # j
      <3>1. job[i].at = "queued"
        BY <1>2, <1>3, <2>2
      <3>2. PICK k \in 1 .. n : channel[k] = i
        BY <3>1 DEF HandsInv, WorkerInv, n
      <3>3. k \in 1 .. Len(channel') /\ channel'[k] = i
        BY <1>1, <3>2
      <3> QED  BY <3>3
    <2> QED  BY <2>1, <2>2
  <1>4. WorkerInv'
    <2>1. worker' = worker /\ worker \notin {"joining", "exited"}
      BY DEF Closed
    <2> QED  BY <1>2, <1>3, <2>1 DEF HandsInv, WorkerInv, DrainLeavesNothing
  <1>5. SlotsAreUsed'
    BY <1>2 DEF HandsInv, SlotsAreUsed, Slotted, Finishing
  <1>6. WaitersInv'
    <2>1. Unsettled \subseteq Unsettled' /\ j \in Unsettled'
      BY <1>2 DEF Unsettled, Waiting, Finishing
    <2>2. kind' = kind /\ inline' = inline
      OBVIOUS
    <2> QED  BY <2>1, <2>2 DEF HandsInv, WaitersInv, WaiterIsOwed
  <1> QED  BY <1>4, <1>5, <1>6 DEF HandsInv

(* The send, and the second send of what recovery has found. *)
LEMMA SendHands ==
    ASSUME IndInv, HandsInv, NEW a \in Artifacts, Send(a) \/ Reenqueue(a)
    PROVE  HandsInv'
  <1>0. /\ job \in [Jobs -> JobType] /\ told \in ToldType
        /\ <<a, "sent">> \in Jobs /\ <<a, "recovered">> \in Jobs
    BY JobFacts DEF IndInv, TypeOK, JobType
  <1>1. CASE Send(a)
    <2> DEFINE j == <<a, "sent">>
    <2>1. job[j].at = "none"
      BY <1>1 DEF Send, IndInv, LifeInv, LifeOf
    <2>2. AtMoves(j, "queued")
      BY <1>0, <1>1 DEF Send, AtMoves, JobType
    <2>3. /\ channel' = Append(channel, j) /\ UNCHANGED <<slots, worker, kind, inline>> /\ ~Closed
      BY <1>1 DEF Send
    <2>4. \A b \in Artifacts : told'[b] = "waiting" =>
            told[b] = "waiting" \/ (kind[b] = "awaited" /\ j = <<b, "sent">>)
      BY <1>0, <1>1 DEF Send, Return
    <2>5. j \in Jobs
      BY <1>0
    <2> HIDE DEF j
    <2> QED  BY <2>1, <2>2, <2>3, <2>4, <2>5, QueuedHands
  <1>2. CASE Reenqueue(a) /\ channel' # channel
    <2> DEFINE j == <<a, "recovered">>
    <2>1. job[j].at = "none"
      BY <1>2 DEF Reenqueue, IndInv, LifeInv, LifeOf
    <2>2. /\ job' = [job EXCEPT ![j].at = "queued"]
          /\ channel' = Append(channel, j) /\ ~Closed
      BY <1>2 DEF Reenqueue
    <2>3. AtMoves(j, "queued")
      BY <1>0, <2>2 DEF AtMoves, JobType
    <2>4. UNCHANGED <<slots, worker, kind, inline, told>>
      BY <1>2 DEF Reenqueue, callers
    <2>5. j \in Jobs
      BY <1>0
    <2> HIDE DEF j
    <2> QED  BY <2>1, <2>2, <2>3, <2>4, <2>5, QueuedHands
  <1>3. CASE Reenqueue(a) /\ channel' = channel
    <2>1. channel # Append(channel, <<a, "recovered">>)
      <3>1. channel \in Seq(Jobs)
        BY DEF IndInv, TypeOK
      <3>2. Len(Append(channel, <<a, "recovered">>)) = Len(channel) + 1 /\ Len(channel) \in Nat
        BY <1>0, <3>1
      <3> QED  BY <3>2
    <2>2. UNCHANGED <<job, slots, channel, worker, kind, told, inline>>
      BY <1>3, <2>1 DEF Reenqueue, callers
    <2> QED  BY <2>2, IdleHands
  <1> QED  BY <1>1, <1>2, <1>3

(* What only touches the disk, the clock or the scan. *)
LEMMA DiskHands ==
    ASSUME IndInv, HandsInv,
           \/ \E a \in Artifacts : Age(a) \/ RecoverCheck(a)
           \/ \E j \in Jobs : AgeRecovered(j)
           \/ RecoverScan \/ RecoverDone \/ Purge \/ UNCHANGED vars
    PROVE  HandsInv'
  <1>1. UNCHANGED <<slots, channel, worker, kind, told, inline>>
    BY DEF Age, RecoverCheck, AgeRecovered, RecoverScan, RecoverDone, Purge, vars, callers, loop
  <1>2. \A j \in Jobs : job'[j].at = job[j].at
    <2>1. CASE \E j \in Jobs : AgeRecovered(j)
      <3>1. PICK j \in Jobs : AgeRecovered(j)
        BY <2>1
      <3>2. job \in [Jobs -> JobType] /\ job' = [job EXCEPT ![j].old = TRUE]
        BY <3>1 DEF AgeRecovered, IndInv, TypeOK, JobType
      <3> QED  BY <3>2 DEF JobType
    <2>2. CASE ~\E j \in Jobs : AgeRecovered(j)
      BY <2>2 DEF Age, RecoverCheck, RecoverScan, RecoverDone, Purge, vars
    <2> QED  BY <2>1, <2>2
  <1> QED  BY <1>1, <1>2, IdleHands

(* The deadline of drain() takes every item that waits, its slot and its waiter with it; a    *)
(* task that is past its last await goes on.                                                  *)
LEMMA DrainTimesOutHands ==
    ASSUME IndInv, HandsInv, DrainTimesOut
    PROVE  HandsInv'
  <1> DEFINE X == {j \in Jobs : job[j].at \in Waiting}
  <1>1. /\ worker' = "aborted" /\ UNCHANGED <<kind, inline>>
        /\ slots' = slots \ X
        /\ job' = [j \in Jobs |-> IF j \in X THEN [NoJob EXCEPT !.at = "aborted"] ELSE job[j]]
        /\ told' = [a \in Artifacts |-> IF told[a] = "waiting" /\ <<a, "sent">> \in X THEN "closed"
                                        ELSE told[a]]
    BY DEF DrainTimesOut
  <1>2. \A j \in Jobs : job'[j].at = IF j \in X THEN "aborted" ELSE job[j].at
    BY <1>1 DEF NoJob
  <1>3. \A j \in Jobs : j \in X <=> job[j].at \in Waiting
    OBVIOUS
  <1> HIDE DEF X
  <1>4. \A j \in Jobs : job'[j].at \notin Waiting
    BY <1>2, <1>3 DEF Waiting
  <1>5. WorkerInv'
    BY <1>1, <1>4 DEF WorkerInv, DrainLeavesNothing, Waiting
  <1>6. SlotsAreUsed'
    <2>1. \A j \in Jobs : job'[j].at \notin Slotted
      BY <1>4 DEF Waiting, Slotted
    <2>2. ASSUME NEW j \in slots'
          PROVE  j \in Jobs /\ job'[j].at \in Slotted \cup Finishing
      <3>1. j \in slots /\ j \notin X /\ j \in Jobs /\ job[j].at \in Slotted \cup Finishing
        BY <1>1, <2>2 DEF HandsInv, SlotsAreUsed
      <3> QED  BY <1>2, <3>1
    <2> QED  BY <2>1, <2>2 DEF SlotsAreUsed
  <1>7. WaitersInv'
    <2>1. ASSUME NEW a \in Artifacts, told'[a] = "waiting"
          PROVE  kind'[a] = "awaited" /\ (a \in inline' \/ <<a, "sent">> \in Unsettled')
      <3>1. told[a] = "waiting" /\ <<a, "sent">> \notin X /\ <<a, "sent">> \in Jobs
        BY <1>1, <2>1, JobFacts
      <3>2. kind[a] = "awaited" /\ (a \in inline \/ <<a, "sent">> \in Unsettled)
        BY <3>1 DEF HandsInv, WaitersInv, WaiterIsOwed
      <3> QED  BY <1>1, <1>2, <3>1, <3>2 DEF Unsettled
    <2> QED  BY <2>1 DEF WaitersInv, WaiterIsOwed
  <1> QED  BY <1>5, <1>6, <1>7 DEF HandsInv

(* A process that dies, and the next one, have no items, no slots and no waiters. *)
LEMMA CrashHands ==
    ASSUME IndInv, HandsInv, Crash \/ Restart
    PROVE  HandsInv'
  <1>1. CASE Crash
    <2>1. /\ worker' = "down" /\ slots' = {} /\ job' = [j \in Jobs |-> NoJob]
          /\ told' = [a \in Artifacts |-> IF told[a] = "waiting" THEN "closed" ELSE told[a]]
      BY <1>1 DEF Crash
    <2>2. \A j \in Jobs : job'[j].at = "none"
      BY <2>1 DEF NoJob
    <2>3. \A a \in Artifacts : told'[a] # "waiting"
      BY <2>1
    <2> QED  BY <2>1, <2>2, <2>3
             DEF HandsInv, SlotsAreUsed, Slotted, WorkerInv, DrainLeavesNothing, WaitersInv,
                 WaiterIsOwed
  <1>2. CASE Restart
    <2>1. /\ UNCHANGED <<kind, told, inline, job, slots, channel>>
          /\ worker = "down" /\ worker' = "top"
      BY <1>2 DEF Restart, callers
    <2>2. Unsettled' = Unsettled
      BY <2>1 DEF Unsettled
    <2> QED  BY <2>1, <2>2
             DEF HandsInv, SlotsAreUsed, WorkerInv, DrainLeavesNothing, WaitersInv, WaiterIsOwed
  <1> QED  BY <1>1, <1>2

(* HandsInv holds in every execution: each step keeps it, on top of IndInv. *)
LEMMA HandsInvariance == Spec => [](IndInv /\ HandsInv)
  <1>1. Init => HandsInv
    <2> SUFFICES ASSUME Init PROVE HandsInv
      OBVIOUS
    <2>1. \A j \in Jobs : job[j].at = "none"
      BY DEF Init, NoJob
    <2>2. slots = {} /\ worker = "top" /\ \A a \in Artifacts : told[a] = "nothing"
      BY DEF Init
    <2> QED  BY <2>1, <2>2 DEF HandsInv, SlotsAreUsed, Slotted, WorkerInv, DrainLeavesNothing,
                               WaitersInv, WaiterIsOwed
  <1>2. IndInv /\ HandsInv /\ [Next]_vars => HandsInv'
    <2> SUFFICES ASSUME IndInv, HandsInv, [Next]_vars PROVE HandsInv'
      OBVIOUS
    <2>1. ASSUME NEW a \in Artifacts, Call(a) \/ InlineUpload(a) \/ Age(a)
          PROVE  HandsInv'
      BY <2>1, CallHands, SendHands, DiskHands DEF Call
    <2>2. CASE Loop \/ Drain \/ DrainTimesOut
      BY <2>2, LoopHands, RecvHands, DispatchHands, DrainTimesOutHands DEF Loop
    <2>3. ASSUME NEW j \in Jobs, Task(j) \/ AgeRecovered(j)
          PROVE  HandsInv'
      BY <2>3, TaskHands, DiskHands
    <2>4. CASE Recover \/ Purge \/ Crash \/ Restart
      BY <2>4, DiskHands, SendHands, CrashHands DEF Recover
    <2>5. CASE UNCHANGED vars
      BY <2>5, DiskHands
    <2> QED  BY <2>1, <2>2, <2>3, <2>4, <2>5 DEF Next
  <1> QED  BY <1>1, <1>2, InitInv, NextStep, PTL DEF Spec

(* In every execution the permits of the semaphore are those of tasks that run: nothing is on *)
(* the wire without one, so that no more than MaxConcurrent uploads are, and no item keeps    *)
(* one while it is parked, or after it was aborted or settled, so that none is lost.          *)
THEOREM SlotsNeverLeak ==
    Spec => []SlotsAreUsed
  <1>1. HandsInv => SlotsAreUsed
    BY DEF HandsInv
  <1> QED  BY <1>1, HandsInvariance, PTL

(* In every execution a caller of enqueue_blocking that waits has an item, or an inline       *)
(* upload, that has still to answer it: the safety half of WaiterReleased.                    *)
THEOREM WaitersOwed ==
    Spec => []WaiterIsOwed
  <1>1. HandsInv => WaiterIsOwed
    BY DEF HandsInv, WaitersInv
  <1> QED  BY <1>1, HandsInvariance, PTL

(* In every execution a worker that has joined its tasks, which is when drain() answers that  *)
(* nothing remains, leaves no item in the channel, in its hand or under way.                  *)
THEOREM DrainIsComplete ==
    Spec => []DrainLeavesNothing
  <1>1. HandsInv => DrainLeavesNothing
    BY DEF HandsInv, WorkerInv
  <1> QED  BY <1>1, HandsInvariance, PTL

(* The items whose bytes are being sent. *)
OnTheWire == {j \in Jobs : job[j].at = "wire"}

(* In every execution no more than MaxConcurrent uploads are on the wire, whatever has        *)
(* parked, come back, been recovered or been aborted.                                         *)
THEOREM WireIsBounded ==
    Spec => [](Cardinality(OnTheWire) <= MaxConcurrent)
  <1>1. IndInv /\ HandsInv => Cardinality(OnTheWire) <= MaxConcurrent
    <2> SUFFICES ASSUME IndInv, HandsInv PROVE Cardinality(OnTheWire) <= MaxConcurrent
      OBVIOUS
    <2>1. OnTheWire \subseteq slots
      BY DEF OnTheWire, HandsInv, SlotsAreUsed, Slotted
    <2>2. IsFiniteSet(slots) /\ Cardinality(slots) <= MaxConcurrent
      BY DEF IndInv, SlotsInv, TypeOK
    <2>3. IsFiniteSet(OnTheWire) /\ Cardinality(OnTheWire) <= Cardinality(slots)
      BY <2>1, <2>2, FS_Subset
    <2>4. Cardinality(OnTheWire) \in Nat /\ Cardinality(slots) \in Nat
      BY <2>2, <2>3, FS_CardinalityType
    <2> QED  BY <2>2, <2>3, <2>4, UploadAssumption
  <1> QED  BY <1>1, HandsInvariance, PTL

=============================================================================
