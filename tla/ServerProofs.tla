---------------------------- MODULE ServerProofs ----------------------------
(***************************************************************************)
(* Proofs about the parts of Server, for every number of workers and every *)
(* set of tasks, files, providers and records.                             *)
(*                                                                         *)
(* A pause holds across restarts because each pause that still holds is in *)
(* the state file, and in the memory of a server that runs: every way to   *)
(* save keeps both.  The restore check is honest because the keyword file  *)
(* of a check is empty before its rows are applied, so that what it then   *)
(* holds of a record is the restored row itself.                           *)
(***************************************************************************)
EXTENDS Server, FiniteSetTheorems, TLAPS

-----------------------------------------------------------------------------
(* The backfill queue.                                                     *)

(* A server that is down drains nothing, and nobody waits to.              *)
DownInv == ~up => drain = NoDrain /\ waiters = {}

DrainType ==
  /\ drain \in [by : {None, "worker", "run", "startup"}, todo : SUBSET Job, job : Job \cup {None}]
  /\ jobs \in SUBSET Job
  /\ disk \in [jobs : SUBSET Job, paused : SUBSET Target]
  /\ paused \in SUBSET Target

(* The pauses that hold are saved, and known to the server that runs.      *)
ToldInv ==
  /\ told \subseteq disk.paused
  /\ up => told \subseteq paused

QueueInv == DownInv /\ DrainType /\ ToldInv

(* A server starts with an empty queue and no pause.                       *)
LEMMA QueueStart ==
  ASSUME QueueInit
  PROVE  QueueInv
BY DEF QueueInit, QueueInv, DownInv, DrainType, ToldInv, NoDrain

(* The jobs of a start, and those a client asks for, are jobs.             *)
LEMMA JobsType ==
  /\ Startup \in SUBSET Job
  /\ Provider \X {"asked"} \in SUBSET Job
  /\ \A p \in Provider : {<<p, "asked">>} \in SUBSET Job
BY DEF Startup, Job

(* What a drain or a rest leaves is well typed.                            *)
LEMMA RestsType ==
  ASSUME DrainType, NEW some \in SUBSET Job
  PROVE  /\ Rests(some) \in [by : {None, "worker", "run", "startup"}, todo : SUBSET Job,
                             job : Job \cup {None}]
         /\ Rests(some).job = None
         /\ Rests(some).by \in {None, drain.by}
BY DEF Rests, DrainType, NoDrain

(* A drain that begins is well typed, runs no job yet, and begins under no *)
(* pause of all.                                                           *)
LEMMA DrainsType ==
  ASSUME NEW by \in {"worker", "run", "startup"}, NEW some \in SUBSET Job,
         drain' = IF All \in paused \/ some = {}
                  THEN NoDrain ELSE [by |-> by, todo |-> some, job |-> None]
  PROVE  /\ drain' \in [by : {None, "worker", "run", "startup"}, todo : SUBSET Job,
                        job : Job \cup {None}]
         /\ drain'.job = None
         /\ drain'.by # None => All \notin paused
BY DEF NoDrain

(* Queueing jobs saves what the server knows, or changes no file.          *)
LEMMA QueueKeeps ==
  ASSUME QueueInv, up, NEW new \in SUBSET Job, Queue(new)
  PROVE  /\ jobs' \in SUBSET Job /\ paused' = paused
         /\ disk' \in [jobs : SUBSET Job, paused : SUBSET Target]
         /\ told \subseteq disk'.paused
<1>1. jobs' \in SUBSET Job /\ paused' = paused
  BY DEF Queue, QueueInv, DrainType
<1>2. CASE disk' = disk
  BY <1>1, <1>2 DEF QueueInv, DrainType, ToldInv
<1>3. CASE disk' = [jobs |-> jobs', paused |-> paused']
  BY <1>1, <1>3 DEF QueueInv, DrainType, ToldInv
<1>4. QED
  BY <1>1, <1>2, <1>3 DEF Queue, Saved, Save

(* Every operation of the queue keeps the invariant.                       *)
LEMMA QueueStep ==
  ASSUME QueueInv, QueueNext
  PROVE  QueueInv'
<1> USE DEF QueueInv
<1>1. ASSUME NEW p \in Provider, Enqueue(p)
      PROVE  QueueInv'
  BY <1>1, QueueKeeps, JobsType DEF Enqueue, DownInv, DrainType, ToldInv
<1>2. ASSUME Run
      PROVE  QueueInv'
  BY <1>2, QueueKeeps, JobsType DEF Run, DownInv, DrainType, ToldInv
<1>3. ASSUME NEW t \in Target, Pause(t)
      PROVE  QueueInv'
  BY <1>3 DEF Pause, Save, DownInv, DrainType, ToldInv
<1>4. ASSUME NEW t \in Target, Resume(t)
      PROVE  QueueInv'
  BY <1>4 DEF Resume, Save, DownInv, DrainType, ToldInv
<1>5. ASSUME WorkerDrains
      PROVE  QueueInv'
  <2>1. drain' \in [by : {None, "worker", "run", "startup"}, todo : SUBSET Job, job : Job \cup {None}]
    BY <1>5, DrainsType DEF WorkerDrains, Drains, DrainType
  <2>2. QED
    BY <1>5, <2>1 DEF WorkerDrains, DownInv, DrainType, ToldInv
<1>6. ASSUME RunDrains
      PROVE  QueueInv'
  <2>1. drain' \in [by : {None, "worker", "run", "startup"}, todo : SUBSET Job, job : Job \cup {None}]
    BY <1>6, DrainsType DEF RunDrains, Drains, DrainType
  <2>2. QED
    BY <1>6, <2>1 DEF RunDrains, DownInv, DrainType, ToldInv
<1>7. ASSUME StartupDrains
      PROVE  QueueInv'
  <2>1. up
    BY <1>7 DEF StartupDrains, DownInv
  <2>2. jobs' \in SUBSET Job /\ paused' = paused
        /\ disk' \in [jobs : SUBSET Job, paused : SUBSET Target] /\ told \subseteq disk'.paused
    BY <1>7, <2>1, QueueKeeps, JobsType DEF StartupDrains
  <2>3. drain' \in [by : {None, "worker", "run", "startup"}, todo : SUBSET Job, job : Job \cup {None}]
    BY <1>7, <2>2, DrainsType DEF StartupDrains, Drains
  <2>4. QED
    BY <1>7, <2>1, <2>2, <2>3 DEF StartupDrains, DownInv, DrainType, ToldInv
<1>8. ASSUME NextJob
      PROVE  QueueInv'
  <2>1. up /\ drain.todo \in SUBSET Job
    BY <1>8 DEF NextJob, DownInv, NoDrain, DrainType
  <2>2. drain' \in [by : {None, "worker", "run", "startup"}, todo : SUBSET Job, job : Job \cup {None}]
    <3>1. PICK j \in First(drain.todo) :
            drain' = IF j[1] \in paused THEN Rests(drain.todo \ {j})
                     ELSE [drain EXCEPT !.todo = @ \ {j}, !.job = j]
      BY <1>8 DEF NextJob
    <3>2. j \in Job
      BY <2>1 DEF First
    <3>3. Rests(drain.todo \ {j}) \in [by : {None, "worker", "run", "startup"}, todo : SUBSET Job,
                                       job : Job \cup {None}]
      BY <2>1, RestsType
    <3>4. QED
      BY <3>1, <3>2, <3>3 DEF DrainType
  <2>3. QED
    BY <1>8, <2>1, <2>2 DEF NextJob, DownInv, DrainType, ToldInv
<1>9. ASSUME FinishJob
      PROVE  QueueInv'
  <2>1. up /\ drain.todo \in SUBSET Job
    BY <1>9 DEF FinishJob, DownInv, NoDrain, DrainType
  <2>2. drain' \in [by : {None, "worker", "run", "startup"}, todo : SUBSET Job, job : Job \cup {None}]
    BY <1>9, <2>1, RestsType DEF FinishJob
  <2>3. QED
    BY <1>9, <2>1, <2>2 DEF FinishJob, Save, DownInv, DrainType, ToldInv
<1>10. ASSUME Crash
       PROVE  QueueInv'
  BY <1>10 DEF Crash, Down, DownInv, DrainType, ToldInv, NoDrain
<1>11. ASSUME Shutdown
       PROVE  QueueInv'
  BY <1>11 DEF Shutdown, Down, DownInv, DrainType, ToldInv, NoDrain
<1>12. ASSUME Start
       PROVE  QueueInv'
  BY <1>12 DEF Start, DownInv, DrainType, ToldInv
<1>13. ASSUME NEW t \in Target, CliPause(t)
       PROVE  QueueInv'
  BY <1>13 DEF CliPause, DownInv, DrainType, ToldInv
<1>14. ASSUME NEW t \in Target, CliResume(t)
       PROVE  QueueInv'
  BY <1>14 DEF CliResume, DownInv, DrainType, ToldInv
<1>15. ASSUME NEW p \in Provider, CliEnqueue(p)
       PROVE  QueueInv'
  BY <1>15, JobsType DEF CliEnqueue, DownInv, DrainType, ToldInv
<1>16. QED
  BY <1>1, <1>2, <1>3, <1>4, <1>5, <1>6, <1>7, <1>8, <1>9, <1>10, <1>11, <1>12, <1>13, <1>14,
     <1>15, QueueNext DEF QueueNext

(* No operation starts what a pause that holds forbids.                    *)
LEMMA PauseStep ==
  ASSUME QueueInv, QueueNext
  PROVE  /\ drain'.job \notin {None, drain.job} => drain'.job[1] \notin told
         /\ drain.by = None /\ drain'.by # None => All \notin told
<1> USE DEF QueueInv
<1>1. CASE WorkerDrains \/ RunDrains \/ StartupDrains
  <2>1. up /\ told \subseteq paused
    BY <1>1 DEF WorkerDrains, RunDrains, StartupDrains, DownInv, ToldInv
  <2>2. drain'.job = None /\ (drain'.by # None => All \notin paused)
    <3>1. CASE WorkerDrains
      BY <3>1, DrainsType DEF WorkerDrains, Drains, DrainType
    <3>2. CASE RunDrains
      BY <3>2, DrainsType DEF RunDrains, Drains, DrainType
    <3>3. CASE StartupDrains
      <4>1. jobs' \in SUBSET Job
        BY <2>1, <3>3, QueueKeeps, JobsType DEF StartupDrains
      <4>2. QED
        BY <3>3, <4>1, DrainsType DEF StartupDrains, Drains
    <3>4. QED
      BY <1>1, <3>1, <3>2, <3>3
  <2>3. QED
    BY <2>1, <2>2
<1>2. CASE NextJob
  <2>1. up /\ told \subseteq paused /\ drain.todo \in SUBSET Job
    BY <1>2 DEF NextJob, DownInv, NoDrain, DrainType, ToldInv
  <2>2. PICK j \in First(drain.todo) :
          drain' = IF j[1] \in paused THEN Rests(drain.todo \ {j})
                   ELSE [drain EXCEPT !.todo = @ \ {j}, !.job = j]
    BY <1>2 DEF NextJob
  <2>3. CASE j[1] \in paused
    BY <2>1, <2>2, <2>3, RestsType
  <2>4. CASE j[1] \notin paused
    <3>1. drain'.job = j /\ drain'.by = drain.by
      BY <2>2, <2>4 DEF DrainType
    <3>2. QED
      BY <2>1, <2>4, <3>1
  <2>5. QED
    BY <2>3, <2>4
<1>3. CASE FinishJob
  BY <1>3, RestsType DEF FinishJob, DrainType
<1>4. CASE Crash \/ Shutdown
  BY <1>4 DEF Crash, Shutdown, Down, NoDrain
<1>5. CASE drain' = drain
  BY <1>5
<1>6. QED
  BY <1>1, <1>2, <1>3, <1>4, <1>5
     DEF QueueNext, Enqueue, CliEnqueue, Pause, Resume, CliPause, CliResume, Run, Start

-----------------------------------------------------------------------------
(* The restore check.                                                      *)

(* What the keyword file holds of a record while rows are applied and      *)
(* compared is the restored row; and an ok was deserved.                   *)
CheckInv ==
  /\ restored \in [Record -> Row] /\ lines \in [Record -> Row]
  /\ step \in {"apply", "compare"} => \A r \in Record : lines[r] \in {"none", restored[r]}
  /\ RestoreHonest

(* Every step of the check keeps the invariant.                            *)
LEMMA CheckStep ==
  ASSUME CheckInv, CheckNext
  PROVE  CheckInv'
<1> USE DEF CheckInv, RestoreHonest
<1>0. Live \subseteq Record /\ Empty \in [Record -> Row] /\ \A r \in Record : Empty[r] = "none"
  BY LiveAssumption DEF LiveAssumption, Empty, Row
<1>1. CASE Begin
  BY <1>1 DEF Begin
<1>2. CASE DropStrays
  BY <1>2 DEF DropStrays
<1>3. CASE ResetFts
  BY <1>0, <1>3 DEF ResetFts, Reset
<1>4. ASSUME NEW r \in Record, Apply(r)
      PROVE  CheckInv'
  <2>1. lines' = lines \/ lines' = [lines EXCEPT ![r] = restored[r]]
    BY <1>4 DEF Apply
  <2>2. restored' = restored /\ verdict' = verdict /\ step' = step /\ step = "apply"
    BY <1>4 DEF Apply
  <2>3. QED
    BY <2>1, <2>2
<1>5. CASE Applied
  BY <1>5 DEF Applied
<1>6. CASE Compare
  <2>1. /\ step = "compare" /\ step' = "clean"
        /\ restored' = restored /\ lines' = lines
        /\ verdict' = "ok" => \A r \in Record : Same(r)
    BY <1>6 DEF Compare
  <2>2. \A r \in Live : Same(r) => lines[r] = "good"
    BY DEF Same
  <2>3. \A r \in Live : lines[r] = "good" => restored[r] = "good"
    BY <1>0, <2>1
  <2>4. verdict' = "ok" => \A r \in Live : restored[r] = "good"
    BY <1>0, <2>1, <2>2, <2>3
  <2>5. QED
    BY <2>1, <2>4
<1>7. CASE Fail
  BY <1>7 DEF Fail
<1>8. CASE Clean
  BY <1>0, <1>8 DEF Clean
<1>9. CASE Killed
  BY <1>9 DEF Killed
<1>10. QED
  BY <1>1, <1>2, <1>3, <1>4, <1>5, <1>6, <1>7, <1>8, <1>9 DEF CheckNext

-----------------------------------------------------------------------------
(* The worker pool.                                                        *)

(* Facts about queues without repetition.                                  *)
LEMMA Appended ==
  ASSUME NEW S, NEW q \in Seq(S), IsInjective(q), NEW x \in S \ ToSet(q)
  PROVE  /\ Append(q, x) \in Seq(S) /\ IsInjective(Append(q, x))
         /\ ToSet(Append(q, x)) = ToSet(q) \cup {x}
<1>1. Append(q, x) \in Seq(S) /\ DOMAIN Append(q, x) = 1..Len(q)+1 /\ Len(q) \in Nat
      /\ DOMAIN q = 1..Len(q)
  OBVIOUS
<1>2. \A i \in 1..Len(q)+1 : Append(q, x)[i] = IF i = Len(q)+1 THEN x ELSE q[i]
  OBVIOUS
<1>3. ToSet(Append(q, x)) = ToSet(q) \cup {x}
  <2>1. \A i \in 1..Len(q)+1 : Append(q, x)[i] \in ToSet(q) \cup {x}
    BY <1>1, <1>2 DEF ToSet
  <2>2. x = Append(q, x)[Len(q)+1] /\ Len(q)+1 \in 1..Len(q)+1
    BY <1>1, <1>2
  <2>3. \A i \in 1..Len(q) : i \in 1..Len(q)+1 /\ q[i] = Append(q, x)[i]
    BY <1>1, <1>2
  <2> QED
    BY <1>1, <2>1, <2>2, <2>3 DEF ToSet
<1>4. \A i \in 1..Len(q) : q[i] # x
  BY <1>1 DEF ToSet
<1>5. IsInjective(Append(q, x))
  BY <1>1, <1>2, <1>4 DEF IsInjective
<1> QED
  BY <1>1, <1>3, <1>5

(* Taking the head of a queue leaves it without repetition, and without    *)
(* the head.                                                               *)
LEMMA Taken ==
  ASSUME NEW S, NEW q \in Seq(S), IsInjective(q), q # << >>
  PROVE  /\ Tail(q) \in Seq(S) /\ IsInjective(Tail(q))
         /\ Head(q) \in S /\ Head(q) \in ToSet(q)
         /\ ToSet(Tail(q)) = ToSet(q) \ {Head(q)}
<1>1. Tail(q) \in Seq(S) /\ DOMAIN Tail(q) = 1..Len(q)-1 /\ Len(q) \in Nat \ {0}
      /\ DOMAIN q = 1..Len(q) /\ Head(q) = q[1]
  OBVIOUS
<1>2. \A i \in 1..Len(q)-1 : Tail(q)[i] = q[i+1]
  OBVIOUS
<1>3. IsInjective(Tail(q))
  BY <1>1, <1>2 DEF IsInjective
<1>4. Head(q) \in S /\ Head(q) \in ToSet(q)
  BY <1>1 DEF ToSet
<1>5. ToSet(Tail(q)) = ToSet(q) \ {Head(q)}
  <2>1. \A i \in 1..Len(q)-1 : i+1 \in 1..Len(q) /\ q[i+1] # q[1]
    BY <1>1 DEF IsInjective
  <2>2. \A i \in 1..Len(q) : i = 1 \/ (i-1 \in 1..Len(q)-1 /\ q[i] = Tail(q)[i-1])
    BY <1>1, <1>2
  <2>3. ASSUME NEW x \in ToSet(Tail(q)) PROVE x \in ToSet(q) \ {Head(q)}
    <3>1. PICK i \in 1..Len(q)-1 : x = q[i+1]
      BY <1>1, <1>2, <2>3 DEF ToSet
    <3> QED
      BY <1>1, <2>1, <3>1 DEF ToSet
  <2>4. ASSUME NEW x \in ToSet(q) \ {Head(q)} PROVE x \in ToSet(Tail(q))
    <3>1. PICK i \in 1..Len(q) : x = q[i]
      BY <1>1, <2>4 DEF ToSet
    <3> QED
      BY <1>1, <2>2, <2>4, <3>1 DEF ToSet
  <2> QED
    BY <2>3, <2>4
<1> QED
  BY <1>1, <1>3, <1>4, <1>5

(* A queue takes calls, and its length grows by one with each.             *)
LEMMA Joined ==
  ASSUME NEW S, NEW a \in Seq(S), NEW b \in Seq(S)
  PROVE  /\ a \o b \in Seq(S) /\ Len(a \o b) = Len(a) + Len(b)
         /\ \A i \in 1..Len(a) + Len(b) : (a \o b)[i] = IF i <= Len(a) THEN a[i] ELSE b[i - Len(a)]
OBVIOUS

(* Taking an element out of a queue leaves the others in it.               *)
LEMMA Removed ==
  ASSUME NEW S, NEW q \in Seq(S), IsInjective(q), NEW k \in DOMAIN q
  PROVE  /\ RemoveAt(q, k) \in Seq(S) /\ IsInjective(RemoveAt(q, k))
         /\ ToSet(RemoveAt(q, k)) = ToSet(q) \ {q[k]}
<1> DEFINE r == RemoveAt(q, k)
           a == SubSeq(q, 1, k-1)
           b == SubSeq(q, k+1, Len(q))
<1>0. Len(q) \in Nat \ {0} /\ DOMAIN q = 1..Len(q) /\ k \in 1..Len(q)
  OBVIOUS
<1>1. /\ a \in Seq(S) /\ Len(a) = k-1 /\ b \in Seq(S) /\ Len(b) = Len(q)-k
      /\ \A i \in 1..k-1 : a[i] = q[i]
      /\ \A i \in 1..Len(q)-k : b[i] = q[k+i]
      /\ r = a \o b
  BY <1>0 DEF RemoveAt
<1> HIDE DEF r, a, b
<1>2. r \in Seq(S) /\ DOMAIN r = 1..Len(q)-1
      /\ \A i \in 1..Len(q)-1 : r[i] = IF i < k THEN q[i] ELSE q[i+1]
  <2>1. r \in Seq(S) /\ Len(r) = Len(q)-1
    <3>1. r \in Seq(S) /\ Len(r) = Len(a) + Len(b)
      BY <1>1, Joined
    <3> QED
      BY <1>0, <1>1, <3>1
  <2>2. ASSUME NEW i \in 1..Len(q)-1, i < k PROVE r[i] = q[i]
    <3>1. i \in 1..k-1 /\ i \in 1..Len(a) + Len(b) /\ i <= Len(a)
      BY <1>0, <1>1, <2>2
    <3>2. r[i] = a[i]
      BY <1>1, <3>1
    <3> QED
      BY <1>1, <3>1, <3>2
  <2>3. ASSUME NEW i \in 1..Len(q)-1, ~(i < k) PROVE r[i] = q[i+1]
    <3>1. i-(k-1) \in 1..Len(q)-k /\ k+(i-(k-1)) = i+1
      BY <1>0, <2>3
    <3>2. i \in 1..Len(a) + Len(b) /\ i > Len(a) /\ i-(k-1) = i - Len(a)
      BY <1>0, <1>1, <2>3
    <3>3. r[i] = b[i - Len(a)]
      BY <1>1, <3>2
    <3> QED
      BY <1>1, <3>1, <3>2, <3>3
  <2> QED
    BY <2>1, <2>2, <2>3
<1>3. IsInjective(r)
  <2> DEFINE at(i) == IF i < k THEN i ELSE i+1
  <2>1. \A i \in 1..Len(q)-1 : at(i) \in 1..Len(q) /\ r[i] = q[at(i)]
    BY <1>0, <1>2
  <2>2. \A i, j \in 1..Len(q)-1 : at(i) = at(j) => i = j
    BY <1>0
  <2> HIDE DEF at
  <2> QED
    BY <1>0, <1>2, <2>1, <2>2 DEF IsInjective
<1>4. ToSet(r) = ToSet(q) \ {q[k]}
  <2>1. \A i \in 1..Len(q)-1 : r[i] \in ToSet(q) /\ r[i] # q[k]
    <3> SUFFICES ASSUME NEW i \in 1..Len(q)-1 PROVE r[i] \in ToSet(q) /\ r[i] # q[k]
      OBVIOUS
    <3>1. PICK j \in 1..Len(q) : r[i] = q[j] /\ j # k
      <4>1. CASE i < k
        BY <1>0, <1>2, <4>1
      <4>2. CASE ~(i < k)
        <5>1. i+1 \in 1..Len(q) /\ i+1 # k /\ r[i] = q[i+1]
          BY <1>0, <1>2, <4>2
        <5> QED
          BY <5>1
      <4> QED
        BY <4>1, <4>2
    <3> QED
      BY <1>0, <3>1 DEF IsInjective, ToSet
  <2>2. \A i \in 1..Len(q) : i = k \/ \E j \in 1..Len(q)-1 : q[i] = r[j]
    <3> SUFFICES ASSUME NEW i \in 1..Len(q), i # k PROVE \E j \in 1..Len(q)-1 : q[i] = r[j]
      OBVIOUS
    <3>1. CASE i < k
      BY <1>0, <1>2, <3>1
    <3>2. CASE i > k
      <4>1. i-1 \in 1..Len(q)-1 /\ r[i-1] = q[i]
        BY <1>0, <1>2, <3>2
      <4> QED
        BY <4>1
    <3> QED
      BY <1>0, <3>1, <3>2
  <2>3. ASSUME NEW x \in ToSet(r) PROVE x \in ToSet(q) \ {q[k]}
    BY <1>2, <2>1, <2>3 DEF ToSet
  <2>4. ASSUME NEW x \in ToSet(q) \ {q[k]} PROVE x \in ToSet(r)
    <3>1. PICK i \in 1..Len(q) : x = q[i]
      BY <1>0, <2>4 DEF ToSet
    <3> QED
      BY <1>2, <2>2, <2>4, <3>1 DEF ToSet
  <2> QED
    BY <2>3, <2>4
<1> QED
  BY <1>2, <1>3, <1>4 DEF r

PoolInv ==
  /\ PoolTypeOK
  /\ queue \in Seq(Caller \cup {Loop})
  /\ IsFiniteSet(running)

(* The pool starts empty.                                                  *)
LEMMA PoolStart ==
  ASSUME PoolInit
  PROVE  PoolInv
<1>1. IsFiniteSet(running) /\ Cardinality(running) = 0
  BY FS_EmptySet DEF PoolInit
<1>2. queue \in Seq(Caller \cup {Loop}) /\ ToSet(queue) = {} /\ IsInjective(queue)
  BY DEF PoolInit, ToSet, IsInjective
<1>3. 0 \in 0..Workers - 0
  BY WorkersAssumption
<1> QED
  BY <1>1, <1>2, <1>3 DEF PoolInit, PoolInv, PoolTypeOK

(* Every step of the pool keeps what is waiting, running and left over     *)
(* apart, and no more running than there are workers.                      *)
LEMMA PoolStep ==
  ASSUME PoolInv, PoolNext
  PROVE  PoolInv'
<1> DEFINE Who == Caller \cup {Loop}
<1>0. /\ queue \in Seq(Who) /\ IsInjective(queue) /\ IsFiniteSet(running)
      /\ running \subseteq Who /\ ToSet(queue) \subseteq Who /\ ToSet(queue) \cap running = {}
      /\ pass \in {"sleep", "reconcile", "tick"} /\ due \in BOOLEAN
      /\ left \in 0..Workers - Cardinality(running) /\ Cardinality(running) \in Nat
      /\ pass = "sleep" => Loop \notin running \cup ToSet(queue)
      /\ Workers \in Nat
  BY FS_CardinalityType, WorkersAssumption DEF PoolInv, PoolTypeOK
<1>1. ASSUME NEW c \in Caller, Call(c) PROVE PoolInv'
  BY <1>0, <1>1, Appended, LoopAssumption DEF Call, PoolInv, PoolTypeOK
<1>2. ASSUME NEW c \in Caller, FinishCall(c) PROVE PoolInv'
  <2>1. IsFiniteSet(running') /\ Cardinality(running') = Cardinality(running) - 1
    BY <1>0, <1>2, FS_RemoveElement DEF FinishCall
  <2> QED
    BY <1>0, <1>2, <2>1 DEF FinishCall, PoolInv, PoolTypeOK
<1>3. ASSUME StartCall PROVE PoolInv'
  <2>1. /\ queue' \in Seq(Who) /\ IsInjective(queue') /\ Head(queue) \in ToSet(queue)
        /\ ToSet(queue') = ToSet(queue) \ {Head(queue)}
    BY <1>0, <1>3, Taken DEF StartCall
  <2>2. IsFiniteSet(running') /\ Cardinality(running') = Cardinality(running) + 1
    BY <1>0, <1>3, <2>1, FS_AddElement DEF StartCall
  <2>3. left' \in 0..Workers - Cardinality(running')
    BY <1>0, <1>3, <2>2 DEF StartCall, Busy
  <2> QED
    BY <1>0, <1>3, <2>1, <2>2, <2>3 DEF StartCall, PoolInv, PoolTypeOK
<1>4. ASSUME LeftReturns PROVE PoolInv'
  BY <1>0, <1>4 DEF LeftReturns, PoolInv, PoolTypeOK
<1>5. ASSUME Wake PROVE PoolInv'
  BY <1>0, <1>5 DEF Wake, PoolInv, PoolTypeOK
<1>6. ASSUME LoopCall PROVE PoolInv'
  BY <1>0, <1>6, Appended DEF LoopCall, PoolInv, PoolTypeOK
<1>7. ASSUME LoopReturns PROVE PoolInv'
  <2>1. IsFiniteSet(running') /\ Cardinality(running') = Cardinality(running) - 1
    BY <1>0, <1>7, FS_RemoveElement DEF LoopReturns
  <2> QED
    BY <1>0, <1>7, <2>1 DEF LoopReturns, PoolInv, PoolTypeOK
<1>8. ASSUME StepEnds PROVE PoolInv'
  BY <1>0, <1>8 DEF StepEnds, After, PoolInv, PoolTypeOK
<1>9. ASSUME StepTimesOut PROVE PoolInv'
  <2>1. pass' \in {"sleep", "reconcile", "tick"} /\ due' \in BOOLEAN
    BY <1>9 DEF StepTimesOut, After
  <2>2. CASE Loop \in running
    <3>1. queue' = queue /\ running' = running \ {Loop} /\ left' = left + 1
      BY <1>9, <2>2 DEF StepTimesOut
    <3>2. IsFiniteSet(running') /\ Cardinality(running') = Cardinality(running) - 1
      BY <1>0, <2>2, <3>1, FS_RemoveElement
    <3>3. left' \in 0..Workers - Cardinality(running')
      BY <1>0, <3>1, <3>2
    <3> QED
      BY <1>0, <2>1, <2>2, <3>1, <3>2, <3>3 DEF PoolInv, PoolTypeOK
  <2>3. CASE Loop \notin running
    <3> DEFINE k == CHOOSE i \in DOMAIN queue : queue[i] = Loop
    <3>1. k \in DOMAIN queue /\ queue[k] = Loop
      BY <1>9, <2>3 DEF StepTimesOut, ToSet
    <3>2. queue' = RemoveAt(queue, k) /\ running' = running /\ left' = left
      BY <1>9, <2>3 DEF StepTimesOut
    <3> HIDE DEF k
    <3>3. queue' \in Seq(Who) /\ IsInjective(queue') /\ ToSet(queue') = ToSet(queue) \ {Loop}
      BY <1>0, <3>1, <3>2, Removed
    <3> QED
      BY <1>0, <2>1, <2>3, <3>2, <3>3 DEF PoolInv, PoolTypeOK
  <2> QED
    BY <2>2, <2>3
<1>10. ASSUME DueAgain PROVE PoolInv'
  BY <1>0, <1>10 DEF DueAgain, PoolInv, PoolTypeOK
<1> QED
  BY <1>1, <1>2, <1>3, <1>4, <1>5, <1>6, <1>7, <1>8, <1>9, <1>10 DEF PoolNext

-----------------------------------------------------------------------------
(* The other parts.                                                        *)

(* A caller that waits for the scan has one that runs.                     *)
LEMMA ScanStep ==
  ASSUME ScanTypeOK, ScanNext
  PROVE  ScanTypeOK'
BY DEF ScanTypeOK, ScanNext, Ask, Joins, ScanEnds, Expires

(* A file of the next batch has a timer or a batch that will look at it.   *)
LEMMA DebounceStep ==
  ASSUME DebounceTypeOK, DebounceNext
  PROVE  DebounceTypeOK'
<1> USE ChangesAssumption DEF DebounceTypeOK
<1>1. ASSUME NEW f \in Transcript, Change(f) PROVE DebounceTypeOK'
  <2>1. changes' \in 0..MaxChanges
    BY <1>1 DEF Change
  <2> QED
    BY <1>1, <2>1 DEF Change
<1>2. ASSUME NEW f \in Transcript, DrainEvent(f) \/ ReadFile(f) PROVE DebounceTypeOK'
  BY <1>2 DEF DrainEvent, ReadFile
<1>3. ASSUME TimerFires \/ BatchEnds PROVE DebounceTypeOK'
  BY <1>3 DEF TimerFires, BatchEnds, Kept
<1> QED
  BY <1>1, <1>2, <1>3 DEF DebounceNext

(* At most one kind of work has the embedding thread, and the transcripts  *)
(* have it only below the limit of their turns.                            *)
Active == {"thread", "retry", "embed"}

EmbedInv ==
  /\ work \in [Kind -> {"none", "throttle", "queued"} \cup Active]
  /\ \A j, k \in Kind : work[j] \in Active /\ work[k] \in Active => j = k
  /\ cooling \in BOOLEAN /\ embedPaused \in BOOLEAN
  /\ turnsDone \in 0..MaxTurns
  /\ work[Turns] = "embed" => turnsDone < MaxTurns

(* The invariant holds the types of the throttle.                          *)
LEMMA EmbedType ==
  ASSUME EmbedInv
  PROVE  EmbedTypeOK
<1> DEFINE S == {k \in Kind : work[k] \in Active}
<1>1. S = {} \/ \E k \in Kind : S = {k}
  BY DEF EmbedInv
<1>2. Cardinality(S) <= 1
  <2>1. CASE S = {}
    BY <2>1, FS_EmptySet
  <2>2. CASE \E k \in Kind : S = {k}
    BY <2>2, FS_Singleton
  <2> QED
    BY <1>1, <2>1, <2>2
<1> QED
  BY <1>2 DEF EmbedInv, EmbedTypeOK, Active

(* The throttle starts idle.                                               *)
LEMMA EmbedStart ==
  ASSUME EmbedInit
  PROVE  EmbedInv
<1>1. 0 \in 0..MaxTurns /\ Turns \in Kind
  BY TurnsAssumption DEF Kind
<1> QED
  BY <1>1 DEF EmbedInit, EmbedInv, Active

(* Every step of the throttle keeps its invariant.                         *)
LEMMA EmbedStep ==
  ASSUME EmbedInv, EmbedNext
  PROVE  EmbedInv'
<1> USE TurnsAssumption DEF EmbedInv, Goes, Active
<1>0. Turns \in Kind /\ Memory \in Kind
  BY DEF Kind
<1>1. ASSUME NEW k \in Kind, AskEmbed(k) PROVE EmbedInv'
  BY <1>0, <1>1 DEF AskEmbed
<1>2. ASSUME NEW k \in Kind, TakeThread(k) PROVE EmbedInv'
  <2>1. \A j \in Kind : work[j] \notin Active
    BY <1>2 DEF TakeThread, Free
  <2> QED
    BY <1>0, <1>2, <2>1 DEF TakeThread
<1>3. ASSUME NEW k \in Kind, BeginEmbed(k) PROVE EmbedInv'
  BY <1>0, <1>3 DEF BeginEmbed
<1>4. ASSUME NEW k \in Kind, EndEmbed(k) PROVE EmbedInv'
  <2>1. turnsDone' \in 0..MaxTurns
    BY <1>4 DEF EndEmbed
  <2>2. work'[Turns] # "embed"
    BY <1>0, <1>4 DEF EndEmbed
  <2> QED
    BY <1>0, <1>4, <2>1, <2>2 DEF EndEmbed
<1>5. ASSUME ThrottleWaited PROVE EmbedInv'
  BY <1>0, <1>5 DEF ThrottleWaited
<1>6. ASSUME BeforeBatch PROVE EmbedInv'
  <2>1. work[Turns] \in Active
    BY <1>6 DEF BeforeBatch
  <2>2. \E to \in {"none", "embed", "retry"} :
          work' = [work EXCEPT ![Turns] = to] /\ (to = "embed" => ~HardDenied /\ ~cooling)
    BY <1>6 DEF BeforeBatch
  <2>3. ~HardDenied => turnsDone < MaxTurns
    BY DEF HardDenied
  <2> QED
    BY <1>0, <1>6, <2>1, <2>2, <2>3 DEF BeforeBatch
<1>7. ASSUME CooldownEnds \/ PauseEmbeds PROVE EmbedInv'
  BY <1>7 DEF CooldownEnds, PauseEmbeds
<1> QED
  BY <1>1, <1>2, <1>3, <1>4, <1>5, <1>6, <1>7 DEF EmbedNext

(* Only a batch that found no cooldown begins.                             *)
LEMMA SpacedStep ==
  ASSUME EmbedInv, EmbedNext, NEW k \in Kind, work[k] # "embed", work'[k] = "embed"
  PROVE  ~cooling
<1> USE DEF EmbedInv, Goes
<1>1. ASSUME NEW j \in Kind, AskEmbed(j) \/ TakeThread(j) \/ EndEmbed(j) PROVE FALSE
  BY <1>1 DEF AskEmbed, TakeThread, EndEmbed
<1>2. ASSUME NEW j \in Kind, BeginEmbed(j) PROVE ~cooling
  BY <1>2 DEF BeginEmbed, Waited
<1>3. ASSUME ThrottleWaited \/ CooldownEnds \/ PauseEmbeds PROVE FALSE
  BY <1>3 DEF ThrottleWaited, CooldownEnds, PauseEmbeds
<1>4. ASSUME BeforeBatch PROVE ~cooling
  BY <1>4 DEF BeforeBatch
<1> QED
  BY <1>1, <1>2, <1>3, <1>4 DEF EmbedNext

(* A drain works on jobs that are queued, and has taken its current one    *)
(* off its list.                                                           *)
QueueTypeInv ==
  /\ QueueTypeOK
  /\ drain \in [by : {None, "worker", "run", "startup"}, todo : SUBSET Job, job : Job \cup {None}]
  /\ disk \in [jobs : SUBSET Job, paused : SUBSET Target]
  /\ drain.job # None => drain.job \notin drain.todo

(* The queue starts well typed.                                            *)
LEMMA QueueTypeStart ==
  ASSUME QueueInit
  PROVE  QueueTypeInv
<1>1. 0 \in 0..MaxStops
  BY StopsAssumption
<1> QED
  BY <1>1 DEF QueueInit, QueueTypeInv, QueueTypeOK, NoDrain

(* Every operation of the queue keeps its types.                           *)
LEMMA QueueTypeStep ==
  ASSUME QueueTypeInv, QueueNext
  PROVE  QueueTypeInv'
<1> USE DEF QueueTypeInv, QueueTypeOK
<1>0. /\ NoDrain \in [by : {None, "worker", "run", "startup"}, todo : SUBSET Job,
                      job : Job \cup {None}]
      /\ NoDrain.by = None /\ NoDrain.todo = {} /\ NoDrain.job = None
  BY DEF NoDrain
<1>a. ASSUME NEW new \in SUBSET Job, Queue(new)
      PROVE  /\ jobs' = jobs \cup new /\ jobs' \in SUBSET Job /\ owed' \in SUBSET Job
             /\ paused' = paused /\ disk' \in [jobs : SUBSET Job, paused : SUBSET Target]
  <2>1. jobs' = jobs \cup new /\ jobs' \in SUBSET Job /\ owed' \in SUBSET Job
        /\ paused' = paused
    BY <1>a DEF Queue
  <2>2. disk' = disk \/ disk' = [jobs |-> jobs', paused |-> paused']
    BY <1>a DEF Queue, Saved, Save
  <2> QED
    BY <2>1, <2>2
<1>b. ASSUME NEW by \in {"worker", "run", "startup"}, NEW some \in SUBSET Job, Drains(by, some)
      PROVE  /\ drain' \in [by : {None, "worker", "run", "startup"}, todo : SUBSET Job,
                            job : Job \cup {None}]
             /\ drain'.todo \subseteq some /\ drain'.job = None
  <2>1. drain' = NoDrain \/ drain' = [by |-> by, todo |-> some, job |-> None]
    BY <1>b DEF Drains
  <2> QED
    BY <1>0, <2>1
<1>1. ASSUME NEW p \in Provider, Enqueue(p) PROVE QueueTypeInv'
  <2>1. up
    BY <1>1 DEF Enqueue
  <2> QED
    BY <1>1, <1>a, <2>1, JobsType DEF Enqueue
<1>2. ASSUME Run PROVE QueueTypeInv'
  BY <1>2, <1>a, JobsType DEF Run
<1>3. ASSUME NEW t \in Target, Pause(t) PROVE QueueTypeInv'
  BY <1>3 DEF Pause, Save
<1>4. ASSUME NEW t \in Target, Resume(t) PROVE QueueTypeInv'
  BY <1>4 DEF Resume, Save
<1>5. ASSUME WorkerDrains PROVE QueueTypeInv'
  BY <1>0, <1>5, <1>b DEF WorkerDrains
<1>6. ASSUME RunDrains PROVE QueueTypeInv'
  <2>1. up /\ waiters' \subseteq {"run", "startup"}
    BY <1>6 DEF RunDrains
  <2>2. drain' \in [by : {None, "worker", "run", "startup"}, todo : SUBSET Job, job : Job \cup {None}]
        /\ drain'.todo \subseteq jobs /\ drain'.job = None
    BY <1>6, <1>b DEF RunDrains
  <2> QED
    BY <1>6, <2>1, <2>2 DEF RunDrains
<1>7. ASSUME StartupDrains PROVE QueueTypeInv'
  <2>1. up /\ waiters' \subseteq {"run", "startup"}
    BY <1>7 DEF StartupDrains
  <2>2. /\ jobs' \in SUBSET Job /\ owed' \in SUBSET Job /\ paused' = paused
        /\ disk' \in [jobs : SUBSET Job, paused : SUBSET Target]
    BY <1>7, <1>a, JobsType DEF StartupDrains
  <2>3. drain' \in [by : {None, "worker", "run", "startup"}, todo : SUBSET Job, job : Job \cup {None}]
        /\ drain'.todo \subseteq jobs' /\ drain'.job = None
    BY <1>7, <1>b, <2>2 DEF StartupDrains
  <2> QED
    BY <1>7, <2>1, <2>2, <2>3 DEF StartupDrains
<1>c. ASSUME NEW some \in SUBSET drain.todo
      PROVE  /\ Rests(some) \in [by : {None, "worker", "run", "startup"}, todo : SUBSET Job,
                                 job : Job \cup {None}]
             /\ Rests(some).todo = some /\ Rests(some).job = None
  BY <1>0 DEF Rests
<1>8. ASSUME NextJob PROVE QueueTypeInv'
  <2>1. drain # NoDrain /\ up
    BY <1>0, <1>8 DEF NextJob
  <2>2. PICK j \in drain.todo :
          drain' = IF j[1] \in paused THEN Rests(drain.todo \ {j})
                   ELSE [drain EXCEPT !.todo = @ \ {j}, !.job = j]
    BY <1>8 DEF NextJob, First
  <2>3. /\ drain' \in [by : {None, "worker", "run", "startup"}, todo : SUBSET Job,
                       job : Job \cup {None}]
        /\ drain'.todo = drain.todo \ {j} /\ drain'.job \in {None, j}
    BY <1>c, <2>2
  <2> QED
    BY <1>8, <2>1, <2>3 DEF NextJob
<1>9. ASSUME FinishJob PROVE QueueTypeInv'
  <2>1. drain # NoDrain /\ up
    BY <1>0, <1>9 DEF FinishJob
  <2>2. /\ drain' \in [by : {None, "worker", "run", "startup"}, todo : SUBSET Job,
                       job : Job \cup {None}]
        /\ drain'.todo = drain.todo /\ drain'.job = None
    BY <1>9, <1>c DEF FinishJob
  <2> QED
    BY <1>9, <2>1, <2>2 DEF FinishJob, Save
<1>d. ASSUME Down PROVE stops' \in 0..MaxStops
  BY <1>d, StopsAssumption DEF Down
<1>10. ASSUME Crash PROVE QueueTypeInv'
  BY <1>0, <1>d, <1>10 DEF Crash, Down
<1>11. ASSUME Shutdown PROVE QueueTypeInv'
  <2>1. disk' \in [jobs : SUBSET Job, paused : SUBSET Target] /\ owed' \in SUBSET Job
    BY <1>11 DEF Shutdown
  <2> QED
    BY <1>0, <1>d, <1>11, <2>1 DEF Shutdown, Down
<1>12. ASSUME Start PROVE QueueTypeInv'
  BY <1>0, <1>12 DEF Start
<1>13. ASSUME NEW t \in Target, CliPause(t) PROVE QueueTypeInv'
  BY <1>13 DEF CliPause
<1>14. ASSUME NEW t \in Target, CliResume(t) PROVE QueueTypeInv'
  BY <1>14 DEF CliResume
<1>15. ASSUME NEW p \in Provider, CliEnqueue(p) PROVE QueueTypeInv'
  BY <1>15, JobsType DEF CliEnqueue
<1> QED
  BY <1>1, <1>2, <1>3, <1>4, <1>5, <1>6, <1>7, <1>8, <1>9, <1>10, <1>11, <1>12, <1>13,
     <1>14, <1>15 DEF QueueNext

(* A row's version is one that the collection can hold.                    *)
LEMMA VersionType == \A row \in Row : Version(row) \in 0..2
BY DEF Row, Version

(* Every step of the restore check keeps its types.                        *)
LEMMA CheckTypeStep ==
  ASSUME CheckTypeOK, CheckNext
  PROVE  CheckTypeOK'
<1> USE DEF CheckTypeOK
<1>0. Empty \in [Record -> Row]
  BY DEF Empty, Row
<1>1. ASSUME Begin \/ DropStrays \/ Applied \/ Compare \/ Fail \/ Killed PROVE CheckTypeOK'
  BY <1>1 DEF Begin, DropStrays, Applied, Compare, Fail, Killed
<1>2. ASSUME ResetFts \/ Clean PROVE CheckTypeOK'
  BY <1>0, <1>2 DEF ResetFts, Reset, Clean
<1>3. ASSUME NEW r \in Record, Apply(r) PROVE CheckTypeOK'
  <2>1. held' \in [Record -> 0..2]
    BY <1>3, VersionType DEF Apply
  <2>2. lines' \in [Record -> Row]
    BY <1>3 DEF Apply
  <2> QED
    BY <1>3, <2>1, <2>2 DEF Apply
<1> QED
  BY <1>1, <1>2, <1>3 DEF CheckNext

-----------------------------------------------------------------------------
(* Theorems.                                                               *)

(* A step of one part leaves the queue and the check alone, or is theirs.  *)
LEMMA PartsApart ==
  ASSUME [Next]_vars
  PROVE  /\ QueueNext \/ UNCHANGED backfill
         /\ CheckNext \/ UNCHANGED check
BY DEF Next, vars, PoolMoves, ScanMoves, DebounceMoves, EmbedMoves, QueueMoves, CheckMoves

(* Both invariants hold of every behaviour of the server.                  *)
THEOREM Invariance == Spec => [](QueueInv /\ CheckInv)
<1>1. Init => QueueInv /\ CheckInv
  <2>1. CheckInit => CheckInv
    BY DEF CheckInit, CheckInv, Empty, Row, RestoreHonest
  <2>2. QED
    BY <2>1, QueueStart DEF Init
<1>2. QueueInv /\ CheckInv /\ [Next]_vars => (QueueInv /\ CheckInv)'
  <2>1. QueueInv /\ UNCHANGED backfill => QueueInv'
    BY DEF QueueInv, DownInv, DrainType, ToldInv, backfill
  <2>2. CheckInv /\ UNCHANGED check => CheckInv'
    BY DEF CheckInv, RestoreHonest, check
  <2>3. QED
    BY <2>1, <2>2, QueueStep, CheckStep, PartsApart
<1>3. QED
  BY <1>1, <1>2, PTL DEF Spec

(* A pause holds across crashes, shutdowns and restarts, whoever asked for *)
(* it, until it is resumed.                                                *)
THEOREM Paused == Spec => PauseHolds
<1>1. QueueInv /\ CheckInv /\ [Next]_vars =>
        [/\ drain'.job \notin {None, drain.job} => drain'.job[1] \notin told
         /\ drain.by = None /\ drain'.by # None => All \notin told]_vars
  <2>1. UNCHANGED backfill => drain' = drain
    BY DEF backfill
  <2>2. QED
    BY <2>1, PauseStep, PartsApart
<1>2. QED
  BY <1>1, Invariance, PTL DEF Spec, PauseHolds

(* The restore check says ok only of a database that holds each live       *)
(* record of the manifest as it was dumped.                                *)
THEOREM Honest == Spec => []RestoreHonest
<1>1. CheckInv => RestoreHonest
  BY DEF CheckInv
<1>2. QED
  BY <1>1, Invariance, PTL

TypeInv ==
  /\ part \in Part
  /\ PoolInv /\ ScanTypeOK /\ DebounceTypeOK
  /\ EmbedInv /\ QueueTypeInv /\ CheckTypeOK

(* Every part keeps its own types, and no other part's step touches them.  *)
THEOREM TypeCorrect == Spec => []TypeOK
<1>1. Init => TypeInv
  <2>1. ScanInit => ScanTypeOK
    BY DEF ScanInit, ScanTypeOK
  <2>2. DebounceInit => DebounceTypeOK
    <3>1. 0 \in 0..MaxChanges
      BY ChangesAssumption
    <3> QED
      BY <3>1 DEF DebounceInit, DebounceTypeOK
  <2>4. CheckInit => CheckTypeOK
    BY DEF CheckInit, CheckTypeOK, Empty, Row
  <2> QED
    BY <2>1, <2>2, <2>4, EmbedStart, PoolStart, QueueTypeStart DEF Init, TypeInv
<1>2. TypeInv /\ [Next]_vars => TypeInv'
  <2> SUFFICES ASSUME TypeInv, [Next]_vars PROVE TypeInv'
    OBVIOUS
  <2>1. part' = part
    BY DEF Next, vars, PoolMoves, ScanMoves, DebounceMoves, EmbedMoves, QueueMoves, CheckMoves
  <2>2. /\ PoolNext \/ UNCHANGED pool
        /\ ScanNext \/ UNCHANGED scan
        /\ DebounceNext \/ UNCHANGED debounce
        /\ EmbedNext \/ UNCHANGED embed
        /\ QueueNext \/ UNCHANGED backfill
        /\ CheckNext \/ UNCHANGED check
    BY DEF Next, vars, PoolMoves, ScanMoves, DebounceMoves, EmbedMoves, QueueMoves, CheckMoves
  <2>3. PoolInv'
    BY <2>2, PoolStep DEF TypeInv, PoolInv, PoolTypeOK, pool
  <2>4. ScanTypeOK'
    BY <2>2, ScanStep DEF TypeInv, ScanTypeOK, scan
  <2>5. DebounceTypeOK'
    BY <2>2, DebounceStep DEF TypeInv, DebounceTypeOK, debounce
  <2>6. EmbedInv'
    BY <2>2, EmbedStep DEF TypeInv, EmbedInv, embed
  <2>7. QueueTypeInv'
    <3>1. CASE QueueNext
      BY <3>1, QueueTypeStep DEF TypeInv
    <3>2. CASE UNCHANGED backfill
      BY <3>2 DEF TypeInv, QueueTypeInv, QueueTypeOK, backfill
    <3> QED
      BY <2>2, <3>1, <3>2
  <2>8. CheckTypeOK'
    BY <2>2, CheckTypeStep DEF TypeInv, CheckTypeOK, check
  <2> QED
    BY <2>1, <2>3, <2>4, <2>5, <2>6, <2>7, <2>8 DEF TypeInv
<1>3. TypeInv => TypeOK
  BY EmbedType DEF TypeInv, TypeOK, PoolInv, QueueTypeInv
<1> QED
  BY <1>1, <1>2, <1>3, PTL DEF Spec

(* No batch of any kind begins in the cooldown that another has left.      *)
THEOREM Spaced == Spec => EmbedSpaced
<1>1. Init => EmbedInv
  BY EmbedStart DEF Init
<1>2. EmbedInv /\ [Next]_vars => EmbedInv' /\ (EmbedNext \/ UNCHANGED embed)
  BY EmbedStep DEF EmbedInv, embed, Next, vars, PoolMoves, ScanMoves, DebounceMoves,
     EmbedMoves, QueueMoves, CheckMoves
<1>3. EmbedInv /\ [Next]_vars =>
        [\A k \in Kind : work[k] # "embed" /\ work'[k] = "embed" => ~cooling]_vars
  BY <1>2, SpacedStep DEF embed
<1> QED
  BY <1>1, <1>2, <1>3, PTL DEF Spec, EmbedSpaced
=============================================================================
