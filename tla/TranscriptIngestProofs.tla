---------------------- MODULE TranscriptIngestProofs ----------------------
(***************************************************************************)
(* Proofs about TranscriptIngest for every set of transcripts, every       *)
(* script, every set of coroutines that run together and every bound on    *)
(* faults.                                                                 *)
(*                                                                         *)
(* The argument: turns are added in the order in which files were read, so *)
(* a queued turn has every reply that a stored one has and that an earlier *)
(* queued one has (OrderInv).  A row is removed only while a landed turn   *)
(* has its place and at least its replies (LandedInv), hence never one in  *)
(* its latest version.  An offset is that of a turn that may still grow or *)
(* follows no such turn, so what comes before it is final (CursorInv);     *)
(* what a coroutine carries past its old offset it adds before the copy of *)
(* the cursors moves on (CarriedInv).                                      *)
(***************************************************************************)
EXTENDS TranscriptIngest, SourceProofs

-----------------------------------------------------------------------------
(* The inductive invariant.                                                *)

TaskState ==
  [pc : {"idle", "read", "queued", "landed", "added", "failed"}, copy : State,
   todo : SUBSET File, file : File \cup {None}, turns : SUBSET Turn, cursor : Cursor]

TypeInv ==
  /\ lines \in [File -> Seq(LineKind)]
  /\ disk \in State
  /\ rows \subseteq Row /\ deferred \subseteq Row /\ untidy \subseteq File \X Nat
  /\ pending \subseteq File
  /\ queued \in BOOLEAN
  /\ task \in [Task -> TaskState]
  /\ addq \in Seq(Task)
  /\ running \in Task \cup {None}
  /\ faults \in 0..MaxFaults

Carrying(k) == task[k].pc \in {"queued", "landed"}

(* Who waits for the semaphore does so once, and the first may have landed.*)
QueueInv ==
  /\ \A i, j \in 1..Len(addq) : addq[i] = addq[j] => i = j
  /\ \A k \in Task : Carrying(k) <=> \E i \in 1..Len(addq) : addq[i] = k
  /\ \A k \in Task : task[k].pc = "landed" => addq[1] = k
  /\ \A k \in Task : task[k].pc \notin {"idle", "read"} => task[k].file \in File

(* Turns that are stored or carried were read of the transcript.           *)
VersionInv ==
  /\ \A r \in rows : Version(lines[r.file], r.turn)
  /\ \A k \in Task : Carrying(k) =>
       \A t \in task[k].turns :
         /\ Version(lines[task[k].file], t)
         /\ \A s \in task[k].turns : s.at = t.at => s = t

(* A carried turn has the replies of a stored one.                         *)
FreshInv ==
  \A k \in Task : Carrying(k) =>
    \A r \in rows, t \in task[k].turns :
      r.file = task[k].file /\ r.turn.at = t.at => r.turn.replies \subseteq t.replies

(* It has those of one ahead of it, too.                                   *)
BehindInv ==
  \A i, j \in 1..Len(addq) : i < j /\ task[addq[i]].file = task[addq[j]].file =>
    \A s \in task[addq[i]].turns, t \in task[addq[j]].turns :
      s.at = t.at => s.replies \subseteq t.replies

OrderInv == FreshInv /\ BehindInv

LandedInv == \A k \in Task : task[k].pc = "landed" => RowsOf(k) \subseteq rows

(* Two versions of a turn are stored only while or after an add left them. *)
OneInv ==
  \A r, s \in rows : Place(r) = Place(s) =>
    \/ r = s \/ Place(r) \in untidy
    \/ \E k \in Task : task[k].pc = "landed" /\ \E l \in Landed(k) : Place(l) = Place(r)

IsStored(f, t) == [file |-> f, turn |-> t] \in rows \cup deferred

Due(f, p, t) == Latest(lines[f], t) /\ t.at < p /\ WouldStore(lines[f], t)

(* What comes before an offset is final, and stored.                       *)
Done(f, p) == Closed(lines[f], p) /\ \A t : Due(f, p, t) => IsStored(f, t)

(* So it is before every offset, on disk and in a coroutine's copy.        *)
CursorInv ==
  \A f \in File :
    /\ Done(f, disk[f].path.resume) /\ Done(f, disk[f].source.resume)
    /\ \A k \in Task : Done(f, task[k].copy[f].path.resume) /\ Done(f, task[k].copy[f].source.resume)

(* What comes before the offset a coroutine will go on from is stored or   *)
(* carried; once its turns have landed it is stored.                       *)
CarriedInv ==
  \A k \in Task :
    LET f == task[k].file
        p == task[k].cursor.resume
    IN  /\ task[k].pc = "queued" =>
             /\ Closed(lines[f], p)
             /\ \A t : Due(f, p, t) => IsStored(f, t) \/ t \in task[k].turns
        /\ task[k].pc \in {"landed", "added"} => Done(f, p)

IInv == TypeInv /\ QueueInv /\ VersionInv /\ OrderInv /\ LandedInv /\ OneInv /\ CursorInv /\ CarriedInv

-----------------------------------------------------------------------------
(* Cursors and copies of them.                                             *)

(* Nothing starts before the start of a transcript.                        *)
LEMMA DoneAtStart ==
  ASSUME TypeInv, NEW f \in File
  PROVE  Done(f, 0)
<1>1. lines[f] \in Seq(LineKind)
  BY DEF TypeInv
<1>2. Closed(lines[f], 0)
  BY <1>1 DEF Closed
<1>3. \A t : ~Due(f, 0, t)
  BY DEF Due, Latest, Version, Turn
<1>4. QED
  BY <1>2, <1>3 DEF Done

(* A provider without a cursor resumes from the start.                     *)
LEMMA NoCursorFits == NoCursor \in Cursor /\ NoCursor.resume = 0
BY DEF NoCursor, Cursor

(* What every copy of the cursors has to satisfy.                          *)
Sound(copy) ==
  \A f \in File : Done(f, copy[f].path.resume) /\ Done(f, copy[f].source.resume)

(* What a task loads from a sound file is sound.                           *)
LEMMA LoadedSound ==
  ASSUME TypeInv, CursorInv
  PROVE  Loaded \in State /\ Sound(Loaded)
<1>1. ASSUME NEW f \in File
      PROVE  /\ Loaded[f] \in [path : Cursor, source : Cursor]
             /\ Done(f, Loaded[f].path.resume) /\ Done(f, Loaded[f].source.resume)
  <2>1. disk[f] \in [path : Cursor, source : Cursor]
    BY DEF TypeInv, State
  <2>2. Done(f, disk[f].path.resume) /\ Done(f, disk[f].source.resume)
    BY DEF CursorInv
  <2>3. CASE disk[f].source = NoCursor /\ disk[f].path # NoCursor
    <3> DEFINE c == [resume |-> disk[f].path.resume, consumed |-> 0]
    <3>1. c \in Cursor /\ c.resume = disk[f].path.resume
      BY <2>1 DEF Cursor
    <3>2. Loaded[f] = [disk[f] EXCEPT !.source = c]
      BY <2>3 DEF Loaded
    <3> HIDE DEF c
    <3>3. Loaded[f] = [path |-> disk[f].path, source |-> c]
      BY <2>1, <3>2
    <3>4. QED
      BY <2>1, <2>2, <3>1, <3>3
  <2>4. CASE ~(disk[f].source = NoCursor /\ disk[f].path # NoCursor)
    <3>1. Loaded[f] = disk[f]
      BY <2>4 DEF Loaded
    <3>2. QED
      BY <2>1, <2>2, <3>1
  <2>5. QED
    BY <2>3, <2>4
<1>2. Loaded = [f \in File |-> Loaded[f]]
  BY DEF Loaded
<1>3. Loaded \in State
  BY <1>1, <1>2 DEF State
<1>4. QED
  BY <1>1, <1>3 DEF Sound

(* The cursor that a task finds is that of its copy.                       *)
LEMMA CursorOfIs ==
  ASSUME TypeInv, CursorInv, NEW k \in Task, NEW f \in File
  PROVE  CursorOf(k, f) \in Cursor /\ Done(f, CursorOf(k, f).resume)
<1>1. task[k].copy[f] \in [path : Cursor, source : Cursor]
  BY DEF TypeInv, TaskState, State
<1>2. QED
  BY <1>1 DEF CursorOf, CursorInv

(* A copy with a sound cursor put in is sound.                             *)
LEMMA WithCursorSound ==
  ASSUME TypeInv, CursorInv, NEW k \in Task, NEW f \in File, NEW c \in Cursor, Done(f, c.resume)
  PROVE  WithCursor(k, f, c) \in State /\ Sound(WithCursor(k, f, c))
<1> DEFINE copy == task[k].copy
           new == WithCursor(k, f, c)
<1>1. copy \in State /\ copy[f] \in [path : Cursor, source : Cursor]
  BY DEF TypeInv, TaskState, State
<1>2. \A g \in File : Done(g, copy[g].path.resume) /\ Done(g, copy[g].source.resume)
  BY DEF CursorInv
<1>3. new = [copy EXCEPT ![f] = IF k = "job" THEN [copy[f] EXCEPT !.source = c]
                                ELSE [copy[f] EXCEPT !.path = c]]
  BY <1>1 DEF WithCursor
<1> DEFINE entry == IF k = "job" THEN [copy[f] EXCEPT !.source = c] ELSE [copy[f] EXCEPT !.path = c]
<1> HIDE DEF new, copy
<1>4. /\ entry \in [path : Cursor, source : Cursor]
      /\ Done(f, entry.path.resume) /\ Done(f, entry.source.resume)
  BY <1>1, <1>2
<1> HIDE DEF entry
<1>5. new = [copy EXCEPT ![f] = entry]
  BY <1>3 DEF entry
<1>6. new \in State /\ new[f] = entry /\ \A g \in File \ {f} : new[g] = copy[g]
  BY <1>1, <1>4, <1>5 DEF State
<1>7. Sound(new)
  BY <1>2, <1>4, <1>6 DEF Sound
<1>8. QED
  BY <1>6, <1>7 DEF new

(* A task at rest carries nothing, and its copy is sound.                  *)
LEMMA IdleFits ==
  ASSUME TypeInv
  PROVE  Idle \in TaskState /\ Sound(Idle.copy) /\ Idle.pc = "idle"
<1> DEFINE none == [f \in File |-> [path |-> NoCursor, source |-> NoCursor]]
<1>1. none \in State
  BY NoCursorFits DEF State
<1>2. \A f \in File : none[f].path.resume = 0 /\ none[f].source.resume = 0
  BY NoCursorFits
<1>3. Sound(none)
  BY <1>2, DoneAtStart DEF Sound
<1> HIDE DEF none
<1>4. Idle = [pc |-> "idle", copy |-> none, todo |-> {}, file |-> None, turns |-> {}, cursor |-> NoCursor]
  BY DEF Idle, none
<1>5. Idle \in TaskState /\ Idle.copy = none /\ Idle.pc = "idle"
  BY <1>1, <1>4, NoCursorFits DEF TaskState
<1>6. QED
  BY <1>3, <1>5

(* What a parse at a coroutine's cursor finds: the latest versions, and    *)
(* all that is due before the offset to go on from.                        *)
LEMMA ReadGives ==
  ASSUME TypeInv, CursorInv, NEW k \in Task, NEW f \in File
  PROVE  LET start == CursorOf(k, f).resume
             p == Parse(lines[f], FALSE, start)
             c == [resume |-> p.resume, consumed |-> p.consumed]
         IN  /\ c \in Cursor /\ p.turns \subseteq Turn
             /\ Closed(lines[f], c.resume)
             /\ \A t \in p.turns : Latest(lines[f], t)
             /\ \A t : Due(f, c.resume, t) => IsStored(f, t) \/ t \in p.turns
<1> DEFINE start == CursorOf(k, f).resume
           p == Parse(lines[f], FALSE, start)
           c == [resume |-> p.resume, consumed |-> p.consumed]
<1>1. lines[f] \in Seq(LineKind)
  BY DEF TypeInv
<1>2. CursorOf(k, f) \in Cursor /\ Done(f, start)
  BY CursorOfIs
<1>3. start \in 0..Len(lines[f]) /\ Closed(lines[f], start)
  BY <1>2 DEF Done, Closed
<1>4. FALSE \in BOOLEAN
  OBVIOUS
<1>5. p.consumed \in Nat /\ p.resume \in start..Len(lines[f]) /\ Closed(lines[f], p.resume)
  BY <1>1, <1>3, <1>4, ParseResumes
<1>6. \A t : t \in p.turns <=> Latest(lines[f], t) /\ start <= t.at
  BY <1>1, <1>3, WholeParse
<1> HIDE DEF start, p
<1>7. c \in Cursor /\ c.resume = p.resume
  BY <1>3, <1>5 DEF Cursor
<1>8. p.turns \subseteq Turn
  BY <1>6 DEF Latest, Version
<1>9. ASSUME NEW t, Due(f, p.resume, t) PROVE IsStored(f, t) \/ t \in p.turns
  <2>1. Latest(lines[f], t) /\ t.at \in Nat
    BY <1>9 DEF Due, Latest, Version, Turn
  <2>2. CASE t.at < start
    BY <1>2, <1>9, <2>2 DEF Done, Due
  <2>3. CASE start <= t.at
    BY <1>6, <2>1, <2>3
  <2>4. QED
    BY <1>3, <2>1, <2>2, <2>3
<1>10. QED
  BY <1>5, <1>6, <1>7, <1>8, <1>9 DEF start, p

-----------------------------------------------------------------------------
(* Steps of one coroutine that stores nothing and carries nothing after.   *)

QuietFor(k) ==
  /\ UNCHANGED <<lines, rows, addq, deferred, untidy>>
  /\ ~Carrying(k)
  /\ task' \in [Task -> TaskState]
  /\ \A j \in Task \ {k} : task'[j] = task[j]
  /\ task'[k].pc \in {"idle", "read"}
  /\ Sound(task'[k].copy)
  /\ disk' \in {disk, task[k].copy}

(* A step of a task that holds no turns and adds none keeps the            *)
(* invariant.                                                              *)
LEMMA QuietStep ==
  ASSUME IInv, NEW k \in Task, QuietFor(k)
  PROVE  QueueInv' /\ VersionInv' /\ OrderInv' /\ LandedInv' /\ OneInv' /\ CursorInv' /\ CarriedInv'
<1>1. /\ lines' = lines /\ rows' = rows /\ addq' = addq /\ deferred' = deferred /\ untidy' = untidy
      /\ task[k].pc \notin {"queued", "landed"} /\ task'[k].pc \in {"idle", "read"}
      /\ \A j \in Task \ {k} : task'[j] = task[j]
  BY DEF QuietFor, Carrying
<1>2. \A j \in Task : /\ Carrying(j)' <=> Carrying(j)
                      /\ Carrying(j) => task'[j] = task[j]
                      /\ task'[j].pc = "landed" <=> task[j].pc = "landed"
  BY <1>1 DEF Carrying
<1>3. \A f : \A t : (IsStored(f, t)' <=> IsStored(f, t)) /\ \A p : (Due(f, p, t)' <=> Due(f, p, t))
  BY <1>1 DEF IsStored, Due
<1>4. \A f, p : Done(f, p)' <=> Done(f, p)
  BY <1>1, <1>3 DEF Done
<1>5. QueueInv'
  BY <1>1, <1>2 DEF IInv, QueueInv
<1>6. VersionInv'
  BY <1>1, <1>2 DEF IInv, VersionInv
<1>7. OrderInv'
  <2>1. \A i \in 1..Len(addq) : addq[i] \in Task /\ Carrying(addq[i])
    BY DEF IInv, TypeInv, QueueInv
  <2>2. FreshInv'
    BY <1>1, <1>2 DEF IInv, OrderInv, FreshInv
  <2>3. BehindInv'
    BY <1>1, <1>2, <2>1 DEF IInv, OrderInv, BehindInv
  <2>4. QED
    BY <2>2, <2>3 DEF OrderInv
<1>8. \A j \in Task : Carrying(j) => RowsOf(j)' = RowsOf(j) /\ Landed(j)' = Landed(j)
  BY <1>2 DEF RowsOf, Landed
<1>9. LandedInv'
  BY <1>1, <1>2, <1>8 DEF IInv, LandedInv, Carrying
<1>10. OneInv'
  BY <1>1, <1>2, <1>8 DEF IInv, OneInv, Carrying, Place
<1>11. CursorInv'
  <2>1. ASSUME NEW f \in File
        PROVE  Done(f, disk'[f].path.resume) /\ Done(f, disk'[f].source.resume)
    BY DEF IInv, CursorInv, QuietFor
  <2>2. ASSUME NEW f \in File, NEW j \in Task
        PROVE  Done(f, task'[j].copy[f].path.resume) /\ Done(f, task'[j].copy[f].source.resume)
    <3>1. CASE j = k
      BY <3>1 DEF QuietFor, Sound
    <3>2. CASE j # k
      BY <1>1, <3>2 DEF IInv, CursorInv
    <3>3. QED
      BY <3>1, <3>2
  <2>3. QED
    BY <1>4, <2>1, <2>2 DEF CursorInv
<1>12. CarriedInv'
  <2>1. ASSUME NEW j \in Task, task'[j].pc \in {"queued", "landed", "added"}
        PROVE  task'[j] = task[j]
    BY <1>1, <2>1
  <2>2. QED
    BY <1>1, <1>3, <1>4, <2>1 DEF IInv, CarriedInv
<1>13. QED
  BY <1>5, <1>6, <1>7, <1>9, <1>10, <1>11, <1>12

(* A coroutine begins with a copy of the cursors as they are on disk.      *)
LEMMA BeginStep ==
  ASSUME IInv, NEW k \in Task, NEW todo \in SUBSET File, Begin(k, todo), pending' \in SUBSET File
  PROVE  IInv'
<1>1. /\ task[k].pc = "idle" /\ running' = k
      /\ task' = [task EXCEPT ![k] = [Idle EXCEPT !.pc = "read", !.copy = Loaded, !.todo = todo]]
      /\ UNCHANGED <<lines, disk, rows, queued, addq, deferred, untidy, faults>>
  BY DEF Begin
<1>2. Loaded \in State /\ Sound(Loaded)
  BY LoadedSound DEF IInv
<1> DEFINE new == [Idle EXCEPT !.pc = "read", !.copy = Loaded, !.todo = todo]
<1>3. new \in TaskState /\ new.pc = "read" /\ new.copy = Loaded
  BY <1>2, IdleFits DEF IInv, TaskState
<1> HIDE DEF new
<1>4. /\ task' \in [Task -> TaskState] /\ task'[k] = new
      /\ \A j \in Task \ {k} : task'[j] = task[j]
  BY <1>1, <1>3 DEF IInv, TypeInv, new
<1>5. QuietFor(k)
  BY <1>1, <1>2, <1>3, <1>4 DEF QuietFor, Carrying
<1>6. TypeInv'
  BY <1>1, <1>4 DEF IInv, TypeInv
<1>7. QED
  BY <1>5, <1>6, QuietStep DEF IInv

(* A task that leaves a file out keeps the invariant.                      *)
LEMMA SkipStep ==
  ASSUME IInv, NEW k \in Task, NEW f \in File, Skip(k, f)
  PROVE  IInv'
<1>1. /\ task[k].pc = "read" /\ running' = k
      /\ task' = [task EXCEPT ![k].todo = @ \ {f}]
      /\ UNCHANGED <<lines, disk, rows, pending, queued, addq, deferred, untidy, faults>>
  BY DEF Skip
<1>2. task[k] \in TaskState /\ task \in [Task -> TaskState]
  BY DEF IInv, TypeInv
<1> DEFINE new == [task[k] EXCEPT !.todo = @ \ {f}]
<1>3. new \in TaskState /\ new.pc = "read" /\ new.copy = task[k].copy
  BY <1>1, <1>2 DEF TaskState
<1>4. task' = [task EXCEPT ![k] = new]
  BY <1>1
<1> HIDE DEF new
<1>5. /\ task' \in [Task -> TaskState] /\ task'[k] = new
      /\ \A j \in Task \ {k} : task'[j] = task[j]
  BY <1>2, <1>3, <1>4
<1>6. Sound(task[k].copy)
  BY DEF IInv, CursorInv, Sound
<1>7. QuietFor(k)
  BY <1>1, <1>3, <1>5, <1>6 DEF QuietFor, Carrying
<1>8. TypeInv'
  BY <1>1, <1>5 DEF IInv, TypeInv
<1>9. QED
  BY <1>7, <1>8, QuietStep DEF IInv

(* The copy's cursor moves on if the turns were added, and stays if not.   *)
LEMMA ResumeStep ==
  ASSUME IInv, NEW k \in Task, Resume(k)
  PROVE  IInv'
<1> DEFINE f == task[k].file
           moved == IF Moves(k) THEN WithCursor(k, f, task[k].cursor) ELSE task[k].copy
           new == [Idle EXCEPT !.pc = "read", !.todo = task[k].todo \ {f}, !.copy = moved]
<1>1. /\ task[k].pc \in {"added", "failed"} /\ running' \in {None, k}
      /\ task' = [task EXCEPT ![k] = Idle] \/ task' = [task EXCEPT ![k] = new]
      /\ UNCHANGED <<lines, disk, rows, pending, queued, addq, deferred, untidy, faults>>
  BY DEF Resume
<1>2. task[k] \in TaskState /\ task \in [Task -> TaskState] /\ f \in File
  BY <1>1 DEF IInv, TypeInv, QueueInv
<1>3. task[k].copy \in State /\ task[k].cursor \in Cursor /\ task[k].todo \in SUBSET File
  BY <1>2 DEF TaskState
<1>4. Sound(task[k].copy)
  BY DEF IInv, CursorInv, Sound
<1>5. moved \in State /\ Sound(moved)
  <2>1. CASE Moves(k)
    <3>1. Done(f, task[k].cursor.resume)
      BY <2>1 DEF Moves, IInv, CarriedInv
    <3>2. QED
      BY <1>2, <1>3, <2>1, <3>1, WithCursorSound DEF IInv
  <2>2. CASE ~Moves(k)
    BY <1>3, <1>4, <2>2
  <2>3. QED
    BY <2>1, <2>2
<1> HIDE DEF moved
<1>6. /\ Idle \in TaskState /\ Idle.pc = "idle" /\ Sound(Idle.copy)
      /\ new \in TaskState /\ new.pc = "read" /\ new.copy = moved
  BY <1>3, <1>5, IdleFits DEF IInv, TaskState
<1> HIDE DEF new, f
<1>7. /\ task' \in [Task -> TaskState] /\ task'[k] \in {Idle, new}
      /\ \A j \in Task \ {k} : task'[j] = task[j]
  BY <1>1, <1>2, <1>6
<1>8. QuietFor(k)
  BY <1>1, <1>5, <1>6, <1>7 DEF QuietFor, Carrying
<1>9. TypeInv'
  BY <1>1, <1>7 DEF IInv, TypeInv
<1>10. QED
  BY <1>8, <1>9, QuietStep DEF IInv

(* A task that saves its copy keeps the invariant.                         *)
LEMMA FinishStep ==
  ASSUME IInv, NEW k \in Task, Finish(k)
  PROVE  IInv'
<1>1. /\ task[k].pc = "read" /\ disk' = task[k].copy /\ running' = None
      /\ task' = [task EXCEPT ![k] = Idle] /\ queued' = (queued /\ k # "job")
      /\ UNCHANGED <<lines, rows, pending, addq, deferred, untidy, faults>>
  BY DEF Finish
<1>2. task[k].copy \in State /\ task \in [Task -> TaskState] /\ queued \in BOOLEAN
  BY DEF IInv, TypeInv, TaskState
<1>3. Idle \in TaskState /\ Idle.pc = "idle" /\ Sound(Idle.copy)
  BY IdleFits DEF IInv
<1>4. /\ task' \in [Task -> TaskState] /\ task'[k] = Idle
      /\ \A j \in Task \ {k} : task'[j] = task[j]
  BY <1>1, <1>2, <1>3
<1>5. QuietFor(k)
  BY <1>1, <1>3, <1>4 DEF QuietFor, Carrying
<1>6. queued' \in BOOLEAN
  BY <1>1
<1>7. TypeInv'
  BY <1>1, <1>2, <1>4, <1>6 DEF IInv, TypeInv
<1>8. QED
  BY <1>5, <1>7, QuietStep DEF IInv

(* A file that holds nothing new: the cursor moves on.                     *)
LEMMA ReadNothing ==
  ASSUME IInv, NEW k \in Task, NEW f \in File, Read(k, f),
         Parse(lines[f], FALSE, CursorOf(k, f).resume).turns = {}
  PROVE  IInv'
<1> DEFINE p == Parse(lines[f], FALSE, CursorOf(k, f).resume)
           c == [resume |-> p.resume, consumed |-> p.consumed]
           moved == WithCursor(k, f, c)
           new == [task[k] EXCEPT !.copy = moved, !.todo = @ \ {f}]
<1>1. /\ task[k].pc = "read" /\ running' \in {None, k} /\ addq' = addq
      /\ task' = [task EXCEPT ![k] = new]
      /\ UNCHANGED <<lines, disk, rows, pending, queued, deferred, untidy, faults>>
  BY DEF Read
<1>2. /\ c \in Cursor /\ Closed(lines[f], c.resume)
      /\ \A t : Due(f, c.resume, t) => IsStored(f, t) \/ t \in p.turns
  BY ReadGives DEF IInv
<1>3. p.turns = {}
  OBVIOUS
<1> HIDE DEF p, c, moved
<1>4. Done(f, c.resume)
  BY <1>2, <1>3 DEF Done
<1>5. moved \in State /\ Sound(moved)
  BY <1>2, <1>4, WithCursorSound DEF IInv, moved
<1>6. task[k] \in TaskState /\ task \in [Task -> TaskState]
  BY DEF IInv, TypeInv
<1>7. new \in TaskState /\ new.pc = "read" /\ new.copy = moved
  BY <1>1, <1>5, <1>6 DEF TaskState
<1> HIDE DEF new
<1>8. /\ task' \in [Task -> TaskState] /\ task'[k] = new
      /\ \A j \in Task \ {k} : task'[j] = task[j]
  BY <1>1, <1>6, <1>7
<1>9. QuietFor(k)
  BY <1>1, <1>5, <1>7, <1>8 DEF QuietFor, Carrying
<1>10. TypeInv'
  BY <1>1, <1>8 DEF IInv, TypeInv
<1>11. QED
  BY <1>9, <1>10, QuietStep DEF IInv

(* A queue with one entry more is in order when the entry is.              *)
LEMMA Appended ==
  ASSUME NEW S, NEW q \in Seq(S), NEW x \in S
  PROVE  /\ Append(q, x) \in Seq(S) /\ Len(Append(q, x)) = Len(q) + 1 /\ Len(q) \in Nat
         /\ \A i \in 1..Len(q) : Append(q, x)[i] = q[i]
         /\ Append(q, x)[Len(q) + 1] = x
OBVIOUS

(* A file with turns: they wait behind those read before.                  *)
LEMMA ReadTurns ==
  ASSUME IInv, NEW k \in Task, NEW f \in File, Read(k, f),
         Parse(lines[f], FALSE, CursorOf(k, f).resume).turns # {}
  PROVE  IInv'
<1> DEFINE p == Parse(lines[f], FALSE, CursorOf(k, f).resume)
           c == [resume |-> p.resume, consumed |-> p.consumed]
           new == [task[k] EXCEPT !.pc = "queued", !.file = f, !.turns = p.turns, !.cursor = c]
           n == Len(addq)
<1>1. /\ task[k].pc = "read" /\ running' = None /\ addq' = Append(addq, k)
      /\ task' = [task EXCEPT ![k] = new]
      /\ UNCHANGED <<lines, disk, rows, pending, queued, deferred, untidy, faults>>
  BY DEF Read, Enqueued
<1>2. /\ c \in Cursor /\ p.turns \subseteq Turn /\ Closed(lines[f], c.resume)
      /\ \A t \in p.turns : Latest(lines[f], t)
      /\ \A t : Due(f, c.resume, t) => IsStored(f, t) \/ t \in p.turns
  BY ReadGives DEF IInv
<1> HIDE DEF p, c
<1>3. task[k] \in TaskState /\ task \in [Task -> TaskState] /\ addq \in Seq(Task) /\ lines[f] \in Seq(LineKind)
  BY DEF IInv, TypeInv
<1>4. /\ new \in TaskState /\ new.pc = "queued" /\ new.copy = task[k].copy /\ new.file = f
      /\ new.turns = p.turns /\ new.cursor = c
  BY <1>2, <1>3 DEF TaskState
<1> HIDE DEF new
<1>5. /\ task' \in [Task -> TaskState] /\ task'[k] = new
      /\ \A j \in Task \ {k} : task'[j] = task[j]
  BY <1>1, <1>3, <1>4
<1>6. /\ addq' \in Seq(Task) /\ Len(addq') = n + 1 /\ n \in Nat
      /\ \A i \in 1..n : addq'[i] = addq[i]
      /\ addq'[n + 1] = k
  BY <1>1, <1>3, Appended
<1>7. /\ \A i \in 1..n : addq[i] \in Task /\ Carrying(addq[i]) /\ addq[i] # k
      /\ ~Carrying(k) /\ Carrying(k)'
  BY <1>1, <1>3, <1>4, <1>5 DEF IInv, QueueInv, Carrying
<1>8. \A j \in Task \ {k} : (Carrying(j)' <=> Carrying(j)) /\ (task'[j].pc = "landed" <=> task[j].pc = "landed")
  BY <1>5 DEF Carrying
<1>9. TypeInv'
  BY <1>1, <1>5, <1>6 DEF IInv, TypeInv
<1>10. \A i \in 1..(n + 1) : i = n + 1 \/ i \in 1..n
  BY <1>6
<1>11. QueueInv'
  <2>1. \A i, j \in 1..Len(addq') : addq'[i] = addq'[j] => i = j
    BY <1>6, <1>7, <1>10 DEF IInv, QueueInv
  <2>2. ASSUME NEW j \in Task PROVE Carrying(j)' <=> \E i \in 1..Len(addq') : addq'[i] = j
    <3>1. CASE j = k
      BY <1>6, <1>7, <3>1
    <3>2. CASE j # k
      BY <1>6, <1>8, <1>10, <3>2 DEF IInv, QueueInv
    <3>3. QED
      BY <3>1, <3>2
  <2>3. ASSUME NEW j \in Task, task'[j].pc = "landed" PROVE addq'[1] = j
    <3>1. j # k /\ task[j].pc = "landed"
      BY <1>4, <1>5, <2>3
    <3>2. addq[1] = j /\ \E i \in 1..n : addq[i] = j
      BY <3>1 DEF IInv, QueueInv, Carrying
    <3>3. 1 \in 1..n
      BY <1>6, <3>2
    <3>4. QED
      BY <1>6, <3>2, <3>3
  <2>4. \A j \in Task : task'[j].pc \notin {"idle", "read"} => task'[j].file \in File
    BY <1>4, <1>5 DEF IInv, QueueInv
  <2>5. QED
    BY <2>1, <2>2, <2>3, <2>4 DEF QueueInv
<1>12. \A t \in p.turns : Version(lines[f], t)
  BY <1>2 DEF Latest
<1>13. VersionInv'
  <2>1. \A s, t \in p.turns : s.at = t.at => s = t
    BY <1>2, <1>3, <1>12, OneTurn
  <2>2. \A r \in rows' : Version(lines'[r.file], r.turn)
    BY <1>1 DEF IInv, VersionInv
  <2>3. ASSUME NEW j \in Task, Carrying(j)', NEW t \in task'[j].turns
        PROVE  /\ Version(lines'[task'[j].file], t)
               /\ \A s \in task'[j].turns : s.at = t.at => s = t
    <3>1. CASE j = k
      BY <1>1, <1>4, <1>5, <1>12, <2>1, <2>3, <3>1
    <3>2. CASE j # k
      BY <1>1, <1>5, <1>8, <2>3, <3>2 DEF IInv, VersionInv
    <3>3. QED
      BY <3>1, <3>2
  <2>4. QED
    BY <2>2, <2>3 DEF VersionInv
<1>14. \A s, t : Version(lines[f], s) /\ t \in p.turns /\ s.at = t.at => s.replies \subseteq t.replies
  BY <1>2, <1>3, <1>12, OneTurn
<1>15. OrderInv'
  <2>1. ASSUME NEW j \in Task, Carrying(j)', NEW r \in rows', NEW t \in task'[j].turns,
               r.file = task'[j].file, r.turn.at = t.at
        PROVE  r.turn.replies \subseteq t.replies
    <3>1. CASE j = k
      BY <1>1, <1>4, <1>5, <1>14, <2>1, <3>1 DEF IInv, VersionInv
    <3>2. CASE j # k
      BY <1>1, <1>5, <1>8, <2>1, <3>2 DEF IInv, OrderInv, FreshInv, BehindInv
    <3>3. QED
      BY <3>1, <3>2
  <2>2. ASSUME NEW i \in 1..Len(addq'), NEW j \in 1..Len(addq'), i < j,
               task'[addq'[i]].file = task'[addq'[j]].file,
               NEW s \in task'[addq'[i]].turns, NEW t \in task'[addq'[j]].turns, s.at = t.at
        PROVE  s.replies \subseteq t.replies
    <3>1. i \in 1..n /\ addq'[i] = addq[i] /\ task'[addq[i]] = task[addq[i]]
      BY <1>5, <1>6, <1>7, <1>10, <2>2
    <3>2. CASE j = n + 1
      <4>1. task[addq[i]].file = f /\ t \in p.turns
        BY <1>4, <1>5, <1>6, <2>2, <3>1, <3>2
      <4>2. Version(lines[f], s)
        BY <1>7, <2>2, <3>1, <4>1 DEF IInv, VersionInv
      <4>3. QED
        BY <1>14, <2>2, <4>1, <4>2
    <3>3. CASE j \in 1..n
      <4>1. addq'[j] = addq[j] /\ task'[addq[j]] = task[addq[j]]
        BY <1>5, <1>6, <1>7, <3>3
      <4>2. QED
        BY <2>2, <3>1, <3>3, <4>1 DEF IInv, OrderInv, FreshInv, BehindInv
    <3>4. QED
      BY <1>6, <1>10, <3>2, <3>3
  <2>3. QED
    BY <2>1, <2>2 DEF OrderInv, FreshInv, BehindInv
<1>16. \A j \in Task \ {k} : RowsOf(j)' = RowsOf(j) /\ Landed(j)' = Landed(j)
  BY <1>5 DEF RowsOf, Landed
<1>17. task'[k].pc # "landed" /\ task[k].pc # "landed"
  BY <1>1, <1>4, <1>5
<1>18. LandedInv'
  BY <1>1, <1>8, <1>16, <1>17 DEF IInv, LandedInv
<1>19. OneInv'
  BY <1>1, <1>8, <1>16, <1>17 DEF IInv, OneInv, Place
<1>20. \A g : \A t : (IsStored(g, t)' <=> IsStored(g, t)) /\ \A q : (Due(g, q, t)' <=> Due(g, q, t))
  BY <1>1 DEF IsStored, Due
<1>21. \A g, q : Done(g, q)' <=> Done(g, q)
  BY <1>1, <1>20 DEF Done
<1>22. CursorInv'
  <2>1. \A j \in Task : task'[j].copy = task[j].copy
    BY <1>4, <1>5
  <2>2. QED
    BY <1>1, <1>21, <2>1 DEF IInv, CursorInv
<1>23. CarriedInv'
  <2>1. ASSUME NEW q, q = c.resume
        PROVE  /\ Closed(lines'[f], q)
               /\ \A t : Due(f, q, t)' => IsStored(f, t)' \/ t \in p.turns
    BY <1>1, <1>2, <1>20, <2>1
  <2>2. ASSUME NEW j \in Task, NEW g, g = task'[j].file, NEW q, q = task'[j].cursor.resume
        PROVE  /\ task'[j].pc = "queued" =>
                    /\ Closed(lines'[g], q)
                    /\ \A t : Due(g, q, t)' => IsStored(g, t)' \/ t \in task'[j].turns
               /\ task'[j].pc \in {"landed", "added"} => Done(g, q)'
    <3>1. CASE j = k
      BY <1>4, <1>5, <2>1, <2>2, <3>1
    <3>2. CASE j # k
      <4>1. task'[j] = task[j]
        BY <1>5, <3>2
      <4>2. /\ task[j].pc = "queued" =>
                 /\ Closed(lines[g], q)
                 /\ \A t : Due(g, q, t) => IsStored(g, t) \/ t \in task[j].turns
            /\ task[j].pc \in {"landed", "added"} => Done(g, q)
        BY <2>2, <4>1 DEF IInv, CarriedInv
      <4>3. QED
        BY <1>1, <1>20, <1>21, <4>1, <4>2
    <3>3. QED
      BY <3>1, <3>2
  <2>3. QED
    BY <2>2 DEF CarriedInv
<1>24. QED
  BY <1>9, <1>11, <1>13, <1>15, <1>18, <1>19, <1>22, <1>23 DEF IInv

-----------------------------------------------------------------------------
(* The steps of the session, of the timer and of the server.               *)

(* A line that is written changes no turn before a closed offset.          *)
LEMMA WriteStep ==
  ASSUME IInv, NEW f \in File, WriteLine(f)
  PROVE  IInv'
<1>1. PICK kind \in LineKind : lines' = [lines EXCEPT ![f] = Append(@, kind)]
  BY DEF WriteLine
<1>2. /\ pending' = pending \cup {f}
      /\ UNCHANGED <<disk, rows, queued, task, addq, running, deferred, untidy, faults>>
  BY DEF WriteLine, loop
<1>3. lines \in [File -> Seq(LineKind)]
  BY DEF IInv, TypeInv
<1>4. /\ \A g \in File \ {f} : lines'[g] = lines[g]
      /\ lines'[f] = Append(lines[f], kind) /\ lines' \in [File -> Seq(LineKind)]
  BY <1>1, <1>3
<1>5. \A g \in File : /\ lines[g] \in Seq(LineKind) /\ lines'[g] \in Seq(LineKind)
                      /\ Continues(lines[g], lines'[g])
  <2>1. ASSUME NEW g \in File PROVE Continues(lines[g], lines'[g])
    <3>1. lines[f] \in Seq(LineKind)
      BY <1>3
    <3>2. CASE g = f
      BY <1>4, <3>1, <3>2, Grown
    <3>3. CASE g # f
      BY <1>3, <1>4, <3>3 DEF Continues
    <3>4. QED
      BY <3>2, <3>3
  <2>2. QED
    BY <1>3, <1>4, <2>1
<1>6. TypeInv'
  BY <1>2, <1>4 DEF IInv, TypeInv
<1>7. ASSUME NEW g \in File, NEW t, Version(lines[g], t) PROVE Version(lines'[g], t)
  BY <1>5, <1>7, VersionGrows
<1>8. ASSUME NEW g \in File, NEW q, Closed(lines[g], q)
      PROVE  Closed(lines'[g], q) /\ \A t : Due(g, q, t)' => Due(g, q, t)
  <2>1. Closed(lines'[g], q)
    BY <1>5, <1>8, ClosedGrows
  <2>2. ASSUME NEW t, Due(g, q, t)' PROVE Due(g, q, t)
    <3>1. Latest(lines'[g], t) /\ t.at < q /\ WouldStore(lines'[g], t)
      BY <2>2 DEF Due
    <3>2. Latest(lines[g], t) /\ lines[g][t.at + 1] = lines'[g][t.at + 1]
      BY <1>5, <1>8, <3>1, Settled
    <3>3. WouldStore(lines[g], t)
      BY <3>1, <3>2 DEF WouldStore
    <3>4. QED
      BY <3>1, <3>2, <3>3 DEF Due
  <2>3. QED
    BY <2>1, <2>2
<1>9. \A g, t : IsStored(g, t)' <=> IsStored(g, t)
  BY <1>2 DEF IsStored
<1>10. \A g \in File : \A q : Done(g, q) => Done(g, q)'
  BY <1>8, <1>9 DEF Done
<1>11. QueueInv'
  BY <1>2 DEF IInv, QueueInv, Carrying
<1>12. \A r \in rows : r.file \in File
  BY DEF IInv, TypeInv, Row
<1>13. \A k \in Task : task[k].pc \notin {"idle", "read"} => task[k].file \in File
  BY DEF IInv, QueueInv
<1>14. VersionInv'
  BY <1>2, <1>7, <1>12, <1>13 DEF IInv, VersionInv, Carrying
<1>15. OrderInv'
  BY <1>2 DEF IInv, OrderInv, FreshInv, BehindInv, Carrying
<1>16. LandedInv'
  BY <1>2 DEF IInv, LandedInv, RowsOf
<1>17. OneInv'
  BY <1>2 DEF IInv, OneInv, Landed, RowsOf, Place
<1>18. CursorInv'
  BY <1>2, <1>10 DEF IInv, CursorInv
<1>19. CarriedInv'
  <2>1. ASSUME NEW j \in Task, task[j].pc \in {"queued", "landed", "added"},
               NEW g, g = task[j].file, NEW q, q = task[j].cursor.resume
        PROVE  /\ task[j].pc = "queued" =>
                    /\ Closed(lines'[g], q)
                    /\ \A t : Due(g, q, t)' => IsStored(g, t)' \/ t \in task[j].turns
               /\ task[j].pc \in {"landed", "added"} => Done(g, q)'
    <3>1. g \in File
      BY <1>13, <2>1
    <3>2. /\ task[j].pc = "queued" =>
               /\ Closed(lines[g], q)
               /\ \A t : Due(g, q, t) => IsStored(g, t) \/ t \in task[j].turns
          /\ task[j].pc \in {"landed", "added"} => Done(g, q)
      BY <2>1 DEF IInv, CarriedInv
    <3>3. QED
      BY <1>8, <1>9, <1>10, <3>1, <3>2
  <2>2. QED
    BY <1>2, <2>1 DEF CarriedInv
<1>20. QED
  BY <1>6, <1>11, <1>14, <1>15, <1>16, <1>17, <1>18, <1>19 DEF IInv

(* Faults stay within their bound.                                         *)
LEMMA FaultCounted ==
  ASSUME faults \in 0..MaxFaults, Fault
  PROVE  faults' \in 0..MaxFaults
BY IngestAssumption DEF Fault

(* A crash forgets who was under way, and leaves versions behind.          *)
LEMMA CrashStep ==
  ASSUME IInv, Crash
  PROVE  IInv'
<1> DEFINE left == UNION {{Place(r) : r \in Landed(k)} : k \in {k \in Task : task[k].pc = "landed"}}
<1>1. /\ task' = [k \in Task |-> Idle] /\ addq' = <<>> /\ running' = None /\ pending' = {}
      /\ queued' = TRUE /\ untidy' = untidy \cup left
      /\ UNCHANGED <<lines, disk, rows, deferred>>
  BY DEF Crash
<1>2. Idle \in TaskState /\ Idle.pc = "idle" /\ Sound(Idle.copy)
  BY IdleFits DEF IInv
<1>3. task' \in [Task -> TaskState] /\ \A k \in Task : task'[k] = Idle
  BY <1>1, <1>2
<1>4. faults' \in 0..MaxFaults
  BY FaultCounted DEF Crash, IInv, TypeInv
<1>5. left \subseteq File \X Nat
  <2>1. ASSUME NEW k \in Task, task[k].pc = "landed", NEW r \in Landed(k)
        PROVE  Place(r) \in File \X Nat
    <3>1. r \in Row
      BY <2>1 DEF Landed, IInv, LandedInv, TypeInv
    <3>2. QED
      BY <3>1 DEF Row, Turn, Place
  <2>2. QED
    BY <2>1
<1>6. \A k \in Task : task[k].pc = "landed" => \A l \in Landed(k) : Place(l) \in left
  OBVIOUS
<1> HIDE DEF left
<1>7. TypeInv'
  BY <1>1, <1>3, <1>4, <1>5 DEF IInv, TypeInv
<1>8. \A k \in Task : ~Carrying(k)' /\ task'[k].pc = "idle"
  BY <1>2, <1>3 DEF Carrying
<1>9. QueueInv'
  BY <1>1, <1>8 DEF QueueInv
<1>10. VersionInv' /\ OrderInv' /\ LandedInv'
  BY <1>1, <1>8 DEF IInv, VersionInv, OrderInv, FreshInv, BehindInv, LandedInv
<1>11. OneInv'
  <2>1. ASSUME NEW r \in rows, NEW s \in rows, Place(r) = Place(s), r # s
        PROVE  Place(r) \in untidy'
    <3>1. \/ Place(r) \in untidy
          \/ \E k \in Task : task[k].pc = "landed" /\ \E l \in Landed(k) : Place(l) = Place(r)
      BY <2>1 DEF IInv, OneInv
    <3>2. QED
      BY <1>1, <1>6, <3>1
  <2>2. rows' = rows /\ \A r : Place(r)' = Place(r)
    BY <1>1 DEF Place
  <2>3. QED
    BY <2>1, <2>2 DEF OneInv
<1>12. \A g, q : Done(g, q)' <=> Done(g, q)
  BY <1>1 DEF Done, Due, IsStored
<1>13. CursorInv'
  BY <1>1, <1>2, <1>3, <1>12 DEF IInv, CursorInv, Sound
<1>14. CarriedInv'
  BY <1>8 DEF CarriedInv
<1>15. QED
  BY <1>7, <1>9, <1>10, <1>11, <1>13, <1>14 DEF IInv

-----------------------------------------------------------------------------
(* The steps of the executor thread.                                       *)

(* What is left of a queue without its head.                               *)
LEMMA TailIs ==
  ASSUME NEW S, NEW q \in Seq(S), q # <<>>
  PROVE  /\ Tail(q) \in Seq(S) /\ Len(q) \in Nat \ {0} /\ Len(Tail(q)) = Len(q) - 1 /\ Head(q) = q[1]
         /\ \A i \in 1..Len(Tail(q)) : Tail(q)[i] = q[i + 1] /\ i + 1 \in 1..Len(q)
OBVIOUS

(* The first one leaves the queue.                                         *)
LEMMA Popped ==
  ASSUME IInv, NEW k \in Task, addq # <<>>, addq[1] = k, addq' = Tail(addq), rows' \subseteq rows,
         task'[k].pc \in {"added", "failed"}, task'[k].file = task[k].file, task[k].file \in File,
         \A j \in Task \ {k} : task'[j] = task[j]
  PROVE  /\ QueueInv' /\ FreshInv' /\ BehindInv' /\ LandedInv'
         /\ \A j \in Task : Carrying(j)' <=> Carrying(j) /\ j # k
         /\ \A j \in Task : task'[j].pc # "landed" /\ (task[j].pc = "landed" => j = k)
<1> DEFINE q == Tail(addq)
<1>1. /\ q \in Seq(Task) /\ Len(addq) \in Nat \ {0} /\ Len(q) = Len(addq) - 1
      /\ \A i \in 1..Len(q) : q[i] = addq[i + 1] /\ i + 1 \in 1..Len(addq)
  BY TailIs DEF IInv, TypeInv
<1>2. addq' = q
  OBVIOUS
<1> HIDE DEF q
<1>3. /\ \A i, j \in 1..Len(addq) : addq[i] = addq[j] => i = j
      /\ \A j \in Task : Carrying(j) <=> \E i \in 1..Len(addq) : addq[i] = j
      /\ \A j \in Task : task[j].pc = "landed" => addq[1] = j
      /\ \A j \in Task : task[j].pc \notin {"idle", "read"} => task[j].file \in File
  BY DEF IInv, QueueInv
<1>4. \A i \in 1..Len(q) : q[i] # k /\ q[i] \in Task /\ task'[q[i]] = task[q[i]]
  BY <1>1, <1>3
<1>5. \A j \in Task : task'[j].pc # "landed" /\ (task[j].pc = "landed" => j = k)
  BY <1>3
<1>6. \A j \in Task : Carrying(j)' <=> Carrying(j) /\ j # k
  BY DEF Carrying
<1>7. ASSUME NEW j \in Task PROVE (Carrying(j) /\ j # k) <=> \E i \in 1..Len(q) : q[i] = j
  <2>1. ASSUME Carrying(j), j # k PROVE \E i \in 1..Len(q) : q[i] = j
    <3>1. PICK i \in 1..Len(addq) : addq[i] = j
      BY <1>3, <2>1
    <3>2. i # 1 /\ i - 1 \in 1..Len(q)
      BY <1>1, <2>1, <3>1
    <3>3. q[i - 1] = addq[i]
      BY <1>1, <3>2
    <3>4. QED
      BY <3>1, <3>2, <3>3
  <2>2. ASSUME NEW i \in 1..Len(q), q[i] = j PROVE Carrying(j) /\ j # k
    BY <1>1, <1>3, <1>4, <2>2
  <2>3. QED
    BY <2>1, <2>2
<1>8. \A i, j \in 1..Len(q) : q[i] = q[j] => i = j
  <2>1. ASSUME NEW i \in 1..Len(q), NEW j \in 1..Len(q), q[i] = q[j] PROVE i = j
    <3>1. i + 1 \in 1..Len(addq) /\ j + 1 \in 1..Len(addq) /\ addq[i + 1] = addq[j + 1]
      BY <1>1, <2>1
    <3>2. i + 1 = j + 1
      BY <1>3, <3>1
    <3>3. QED
      BY <3>2
  <2>2. QED
    BY <2>1
<1>9. QueueInv'
  <2>1. \A j \in Task : task'[j].pc \notin {"idle", "read"} => task'[j].file \in File
    BY <1>3
  <2>2. \A j \in Task : Carrying(j)' <=> \E i \in 1..Len(addq') : addq'[i] = j
    BY <1>2, <1>6, <1>7
  <2>3. \A i, j \in 1..Len(addq') : addq'[i] = addq'[j] => i = j
    BY <1>2, <1>8
  <2>4. QED
    BY <1>5, <2>1, <2>2, <2>3 DEF QueueInv
<1>10. FreshInv'
  BY <1>6 DEF IInv, OrderInv, FreshInv
<1>11. BehindInv'
  <2>1. ASSUME NEW i \in 1..Len(q), NEW j \in 1..Len(q), i < j, task'[q[i]].file = task'[q[j]].file,
               NEW s \in task'[q[i]].turns, NEW t \in task'[q[j]].turns, s.at = t.at
        PROVE  s.replies \subseteq t.replies
    <3>1. i + 1 \in 1..Len(addq) /\ j + 1 \in 1..Len(addq) /\ i + 1 < j + 1
      BY <1>1, <2>1
    <3>2. task'[q[i]] = task[addq[i + 1]] /\ task'[q[j]] = task[addq[j + 1]]
      BY <1>1, <1>4
    <3>3. QED
      BY <2>1, <3>1, <3>2 DEF IInv, OrderInv, BehindInv
  <2>2. \A i, j \in 1..Len(q) : i < j /\ task'[q[i]].file = task'[q[j]].file =>
          \A s \in task'[q[i]].turns, t \in task'[q[j]].turns :
            s.at = t.at => s.replies \subseteq t.replies
    BY <2>1, Zenon
  <2>3. QED
    BY <1>2, <2>2, Zenon DEF BehindInv
<1>12. LandedInv'
  BY <1>5 DEF LandedInv
<1>13. QED
  BY <1>5, <1>6, <1>9, <1>10, <1>11, <1>12

(* An add that raises adds nothing.                                        *)
LEMMA EmbedFailsStep ==
  ASSUME IInv, NEW k \in Task, EmbedFails(k)
  PROVE  IInv'
<1> DEFINE new == [task[k] EXCEPT !.pc = "failed"]
<1>1. /\ addq # <<>> /\ Head(addq) = k /\ task[k].pc = "queued" /\ addq' = Tail(addq)
      /\ task' = [task EXCEPT ![k] = new] /\ Fault
      /\ UNCHANGED <<lines, disk, rows, pending, queued, running, deferred, untidy>>
  BY DEF EmbedFails, Adds
<1>2. task[k] \in TaskState /\ task \in [Task -> TaskState] /\ addq \in Seq(Task) /\ task[k].file \in File
  BY <1>1 DEF IInv, TypeInv, QueueInv
<1>3. /\ new \in TaskState /\ new.pc = "failed" /\ new.file = task[k].file /\ new.copy = task[k].copy
  BY <1>2 DEF TaskState
<1> HIDE DEF new
<1>4. /\ task' \in [Task -> TaskState] /\ task'[k] = new
      /\ \A j \in Task \ {k} : task'[j] = task[j]
  BY <1>1, <1>2, <1>3
<1>5. addq[1] = k /\ Tail(addq) \in Seq(Task)
  BY <1>1, <1>2, TailIs
<1>6. faults' \in 0..MaxFaults
  BY <1>1, FaultCounted DEF IInv, TypeInv
<1>7. TypeInv'
  BY <1>1, <1>4, <1>5, <1>6 DEF IInv, TypeInv
<1>8. /\ QueueInv' /\ FreshInv' /\ BehindInv' /\ LandedInv'
      /\ \A j \in Task : Carrying(j)' <=> Carrying(j) /\ j # k
      /\ \A j \in Task : task'[j].pc # "landed" /\ (task[j].pc = "landed" => j = k)
  BY <1>1, <1>2, <1>3, <1>4, <1>5, Popped
<1>9. VersionInv'
  BY <1>1, <1>4, <1>8 DEF IInv, VersionInv
<1>10. OneInv'
  <2>1. \A j \in Task : task[j].pc # "landed"
    BY <1>1, <1>8
  <2>2. QED
    BY <1>1, <2>1 DEF IInv, OneInv, Place
<1>11. \A g : \A t : (IsStored(g, t)' <=> IsStored(g, t)) /\ \A q : (Due(g, q, t)' <=> Due(g, q, t))
  BY <1>1 DEF IsStored, Due
<1>12. \A g, q : Done(g, q)' <=> Done(g, q)
  BY <1>1, <1>11 DEF Done
<1>13. CursorInv'
  <2>1. \A j \in Task : task'[j].copy = task[j].copy
    BY <1>3, <1>4
  <2>2. QED
    BY <1>1, <1>12, <2>1 DEF IInv, CursorInv
<1>14. CarriedInv'
  <2>1. ASSUME NEW j \in Task, task'[j].pc \in {"queued", "landed", "added"} PROVE task'[j] = task[j]
    BY <1>3, <1>4, <2>1
  <2>2. QED
    BY <1>1, <1>11, <1>12, <2>1 DEF IInv, CarriedInv
<1>15. QED
  BY <1>7, <1>8, <1>9, <1>10, <1>13, <1>14 DEF IInv, OrderInv

(* The rows of a coroutine's turns.                                        *)
LEMMA RowsOfAre ==
  ASSUME TypeInv, NEW k \in Task, task[k].file \in File
  PROVE  /\ RowsOf(k) \subseteq Row
         /\ \A r \in RowsOf(k) : r.file = task[k].file /\ r.turn \in task[k].turns
         /\ \A r \in Row : r.file = task[k].file /\ r.turn \in task[k].turns => r \in RowsOf(k)
<1>1. task[k].turns \subseteq Turn
  BY DEF TypeInv, TaskState
<1>2. \A r \in Row : r = [file |-> r.file, turn |-> r.turn]
  BY DEF Row
<1>3. \A t \in task[k].turns : [file |-> task[k].file, turn |-> t] \in Row
  BY <1>1 DEF Row
<1>4. QED
  BY <1>2, <1>3 DEF RowsOf

(* add_turns stores what is new, all of it or the part that the budget     *)
(* lets through, and what was due is stored or deferred.                   *)
LEMMA LandStep ==
  ASSUME IInv, NEW k \in Task, NEW kept \in SUBSET NewRows(k), Land(k, kept),
         faults' \in 0..MaxFaults
  PROVE  IInv'
<1> DEFINE f == task[k].file
           turns == {r.turn : r \in (RowsOf(k) \cap rows) \cup kept}
           new == [task[k] EXCEPT !.pc = "landed", !.turns = turns]
           fresh == NewRows(k)
<1>1. /\ addq # <<>> /\ Head(addq) = k /\ task[k].pc = "queued"
      /\ rows' = rows \cup kept /\ deferred' = (deferred \cup fresh) \ kept
      /\ task' = [task EXCEPT ![k] = new]
      /\ UNCHANGED <<lines, disk, pending, queued, addq, running, untidy>>
  BY DEF Land, Adds
<1>2. /\ task[k] \in TaskState /\ task \in [Task -> TaskState] /\ addq \in Seq(Task) /\ f \in File
      /\ rows \subseteq Row /\ lines[f] \in Seq(LineKind) /\ Carrying(k)
  BY <1>1 DEF IInv, TypeInv, QueueInv, Carrying
<1>3. /\ RowsOf(k) \subseteq Row
      /\ \A r \in RowsOf(k) : r.file = f /\ r.turn \in task[k].turns
  BY <1>2, RowsOfAre DEF IInv
<1>4. fresh \subseteq RowsOf(k) /\ kept \subseteq fresh /\ \A r \in fresh : r \notin rows
  BY DEF NewRows
<1>5. turns \subseteq task[k].turns /\ \A r \in kept : r.turn \in turns
  BY <1>3, <1>4
<1>6. \A t \in turns : \E r \in (RowsOf(k) \cap rows) \cup kept : r.turn = t /\ r = [file |-> f, turn |-> t]
  <2>1. \A r \in Row : r = [file |-> r.file, turn |-> r.turn]
    BY DEF Row
  <2>2. QED
    BY <1>3, <1>4, <2>1
<1>7. /\ new \in TaskState /\ new.pc = "landed" /\ new.file = f /\ new.copy = task[k].copy
      /\ new.turns = turns /\ new.cursor = task[k].cursor
  BY <1>2, <1>5 DEF TaskState
<1> HIDE DEF new, turns, fresh, f
<1>8. /\ task' \in [Task -> TaskState] /\ task'[k] = new
      /\ \A j \in Task \ {k} : task'[j] = task[j]
  BY <1>1, <1>2, <1>7
<1>9. addq[1] = k /\ Len(addq) \in Nat \ {0}
  BY <1>1, <1>2, TailIs
<1>10. \A j \in Task : (Carrying(j)' <=> Carrying(j)) /\ task'[j].copy = task[j].copy /\ task'[j].file = task[j].file
  BY <1>1, <1>7, <1>8 DEF Carrying, f
<1>11. \A j \in Task : (task'[j].pc = "landed" <=> j = k) /\ task[j].pc # "landed"
  <2>1. \A j \in Task : task[j].pc = "landed" => j = k
    BY <1>9 DEF IInv, QueueInv
  <2>2. QED
    BY <1>1, <1>7, <1>8, <2>1
<1>12. \A j \in Task : task'[j].turns \subseteq task[j].turns
  BY <1>5, <1>7, <1>8
<1>13. TypeInv'
  BY <1>1, <1>2, <1>3, <1>4, <1>8 DEF IInv, TypeInv
<1>14. QueueInv'
  <2>1. \A j \in Task : task'[j].pc \notin {"idle", "read"} => task[j].pc \notin {"idle", "read"}
    BY <1>1, <1>8
  <2>2. QED
    BY <1>1, <1>9, <1>10, <1>11, <2>1 DEF IInv, QueueInv
<1>15. \A t \in task[k].turns : Version(lines[f], t) /\ \A s \in task[k].turns : s.at = t.at => s = t
  BY <1>2 DEF IInv, VersionInv, f
<1>16. VersionInv'
  <2>1. \A r \in rows' : Version(lines'[r.file], r.turn)
    BY <1>1, <1>3, <1>4, <1>15 DEF IInv, VersionInv
  <2>2. QED
    BY <1>1, <1>10, <1>12, <2>1 DEF IInv, VersionInv
<1>17. FreshInv'
  <2>1. ASSUME NEW j \in Task, Carrying(j), NEW r \in rows', NEW t \in task'[j].turns,
               r.file = task[j].file, r.turn.at = t.at
        PROVE  r.turn.replies \subseteq t.replies
    <3>1. t \in task[j].turns
      BY <1>12, <2>1
    <3>2. CASE r \in rows
      BY <2>1, <3>1, <3>2 DEF IInv, OrderInv, FreshInv
    <3>3. CASE r \in kept
      <4>1. r.file = f /\ r.turn \in task[k].turns
        BY <1>3, <1>4, <3>3
      <4>2. CASE j = k
        BY <1>15, <2>1, <3>1, <4>1, <4>2
      <4>3. CASE j # k
        <5>1. PICK i \in 1..Len(addq) : addq[i] = j
          BY <2>1 DEF IInv, QueueInv
        <5>2. 1 < i /\ 1 \in 1..Len(addq)
          BY <1>9, <4>3, <5>1
        <5>3. QED
          BY <1>9, <2>1, <3>1, <4>1, <5>1, <5>2 DEF IInv, OrderInv, BehindInv, f
      <4>4. QED
        BY <4>2, <4>3
    <3>4. QED
      BY <1>1, <2>1, <3>2, <3>3
  <2>2. QED
    BY <1>10, <2>1 DEF FreshInv
<1>18. BehindInv'
  <2>1. \A i \in 1..Len(addq) : addq[i] \in Task
    BY <1>2
  <2>2. QED
    BY <1>1, <1>10, <1>12, <2>1 DEF IInv, OrderInv, BehindInv
<1>19. LandedInv'
  <2>1. \A t \in turns : [file |-> f, turn |-> t] \in rows'
    BY <1>1, <1>6
  <2>2. QED
    BY <1>7, <1>8, <1>11, <2>1 DEF LandedInv, RowsOf
<1>20. OneInv'
  <2>1. ASSUME NEW r \in rows', NEW s \in rows', Place(r) = Place(s), r # s, r \in kept \/ s \in kept
        PROVE  \E l \in Landed(k)' : Place(l) = Place(r)
    <3>1. r \in Row /\ s \in Row /\ r.file = s.file /\ r.turn.at = s.turn.at
      BY <1>1, <1>2, <1>3, <1>4, <2>1 DEF Place
    <3>2. r = [file |-> r.file, turn |-> r.turn] /\ s = [file |-> s.file, turn |-> s.turn]
      BY <3>1 DEF Row
    <3>3. r.turn # s.turn /\ r.file \in File
      BY <2>1, <3>1, <3>2 DEF Row
    <3>4. Version(lines[r.file], r.turn) /\ Version(lines[r.file], s.turn) /\ lines[r.file] \in Seq(LineKind)
      BY <1>1, <1>16, <2>1, <3>1, <3>3 DEF VersionInv, IInv, TypeInv
    <3>5. r.turn.kind = s.turn.kind /\ s.turn.kind # "summary"
      BY <3>1, <3>3, <3>4, OneTurn
    <3>6. r.turn.kind = "turn" /\ s.turn.kind = "turn"
      BY <3>4, <3>5 DEF Version
    <3>7. ASSUME NEW l \in kept, l.turn.kind = "turn" PROVE l \in Landed(k)'
      <4>1. l.turn \in task'[k].turns /\ l = [file |-> task'[k].file, turn |-> l.turn]
        BY <1>3, <1>4, <1>5, <1>7, <1>8 DEF Row
      <4>2. QED
        BY <3>7, <4>1 DEF Landed, RowsOf
    <3>8. QED
      BY <2>1, <3>6, <3>7
  <2>2. ASSUME NEW r \in rows', NEW s \in rows', Place(r) = Place(s)
        PROVE  \/ r = s \/ Place(r) \in untidy'
               \/ task'[k].pc = "landed" /\ \E l \in Landed(k)' : Place(l) = Place(r)
    <3>1. CASE r \in kept \/ s \in kept
      BY <1>11, <2>1, <2>2, <3>1
    <3>2. CASE r \in rows /\ s \in rows
      BY <1>1, <1>11, <2>2, <3>2 DEF IInv, OneInv
    <3>3. QED
      BY <1>1, <2>2, <3>1, <3>2
  <2>3. QED
    BY <2>2 DEF OneInv, Place
<1>21. \A g : \A t : (IsStored(g, t) => IsStored(g, t)') /\ \A q : (Due(g, q, t)' <=> Due(g, q, t))
  BY <1>1 DEF IsStored, Due
<1>22. \A g, q : Done(g, q) => Done(g, q)'
  BY <1>1, <1>21 DEF Done
<1>23. CursorInv'
  BY <1>1, <1>10, <1>22 DEF IInv, CursorInv
<1>24. ASSUME NEW q, q = task[k].cursor.resume PROVE Done(f, q)'
  <2>1. /\ Closed(lines[f], q)
        /\ \A t : Due(f, q, t) => IsStored(f, t) \/ t \in task[k].turns
    BY <1>1, <1>24 DEF IInv, CarriedInv, f
  <2>2. ASSUME NEW t \in task[k].turns, Due(f, q, t)
        PROVE  [file |-> f, turn |-> t] \in rows' \cup deferred'
    <3> DEFINE r == [file |-> f, turn |-> t]
    <3>1. r \in RowsOf(k) /\ r.file = f /\ r.turn = t
      BY DEF RowsOf, f
    <3>2. WouldStore(lines[r.file], r.turn)
      BY <2>2, <3>1 DEF Due
    <3>3. r \in rows \/ r \in fresh
      BY <3>1, <3>2 DEF NewRows, fresh
    <3> HIDE DEF r
    <3>4. r \in rows' \cup deferred'
      BY <1>1, <3>3
    <3>5. QED
      BY <3>4 DEF r
  <2>3. \A g, t : IsStored(g, t)' <=> [file |-> g, turn |-> t] \in rows' \cup deferred'
    BY DEF IsStored
  <2>4. ASSUME NEW g, g = f PROVE Done(g, q)'
    BY <1>1, <1>21, <2>1, <2>2, <2>3, <2>4 DEF Done
  <2>5. f' = f
    BY <1>10 DEF f
  <2>6. QED
    BY <2>4, <2>5
<1>25. CarriedInv'
  <2>1. ASSUME NEW j \in Task, NEW g, g = task'[j].file, NEW q, q = task'[j].cursor.resume
        PROVE  /\ task'[j].pc = "queued" =>
                    /\ Closed(lines'[g], q)
                    /\ \A t : Due(g, q, t)' => IsStored(g, t)' \/ t \in task'[j].turns
               /\ task'[j].pc \in {"landed", "added"} => Done(g, q)'
    <3>1. CASE j = k
      <4>1. g = f' /\ q = task[k].cursor.resume
        BY <1>7, <1>8, <2>1, <3>1 DEF f
      <4>2. task'[k].pc # "queued"
        BY <1>11
      <4>3. QED
        BY <1>24, <3>1, <4>1, <4>2
    <3>2. CASE j # k
      <4>1. task'[j] = task[j]
        BY <1>8, <3>2
      <4>2. /\ task[j].pc = "queued" =>
                 /\ Closed(lines[g], q)
                 /\ \A t : Due(g, q, t) => IsStored(g, t) \/ t \in task[j].turns
            /\ task[j].pc \in {"landed", "added"} => Done(g, q)
        BY <2>1, <4>1 DEF IInv, CarriedInv
      <4>3. QED
        BY <1>1, <1>21, <1>22, <4>1, <4>2
    <3>3. QED
      BY <3>1, <3>2
  <2>2. QED
    BY <2>1 DEF CarriedInv
<1>26. QED
  BY <1>13, <1>14, <1>16, <1>17, <1>18, <1>19, <1>20, <1>23, <1>25 DEF IInv, OrderInv

(* What replaces a version of a turn has at least its replies, and no      *)
(* latest version is replaced.                                             *)
LEMMA StaleIsOld ==
  ASSUME IInv, NEW k \in Task, task[k].pc = "landed", NEW r \in Stale(k)
  PROVE  /\ r \in rows /\ ~Latest(lines[r.file], r.turn)
         /\ \E l \in Landed(k) : /\ l \in rows /\ l \notin Stale(k) /\ Place(l) = Place(r)
                                 /\ l.turn.kind = r.turn.kind
                                 /\ r.turn.replies \subseteq l.turn.replies
<1>1. r \in rows /\ r.turn.kind = "turn" /\ r \notin Landed(k)
  BY DEF Stale
<1>2. PICK l \in Landed(k) : Place(l) = Place(r)
  BY DEF Stale
<1>3. task[k].file \in File /\ Carrying(k) /\ TypeInv
  BY DEF IInv, QueueInv, Carrying
<1>4. l \in RowsOf(k) /\ l.turn.kind = "turn"
  BY <1>2 DEF Landed
<1>5. l \in Row /\ l.file = task[k].file /\ l.turn \in task[k].turns
  BY <1>3, <1>4, RowsOfAre
<1>6. l \in rows
  BY <1>4 DEF IInv, LandedInv
<1>7. r.file = l.file /\ r.turn.at = l.turn.at /\ r \in Row
  BY <1>1, <1>2, <1>3 DEF Place, TypeInv
<1>8. r.turn.replies \subseteq l.turn.replies
  BY <1>1, <1>3, <1>5, <1>7 DEF IInv, OrderInv, FreshInv
<1>9. r # l
  BY <1>1, <1>2
<1>10. ~Latest(lines[r.file], r.turn)
  <2>1. SUFFICES ASSUME Latest(lines[r.file], r.turn) PROVE FALSE
    OBVIOUS
  <2>2. lines[r.file] \in Seq(LineKind) /\ Version(lines[r.file], r.turn) /\ Version(lines[r.file], l.turn)
    <3>1. r.file \in File
      BY <1>7 DEF Row
    <3>2. lines[r.file] \in Seq(LineKind)
      BY <1>3, <3>1 DEF TypeInv
    <3>3. \A x \in rows : Version(lines[x.file], x.turn)
      BY DEF IInv, VersionInv
    <3>4. QED
      BY <1>1, <1>6, <1>7, <3>2, <3>3
  <2>3. l.turn.replies \subseteq r.turn.replies
    BY <1>7, <2>1, <2>2, OneTurn
  <2>4. l.turn = r.turn
    <3> DEFINE a == l.turn
               b == r.turn
    <3>1. Version(lines[r.file], a) /\ Version(lines[r.file], b) /\ a.at = b.at /\ a.replies = b.replies
      BY <1>7, <1>8, <2>2, <2>3
    <3> HIDE DEF a, b
    <3>2. a = b
      BY <2>2, <3>1, OneTurn
    <3>3. QED
      BY <3>2 DEF a, b
  <2>5. l = [file |-> l.file, turn |-> l.turn] /\ r = [file |-> r.file, turn |-> r.turn]
    BY <1>5, <1>7 DEF Row
  <2>6. QED
    BY <1>7, <1>9, <2>4, <2>5
<1>11. l \notin Stale(k)
  BY <1>2 DEF Stale
<1>12. QED
  BY <1>1, <1>2, <1>4, <1>6, <1>8, <1>10, <1>11

(* Deleting the older versions of a turn keeps the invariant.              *)
LEMMA ReplaceStaleStep ==
  ASSUME IInv, NEW k \in Task, ReplaceStale(k)
  PROVE  IInv'
<1> DEFINE new == [task[k] EXCEPT !.pc = "added"]
           f == task[k].file
           places == {Place(r) : r \in Landed(k)}
<1>1. /\ task[k].pc = "landed" /\ addq' = Tail(addq)
      /\ task' = [task EXCEPT ![k] = new]
      /\ UNCHANGED <<lines, disk, pending, queued, running, deferred>>
      /\ \/ rows' = rows \ Stale(k) /\ untidy' = untidy \ places /\ faults' = faults
         \/ Fault /\ untidy' = untidy \cup places /\ rows' = rows
  BY DEF ReplaceStale
<1>2. task[k] \in TaskState /\ task \in [Task -> TaskState] /\ addq \in Seq(Task) /\ f \in File
  BY <1>1 DEF IInv, TypeInv, QueueInv
<1>3. /\ new \in TaskState /\ new.pc = "added" /\ new.file = f /\ new.copy = task[k].copy
      /\ new.cursor = task[k].cursor
  BY <1>2 DEF TaskState
<1> HIDE DEF new, f
<1>4. /\ task' \in [Task -> TaskState] /\ task'[k] = new
      /\ \A j \in Task \ {k} : task'[j] = task[j]
  BY <1>1, <1>2, <1>3
<1>5. addq # <<>> /\ addq[1] = k
  <2>1. addq[1] = k /\ \E i \in 1..Len(addq) : addq[i] = k
    BY <1>1 DEF IInv, QueueInv, Carrying
  <2>2. QED
    BY <1>2, <2>1
<1>6. Tail(addq) \in Seq(Task)
  BY <1>2, <1>5, TailIs
<1>7. places \subseteq File \X Nat
  <2>1. ASSUME NEW r \in Landed(k) PROVE Place(r) \in File \X Nat
    <3>1. r \in Row
      BY <1>1 DEF Landed, IInv, LandedInv, TypeInv
    <3>2. QED
      BY <3>1 DEF Row, Turn, Place
  <2>2. QED
    BY <2>1
<1>8. faults' \in 0..MaxFaults
  BY <1>1, FaultCounted DEF IInv, TypeInv
<1>9. \A p : p \in places <=> \E l \in Landed(k) : Place(l) = p
  OBVIOUS
<1> HIDE DEF places
<1>10. rows' \subseteq rows
  BY <1>1
<1>11. TypeInv'
  BY <1>1, <1>4, <1>6, <1>7, <1>8, <1>10 DEF IInv, TypeInv
<1>12. /\ QueueInv' /\ FreshInv' /\ BehindInv' /\ LandedInv'
       /\ \A j \in Task : Carrying(j)' <=> Carrying(j) /\ j # k
       /\ \A j \in Task : task'[j].pc # "landed" /\ (task[j].pc = "landed" => j = k)
  BY <1>1, <1>2, <1>3, <1>4, <1>5, <1>10, Popped DEF f
<1>13. VersionInv'
  BY <1>1, <1>4, <1>10, <1>12 DEF IInv, VersionInv
<1>14. OneInv'
  <2>1. ASSUME NEW r \in rows', NEW s \in rows', Place(r) = Place(s), r # s
        PROVE  Place(r) \in untidy'
    <3>1. Place(r) \in untidy \/ Place(r) \in places
      BY <1>9, <1>10, <1>12, <2>1 DEF IInv, OneInv
    <3>2. CASE rows' = rows /\ untidy' = untidy \cup places
      BY <3>1, <3>2
    <3>3. CASE rows' = rows \ Stale(k) /\ untidy' = untidy \ places
      <4>1. SUFFICES ASSUME Place(r) \in places PROVE FALSE
        BY <3>1, <3>3
      <4>2. PICK l \in Landed(k) : Place(l) = Place(r)
        BY <1>9, <4>1
      <4>3. /\ r \in rows /\ s \in rows /\ l \in RowsOf(k) /\ l.turn.kind = "turn"
            /\ r \notin Stale(k) /\ s \notin Stale(k)
        BY <2>1, <3>3, <4>2 DEF Landed
      <4>4. l \in rows
        BY <1>1, <4>3 DEF IInv, LandedInv
      <4>5. ASSUME NEW x \in rows, Place(x) = Place(l), x \notin Stale(k)
            PROVE  x \in Row /\ x.turn \in task[k].turns /\ x.file = f
        <5>1. x \in Row /\ l \in Row /\ lines[x.file] \in Seq(LineKind)
          BY <4>4, <4>5 DEF IInv, TypeInv, Row
        <5>2. x.file = l.file /\ x.turn.at = l.turn.at
          BY <4>5 DEF Place
        <5>3. Version(lines[x.file], x.turn) /\ Version(lines[x.file], l.turn)
          BY <4>4, <4>5, <5>2 DEF IInv, VersionInv
        <5>4. x.turn.kind = "turn"
          BY <4>3, <5>1, <5>2, <5>3, OneTurn
        <5>5. x \in Landed(k)
          BY <4>2, <4>5, <5>4 DEF Stale
        <5>6. QED
          BY <1>2, <5>1, <5>5, RowsOfAre DEF Landed, IInv, f
      <4>6. r \in Row /\ s \in Row /\ r.turn \in task[k].turns /\ s.turn \in task[k].turns /\ r.file = s.file
        BY <2>1, <4>2, <4>3, <4>5
      <4>7. r.turn.at = s.turn.at
        BY <2>1 DEF Place
      <4>8. r.turn = s.turn
        BY <1>1, <4>6, <4>7 DEF IInv, VersionInv, Carrying
      <4>9. r = [file |-> r.file, turn |-> r.turn] /\ s = [file |-> s.file, turn |-> s.turn]
        BY <4>6 DEF Row
      <4>10. QED
        BY <2>1, <4>6, <4>8, <4>9
    <3>4. QED
      BY <1>1, <3>2, <3>3
  <2>2. QED
    BY <2>1, <1>12 DEF OneInv, Place
<1>15. ASSUME NEW g, NEW t, Latest(lines[g], t), IsStored(g, t) PROVE IsStored(g, t)'
  <2> DEFINE r == [file |-> g, turn |-> t]
  <2>1. r.file = g /\ r.turn = t /\ r \in rows \cup deferred
    BY <1>15 DEF IsStored
  <2>2. r \notin Stale(k)
    BY <1>1, <1>15, <2>1, StaleIsOld
  <2> HIDE DEF r
  <2>3. r \in rows' \cup deferred'
    BY <1>1, <2>1, <2>2
  <2>4. QED
    BY <2>3 DEF r, IsStored
<1>16. \A g : \A t : \A q : (Due(g, q, t)' <=> Due(g, q, t)) /\ (Due(g, q, t) /\ IsStored(g, t) => IsStored(g, t)')
  BY <1>1, <1>15 DEF Due
<1>17. \A g, q : Done(g, q) => Done(g, q)'
  BY <1>1, <1>16 DEF Done
<1>18. CursorInv'
  <2>1. \A j \in Task : task'[j].copy = task[j].copy
    BY <1>3, <1>4
  <2>2. QED
    BY <1>1, <1>17, <2>1 DEF IInv, CursorInv
<1>19. CarriedInv'
  <2>1. ASSUME NEW j \in Task, NEW g, g = task'[j].file, NEW q, q = task'[j].cursor.resume
        PROVE  /\ task'[j].pc = "queued" =>
                    /\ Closed(lines'[g], q)
                    /\ \A t : Due(g, q, t)' => IsStored(g, t)' \/ t \in task'[j].turns
               /\ task'[j].pc \in {"landed", "added"} => Done(g, q)'
    <3>1. CASE j = k
      <4>1. g = task[k].file /\ q = task[k].cursor.resume /\ task'[j].pc = "added"
        BY <1>3, <1>4, <2>1, <3>1 DEF f
      <4>2. Done(g, q)
        BY <1>1, <4>1 DEF IInv, CarriedInv
      <4>3. QED
        BY <1>17, <4>1, <4>2
    <3>2. CASE j # k
      <4>1. task'[j] = task[j]
        BY <1>4, <3>2
      <4>2. /\ task[j].pc = "queued" =>
                 /\ Closed(lines[g], q)
                 /\ \A t : Due(g, q, t) => IsStored(g, t) \/ t \in task[j].turns
            /\ task[j].pc \in {"landed", "added"} => Done(g, q)
        BY <2>1, <4>1 DEF IInv, CarriedInv
      <4>3. QED
        BY <1>1, <1>16, <1>17, <4>1, <4>2
    <3>3. QED
      BY <3>1, <3>2
  <2>2. QED
    BY <2>1 DEF CarriedInv
<1>20. QED
  BY <1>11, <1>12, <1>13, <1>14, <1>18, <1>19 DEF IInv, OrderInv

-----------------------------------------------------------------------------
(* The invariant is inductive.                                             *)

(* The invariant holds at first.                                           *)
LEMMA InitHolds ==
  ASSUME Init
  PROVE  IInv
<1> DEFINE none == [path |-> NoCursor, source |-> NoCursor]
<1>1. /\ lines = [f \in File |-> <<>>] /\ disk = [f \in File |-> none]
      /\ rows = {} /\ deferred = {} /\ untidy = {} /\ pending = {} /\ queued = FALSE
      /\ task = [k \in Task |-> Idle] /\ addq = <<>> /\ running = None /\ faults = 0
  BY DEF Init
<1>2. none \in [path : Cursor, source : Cursor] /\ none.path.resume = 0 /\ none.source.resume = 0
  BY NoCursorFits
<1> HIDE DEF none
<1>3. disk \in State
  BY <1>1, <1>2 DEF State
<1>4. [f \in File |-> [path |-> NoCursor, source |-> NoCursor]] \in State
  BY NoCursorFits DEF State
<1>5. Idle \in TaskState /\ Idle.pc = "idle"
  BY <1>4, NoCursorFits DEF Idle, TaskState
<1>6. 0 \in 0..MaxFaults
  BY IngestAssumption
<1>7. <<>> \in Seq(LineKind) /\ <<>> \in Seq(Task)
  OBVIOUS
<1>8. lines \in [File -> Seq(LineKind)] /\ task \in [Task -> TaskState]
  BY <1>1, <1>5, <1>7
<1>9. TypeInv
  BY <1>1, <1>3, <1>6, <1>7, <1>8 DEF TypeInv
<1>10. \A k \in Task : task[k] = Idle /\ ~Carrying(k)
  BY <1>1, <1>5 DEF Carrying
<1>11. Sound(Idle.copy)
  BY <1>9, IdleFits
<1>12. QueueInv
  BY <1>1, <1>5, <1>10 DEF QueueInv
<1>13. VersionInv /\ OrderInv /\ LandedInv /\ OneInv /\ CarriedInv
  BY <1>1, <1>5, <1>10 DEF VersionInv, OrderInv, FreshInv, BehindInv, LandedInv, OneInv, CarriedInv
<1>14. CursorInv
  BY <1>1, <1>2, <1>9, <1>10, <1>11, DoneAtStart DEF CursorInv, Sound
<1>15. QED
  BY <1>9, <1>12, <1>13, <1>14 DEF IInv

(* A step that changes only what waits for the tasks keeps the invariant.  *)
LEMMA Stutter ==
  ASSUME IInv, UNCHANGED <<lines, disk, rows, task, addq, running, deferred, untidy, faults>>,
         pending' \in SUBSET File, queued' \in BOOLEAN
  PROVE  IInv'
<1>1. TypeInv'
  BY DEF IInv, TypeInv
<1>2. \A g : \A t : (IsStored(g, t)' <=> IsStored(g, t)) /\ \A q : (Due(g, q, t)' <=> Due(g, q, t))
  BY DEF IsStored, Due
<1>3. \A g, q : Done(g, q)' <=> Done(g, q)
  BY <1>2 DEF Done
<1>4. QueueInv' /\ VersionInv' /\ OrderInv'
  BY DEF IInv, QueueInv, VersionInv, OrderInv, FreshInv, BehindInv, Carrying
<1>5. LandedInv' /\ OneInv'
  BY DEF IInv, LandedInv, OneInv, Landed, RowsOf, Place
<1>6. CursorInv' /\ CarriedInv'
  BY <1>2, <1>3 DEF IInv, CursorInv, CarriedInv
<1>7. QED
  BY <1>1, <1>4, <1>5, <1>6 DEF IInv

(* Every step keeps the invariant.                                         *)
LEMMA Inductive ==
  ASSUME IInv, [Next]_vars
  PROVE  IInv'
<1>1. pending \in SUBSET File /\ queued \in BOOLEAN
  BY DEF IInv, TypeInv
<1>2. ASSUME NEW f \in File, WriteLine(f) PROVE IInv'
  BY <1>2, WriteStep
<1>3. CASE ProcessBatch
  <2>1. pending' \in SUBSET File
    BY <1>3 DEF ProcessBatch
  <2>2. "watch" \in Task /\ Begin("watch", pending)
    BY <1>3 DEF ProcessBatch, Task
  <2>3. QED
    BY <1>1, <2>1, <2>2, BeginStep
<1>4. ASSUME NEW f \in File, Index(f) PROVE IInv'
  <2>1. pending' \in SUBSET File /\ "hook" \in Task /\ Begin("hook", {f})
    BY <1>1, <1>4 DEF Index, Task
  <2>2. {f} \in SUBSET File
    OBVIOUS
  <2>3. QED
    BY <2>1, <2>2, BeginStep
<1>5. CASE Backfill
  <2> DEFINE behind == {f \in File : disk[f].path.consumed < Size(f)}
  <2>1. pending' \in SUBSET File /\ "backfill" \in Task /\ Begin("backfill", behind)
    BY <1>1, <1>5 DEF Backfill, Task
  <2>2. behind \in SUBSET File
    OBVIOUS
  <2>3. QED
    BY <2>1, <2>2, BeginStep
<1>6. CASE Enqueue
  BY <1>1, <1>6, Stutter DEF Enqueue, loop
<1>7. CASE Drain
  <2>1. pending' \in SUBSET File /\ "job" \in Task /\ Begin("job", File)
    BY <1>1, <1>7 DEF Drain, Task
  <2>2. QED
    BY <2>1, BeginStep
<1>8. ASSUME NEW k \in Task, Run(k) PROVE IInv'
  <2>1. ASSUME NEW f \in File, Skip(k, f) PROVE IInv'
    BY <2>1, SkipStep
  <2>2. ASSUME NEW f \in File, Read(k, f) PROVE IInv'
    BY <2>2, ReadNothing, ReadTurns
  <2>3. QED
    BY <1>8, <2>1, <2>2, ResumeStep, FinishStep DEF Run
<1>9. ASSUME NEW k \in Task, Add(k) PROVE IInv'
  <2>1. faults \in 0..MaxFaults
    BY DEF IInv, TypeInv
  <2>2. CASE AddTurns(k)
    <3>1. Land(k, NewRows(k)) /\ faults' \in 0..MaxFaults
      BY <2>1, <2>2 DEF AddTurns
    <3>2. QED
      BY <3>1, LandStep
  <2>3. ASSUME NEW t \in task[k].turns, DeferTurns(k, t.at) PROVE IInv'
    <3> DEFINE kept == {r \in NewRows(k) : r.turn.at < t.at}
    <3>1. Fault /\ Land(k, kept)
      BY <2>3 DEF DeferTurns
    <3>2. kept \in SUBSET NewRows(k) /\ faults' \in 0..MaxFaults
      BY <2>1, <3>1, FaultCounted
    <3>3. QED
      BY <3>1, <3>2, LandStep
  <2>4. QED
    BY <1>9, <2>2, <2>3, EmbedFailsStep, ReplaceStaleStep DEF Add
<1>10. CASE UNCHANGED vars
  BY <1>1, <1>10, Stutter DEF vars, loop
<1>11. QED
  BY <1>2, <1>3, <1>4, <1>5, <1>6, <1>7, <1>8, <1>9, <1>10, CrashStep DEF Next

-----------------------------------------------------------------------------
(* The theorems.                                                           *)

(* The inductive invariant holds in every reachable state.                 *)
THEOREM Invariance == Spec => []IInv
<1>1. Init => IInv
  BY InitHolds
<1>2. IInv /\ [Next]_vars => IInv'
  BY Inductive
<1>3. QED
  BY <1>1, <1>2, PTL DEF Spec

(* Every variable keeps its type: a parse returns turns and offsets.       *)
THEOREM TypeCorrect == Spec => []TypeOK
<1>1. IInv => TypeOK
  BY DEF IInv, TypeInv, TypeOK, TaskState
<1>2. QED
  BY <1>1, Invariance, PTL

(* A turn before a saved resume offset is stored in its last version, or   *)
(* the budget denied it: neither a crash nor a failed embedding nor an     *)
(* offset saved over another one skips a turn.                             *)
THEOREM NothingSkipped == Spec => []OffsetMeansStored
<1>1. ASSUME IInv PROVE OffsetMeansStored
  <2>1. SUFFICES ASSUME NEW f \in File, NEW c \in {disk[f].path, disk[f].source},
                        NEW r \in Wanted(f), r.turn.at < c.resume
                 PROVE  r \in rows \cup deferred
    BY DEF OffsetMeansStored
  <2>2. lines[f] \in Seq(LineKind) /\ Done(f, c.resume)
    BY <1>1 DEF IInv, TypeInv, CursorInv
  <2>3. PICK t \in Parse(lines[f], FALSE, 0).turns :
          WouldStore(lines[f], t) /\ r = [file |-> f, turn |-> t]
    BY DEF Wanted
  <2>4. 0 \in 0..Len(lines[f])
    BY <2>2
  <2>5. Latest(lines[f], t)
    BY <2>2, <2>4, WholeParse
  <2>6. t.at < c.resume
    BY <2>1, <2>3
  <2>7. IsStored(f, t)
    BY <2>2, <2>3, <2>5, <2>6 DEF Done, Due
  <2>8. QED
    BY <2>3, <2>7 DEF IsStored
<1>2. QED
  BY <1>1, Invariance, PTL

(* Between adds one version of each turn is searchable, except where a     *)
(* lookup failed or a crash came between storing it and tidying up.        *)
THEOREM OneSearchable == Spec => []OneVersion
<1>1. IInv => OneVersion
  BY DEF IInv, OneInv, OneVersion
<1>2. QED
  BY <1>1, Invariance, PTL

(* No step removes a row but for one at its place with all of its replies. *)
LEMMA NewerReplaces ==
  ASSUME IInv, [Next]_vars, NEW r \in rows
  PROVE  \E s \in rows' : /\ Place(s) = Place(r) /\ s.turn.kind = r.turn.kind
                          /\ r.turn.replies \subseteq s.turn.replies
<1>1. CASE r \in rows'
  BY <1>1
<1>2. CASE r \notin rows'
  <2>1. PICK k \in Task : ReplaceStale(k) /\ rows' = rows \ Stale(k)
    <3>1. ASSUME NEW k \in Task, Run(k) PROVE rows' = rows
      BY <3>1 DEF Run, Skip, Read, Resume, Finish
    <3>2. ASSUME NEW k \in Task, Add(k) PROVE ReplaceStale(k)
      <4>1. ASSUME NEW kept, Land(k, kept) PROVE FALSE
        BY <1>2, <4>1 DEF Land
      <4>2. ~EmbedFails(k)
        BY <1>2 DEF EmbedFails
      <4>3. QED
        BY <3>2, <4>1, <4>2 DEF Add, AddTurns, DeferTurns
    <3>3. ~(UNCHANGED vars) /\ ~Crash /\ ~ProcessBatch /\ ~Backfill /\ ~Enqueue /\ ~Drain
      BY <1>2 DEF vars, Crash, ProcessBatch, Backfill, Enqueue, Drain, Begin
    <3>4. \A f \in File : ~WriteLine(f) /\ ~Index(f)
      BY <1>2 DEF WriteLine, Index, Begin
    <3>5. PICK k \in Task : ReplaceStale(k)
      BY <1>2, <3>1, <3>2, <3>3, <3>4 DEF Next
    <3>6. rows' = rows \ Stale(k)
      BY <1>2, <3>5 DEF ReplaceStale
    <3>7. QED
      BY <3>5, <3>6
  <2>2. task[k].pc = "landed" /\ r \in Stale(k)
    BY <1>2, <2>1 DEF ReplaceStale
  <2>3. PICK l \in Landed(k) : /\ l \in rows /\ l \notin Stale(k) /\ Place(l) = Place(r)
                               /\ l.turn.kind = r.turn.kind
                               /\ r.turn.replies \subseteq l.turn.replies
    BY <2>2, StaleIsOld
  <2>4. QED
    BY <2>1, <2>3
<1>3. QED
  BY <1>1, <1>2

(* The stored version of a turn is only ever replaced by one with more of  *)
(* its replies, in whatever order files are read and rows are added.       *)
THEOREM NewestKept == Spec => NewestStays
<1>1. IInv /\ [Next]_vars =>
        [\A r \in rows : \E s \in rows' :
           Place(s) = Place(r) /\ s.turn.kind = r.turn.kind /\ r.turn.replies \subseteq s.turn.replies]_vars
  BY NewerReplaces
<1>2. QED
  BY <1>1, Invariance, PTL DEF Spec, NewestStays
=============================================================================
