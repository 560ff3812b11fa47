------------------------ MODULE Synchronisation_proofs ------------------------
(***************************************************************************)
(* What TLAPS proves of the numbers, marks and the order of the finds in    *)
(* the output directory: a resume restores the queue with its numbers, its  *)
(* marks and the position in it (ResumeRestores); and of the peer that reads *)
(* it meanwhile: it misses nothing (SyncMissesNothing).                     *)
(*                                                                         *)
(* The invariant Ordered says, of each phase that Inv of                    *)
(* OutputDirectory_proofs tells apart, what the next resume will find.      *)
(* FollowedUp adds what the numbers in the directory stand for: as long as   *)
(* they keep their meaning, a step of the owner leaves each number with its  *)
(* input, in queue/, in _resume/ or about to be written.                     *)
(***************************************************************************)
EXTENDS OutputDirectory_proofs

-----------------------------------------------------------------------------
(* The second invariant: what a resume finds.                               *)

(* Nothing is known to have been endangered; and the numbers of the inputs   *)
(* have had their meaning all along, or since cur_path was written.          *)
Trusted == atRisk = {} /\ ~stale
Counted == Trusted /\ (cited # Empty \/ ~again)

(* The files of a directory that read_testcases does not pass over.          *)
Full(d) == {f \in In(d) : f.input # Empty}
InOrder(d) == \A f, g \in Full(d) : f.id < g.id => f.input < g.input

(* Those that are marked, those numbered from 0 without a gap, and the one   *)
(* that cur_path names.                                                      *)
Marking(d) == \A f \in Full(d) : f.input \in marked => Exists(DetDone(d), f.id)
Numbered(d) == \A f \in Full(d) : \A i \in 0 .. f.id : \E g \in Full(d) : g.id = i
Citing(d) == cited # Empty => File(d, statsPos, cited) \in files
Restores(d) == (Trusted => Marking(d) /\ Citing(d)) /\ (Counted => Numbered(d))

(* The directory from which the next resume takes its inputs.                *)
Source == IF Free(Resume) THEN Queue ELSE Resume

(* At all times. *)
Always ==
    /\ InOrder(Queue) /\ InOrder(Resume)
    /\ \A j, k \in DOMAIN mem : j < k => mem[j].input < mem[k].input
    /\ marked \subseteq 0 .. finds
    /\ current \in Nat /\ seekTo \in Nat /\ statsPos \in Nat /\ again \in BOOLEAN

(* Starting: a resume reads what it found, a fresh session starts from       *)
(* nothing.                                                                  *)
StartingOrder ==
    /\ inPlace /\ Done = 0 => Restores(Source)
    /\ inPlace /\ Done # 0 => Restores(Resume) /\ (Free(Resume) => In(Queue) = {})
    /\ ~inPlace => /\ marked = {} /\ cited = Empty
                   /\ ~again => In(Queue) = {}

(* The entries in memory, and what is known of them.                         *)
CitedInMemory == Trusted /\ cited # Empty => statsPos + 1 \in DOMAIN mem /\ mem[statsPos + 1].input = cited
MarksNoted == \A m \in In(DetDone(Queue)) : mem[m.id + 1].input \in marked

(* Importing: _resume is what is in memory, or what is left of it.           *)
ImportingOrder ==
    /\ \A k \in DOMAIN mem : mem[k].passedDet =>
         \/ Exists(DetDone(Queue), k - 1)
         \/ \E p \in 1 .. Links0 : todo[p].path = DetDone(Queue) /\ todo[p].id = k - 1
    /\ MarksNoted
    /\ Trusted => \A k \in DOMAIN mem : mem[k].input \in marked => mem[k].passedDet
    /\ CitedInMemory
    /\ inPlace => /\ \A g \in Full(Resume) : g.input \in Inputs
                  /\ Counted => \A g \in Full(Resume) : g.id + 1 \in DOMAIN mem /\ mem[g.id + 1].input = g.input
                  /\ Links0 > 0 =>
                       \A g \in Full(Resume), k \in DOMAIN mem :
                           mem[k].input = g.input /\ mem[k].passedDet => Exists(DetDone(Resume), g.id)
    /\ ~inPlace => /\ marked = {} /\ \A k \in DOMAIN mem : ~mem[k].passedDet
                   /\ Len(todo) >= 2 => cited = Empty
    /\ Len(todo) <= 3 => /\ current = 0 /\ seekTo < Len(mem)
                         /\ Trusted /\ sought # Empty => mem[seekTo + 1].input = sought

(* Fuzzing: queue is what is in memory.                                      *)
FuzzingOrder ==
    /\ \A k \in DOMAIN mem :
         \/ File(Queue, k - 1, mem[k].input) \in files
         \/ \E p \in DOMAIN todo : todo[p].op = "write" /\ todo[p].path = Queue /\ todo[p].id = k - 1
    /\ \A p \in DOMAIN todo : todo[p].path = DetDone(Queue) => todo[p].input = mem[todo[p].id + 1].input
    /\ MarksNoted
    /\ Trusted => \A k \in DOMAIN mem : mem[k].input \in marked => Exists(DetDone(Queue), k - 1)
    /\ CitedInMemory
    /\ current < Len(mem)

Ordered ==
    /\ Typed /\ Tree /\ Always
    /\ \/ Rest /\ Restores(Source)
       \/ Starting /\ StartingOrder
       \/ Importing /\ ImportingOrder
       \/ Fuzzing /\ FuzzingOrder

-----------------------------------------------------------------------------
(* What the parts say of files. *)
LEMMA FullAt ==
    /\ \A d, f : f \in Full(d) <=> f \in files /\ f.dir = d /\ f.input # Empty
    /\ \A d, f : f \in Full(d)' <=> f \in files' /\ f.dir = d /\ f.input # Empty
    /\ \A d, i : Exists(d, i) <=> \E f \in files : f.dir = d /\ f.id = i
    /\ \A d, i : Exists(d, i)' <=> \E f \in files' : f.dir = d /\ f.id = i
    /\ \A d, f : f \in In(d) <=> f \in files /\ f.dir = d
    /\ \A d, f : f \in In(d)' <=> f \in files' /\ f.dir = d
BY DEF Full, Exists, In

LEMMA FileParts ==
    ASSUME NEW d, NEW i, NEW input
    PROVE  File(d, i, input).dir = d /\ File(d, i, input).id = i /\ File(d, i, input).input = input
BY DEF File

(* A file of Full, with its types. *)
LEMMA FullTypes ==
    ASSUME Typed, Tree, NEW d, d # Crashes, NEW f \in Full(d)
    PROVE  /\ f \in files /\ f.dir = d /\ f.input # Empty /\ f.id \in Nat /\ f.input \in 0 .. finds
           /\ f = File(d, f.id, f.input) /\ finds \in Nat
<1>1. f \in files /\ f.dir = d /\ f.input # Empty
  BY FullAt
<1>2. f.id \in Nat \cup {NoId} /\ (f.id = NoId => f.dir = Crashes) /\ f.input \in {Empty} \cup 0 .. finds /\ f = File(f.dir, f.id, f.input)
  BY <1>1, FilesAt
<1>3. finds \in Nat
  BY DEF Typed
<1> QED BY <1>1, <1>2, <1>3

LEMMA Two ==
    /\ Queue # Crashes /\ Resume # Crashes /\ Queue # Resume
    /\ DetDone(Queue) # Crashes /\ DetDone(Resume) # Crashes /\ DetDone(Queue) # DetDone(Resume)
    /\ DetDone(Queue) \notin {Queue, Resume} /\ DetDone(Resume) \notin {Queue, Resume}
    /\ State(Resume) \notin {Queue, Resume, Crashes, DetDone(Queue), DetDone(Resume)}
BY PathsDiffer, InSub, StateNames DEF Bases, Leaves

(* Entries with the same input are one. *)
LEMMA Ascending ==
    ASSUME Typed, Always, NEW j \in DOMAIN mem, NEW k \in DOMAIN mem, mem[j].input = mem[k].input
    PROVE  j = k
<1>1. j \in Nat /\ k \in Nat /\ mem[j].input \in 0 .. finds /\ mem[k].input \in 0 .. finds /\ finds \in Nat
  BY MemEntries
<1>2. \A a, b \in DOMAIN mem : a < b => mem[a].input < mem[b].input
  BY DEF Always
<1>3. ~(j < k) /\ ~(k < j)
  BY <1>1, <1>2
<1> QED BY <1>1, <1>3

(* A directory of which nothing changes is restored as before, or endangered. *)
LEMMA RestoresStill ==
    ASSUME NEW d, Restores(d), \A f \in files : f.dir \in {d, DetDone(d)} => f \in files',
           \A f \in files' : f.dir = d => f \in files,
           atRisk \subseteq atRisk', UNCHANGED <<stale, cited, statsPos, marked>>, again => again'
    PROVE  Restores(d)'
<1>1. (Trusted' => Trusted) /\ (Counted' => Counted)
  BY DEF Trusted, Counted
<1>2. Marking(d) => Marking(d)'
  <2> SUFFICES ASSUME Marking(d), NEW f \in Full(d)', f.input \in marked' PROVE Exists(DetDone(d), f.id)'
    BY DEF Marking
  <2>1. f \in Full(d)
    BY FullAt
  <2>2. PICK m \in files : m.dir = DetDone(d) /\ m.id = f.id
    BY <2>1, FullAt DEF Marking
  <2> QED BY <2>2, FullAt
<1>3. Citing(d) => Citing(d)'
  BY FileParts DEF Citing
<1>4. Numbered(d) => Numbered(d)'
  <2>1. \A f : f \in Full(d)' <=> f \in Full(d)
    BY FullAt
  <2> QED BY <2>1 DEF Numbered
<1> QED BY <1>1, <1>2, <1>3, <1>4 DEF Restores

(* The queue is complete: it restores what is in memory. *)
LEMMA QueueRestores ==
    ASSUME Typed, Tree, Always, InMemory, CitedInMemory,
           \A k \in DOMAIN mem : File(Queue, k - 1, mem[k].input) \in files,
           Trusted => \A k \in DOMAIN mem : mem[k].input \in marked => Exists(DetDone(Queue), k - 1)
    PROVE  Restores(Queue)
<1>1. \A k \in DOMAIN mem : k \in Nat /\ k >= 1 /\ mem[k].input \in 0 .. finds
  BY MemEntries
<1>2. ASSUME NEW f \in Full(Queue)
      PROVE  f.id \in Nat /\ f.id + 1 \in DOMAIN mem /\ f.input = mem[f.id + 1].input
  <2>1. f \in In(Queue) /\ f.input # Empty /\ f.id \in Nat
    BY FullAt, FullTypes, Two
  <2> QED BY <2>1 DEF InMemory
<1>3. Trusted => Marking(Queue)
  <2> SUFFICES ASSUME Trusted, NEW f \in Full(Queue), f.input \in marked PROVE Exists(DetDone(Queue), f.id)
    BY DEF Marking
  <2>1. f.id + 1 - 1 = f.id
    BY <1>2
  <2> QED BY <1>2, <2>1
<1>4. Trusted => Citing(Queue)
  <2> SUFFICES ASSUME Trusted, cited # Empty PROVE File(Queue, statsPos, cited) \in files
    BY DEF Citing
  <2>1. statsPos + 1 \in DOMAIN mem /\ mem[statsPos + 1].input = cited /\ statsPos \in Nat
    BY DEF CitedInMemory, Always
  <2>2. PICK k \in DOMAIN mem : k = statsPos + 1
    BY <2>1
  <2>3. k - 1 = statsPos
    BY <2>1, <2>2
  <2>4. File(Queue, k - 1, mem[k].input) \in files
    OBVIOUS
  <2> QED BY <2>1, <2>2, <2>3, <2>4
<1>5. Numbered(Queue)
  <2> SUFFICES ASSUME NEW f \in Full(Queue), NEW i \in 0 .. f.id PROVE \E g \in Full(Queue) : g.id = i
    BY DEF Numbered
  <2>1. f.id \in Nat /\ f.id + 1 \in DOMAIN mem /\ DOMAIN mem = 1 .. Len(mem) /\ Len(mem) \in Nat
    BY <1>2, MemEntries
  <2>2. i + 1 \in DOMAIN mem /\ (i + 1) - 1 = i
    BY <2>1
  <2>3. File(Queue, i, mem[i + 1].input) \in files
    BY <2>2
  <2>4. mem[i + 1].input # Empty
    <3>1. mem[i + 1].input \in 0 .. finds
      BY <1>1, <2>2
    <3> QED BY <3>1 DEF Empty
  <2> QED BY <2>3, <2>4, FileParts, FullAt
<1> QED BY <1>3, <1>4, <1>5 DEF Restores

(* What is in memory is in _resume: another resume finds it there. *)
LEMMA ResumeRestored ==
    ASSUME Typed, Tree, Always, CitedInMemory, mem # << >>,
           Inputs \subseteq Holds(Resume), Trusted => Marking(Resume),
           Counted => \A g \in Full(Resume) : g.id + 1 \in DOMAIN mem /\ mem[g.id + 1].input = g.input
    PROVE  ~Free(Resume) /\ Restores(Resume)
<1>1. DOMAIN mem = 1 .. Len(mem) /\ Len(mem) \in Nat /\ \A k \in DOMAIN mem : k \in Nat /\ mem[k].input \in 0 .. finds
  BY MemEntries
<1>2. ASSUME NEW k \in DOMAIN mem PROVE \E g \in Full(Resume) : g.input = mem[k].input
  <2>1. mem[k].input \in Holds(Resume) /\ mem[k].input # Empty
    BY <1>1 DEF Inputs, Empty
  <2> QED BY <2>1, HoldsAt, FullAt
<1>3. ASSUME Counted, NEW k \in DOMAIN mem
      PROVE  \E g \in Full(Resume) : g.id = k - 1 /\ g.input = mem[k].input
  <2>1. PICK g \in Full(Resume) : g.input = mem[k].input
    BY <1>2
  <2>2. g.id + 1 \in DOMAIN mem /\ mem[g.id + 1].input = mem[k].input
    BY <1>3, <2>1
  <2>3. g.id + 1 = k
    BY <2>2, Ascending
  <2>4. g.id \in Nat
    BY FullTypes, Two
  <2> QED BY <2>1, <2>3, <2>4
<1>4. ~Free(Resume)
  <2>1. 1 \in DOMAIN mem
    BY <1>1
  <2>2. PICK g \in Full(Resume) : TRUE
    BY <1>2, <2>1
  <2> QED BY <2>2, FullAt DEF Free
<1>5. Trusted => Citing(Resume)
  <2> SUFFICES ASSUME Trusted, cited # Empty PROVE File(Resume, statsPos, cited) \in files
    BY DEF Citing
  <2>1. statsPos + 1 \in DOMAIN mem /\ mem[statsPos + 1].input = cited /\ statsPos \in Nat /\ Counted
    BY DEF CitedInMemory, Always, Counted
  <2>a. PICK k \in DOMAIN mem : k = statsPos + 1
    BY <2>1
  <2>b. k - 1 = statsPos
    BY <2>1, <2>a
  <2>2. PICK g \in Full(Resume) : g.id = k - 1 /\ g.input = mem[k].input
    BY <1>3, <2>1
  <2>c. g.id = statsPos /\ g.input = cited
    BY <2>1, <2>2, <2>a, <2>b
  <2> QED BY <2>c, FullTypes, Two
<1>6. Counted => Numbered(Resume)
  <2> SUFFICES ASSUME Counted, NEW f \in Full(Resume), NEW i \in 0 .. f.id PROVE \E g \in Full(Resume) : g.id = i
    BY DEF Numbered
  <2>1. f.id \in Nat /\ f.id + 1 \in DOMAIN mem
    BY FullTypes, Two
  <2>2. i + 1 \in DOMAIN mem /\ (i + 1) - 1 = i
    BY <1>1, <2>1
  <2>3. PICK g \in Full(Resume) : g.id = (i + 1) - 1
    BY <1>3, <2>2
  <2> QED BY <2>2, <2>3
<1> QED BY <1>4, <1>5, <1>6 DEF Restores

(* Starting, no command but the rename touches _resume. *)
LEMMA StartingElsewhere ==
    ASSUME Typed, Starting, Next1.op \notin {"rename", "read"}
    PROVE  /\ Next1.path \notin {Resume, State(Resume), DetDone(Resume)}
           /\ Next1.id = NoId
           /\ inPlace => Done # 0
           /\ Next1.op = "create" => Next1.path = PlotData
<1>1. Done + 1 \in 1 .. Total /\ Next1 = Program(inPlace)[Done + 1] /\ inPlace \in BOOLEAN /\ N \in Nat /\ N >= 1 /\ Done \in Nat
  BY StartingHead
<1>2. \A j \in 1 .. N : Sub(Queue, StateDirs[j]) \notin {Resume, State(Resume), DetDone(Resume)}
  BY PathsDiffer, InSub, StateNames DEF Bases
<1>3. {Queue, State(Queue), Synced, Crashes, Hangs} \cap {Resume, State(Resume), DetDone(Resume)} = {}
  BY PathsDiffer, InSub, StateNames DEF Bases, Leaves
<1>4. Unlinked \cap {Resume, State(Resume), DetDone(Resume)} = {}
  <2>1. \A d \in {State(Resume), DetDone(Resume)} : Len(d) # 1
    <3>1. Resume \in Bases /\ "deterministic_done" \in Range(StateDirs)
      BY StateNames DEF Bases
    <3>2. Len(State(Resume)) = 2 /\ Len(DetDone(Resume)) = 3
      BY <3>1, StatePath, SubPath, InSub
    <3> QED BY <3>2
  <2>2. \A u \in Unlinked : Len(u) = 1
    BY DEF Unlinked, CurInput, PlotData
  <2>3. Resume \notin Unlinked
    BY DEF Unlinked, CurInput, PlotData, Resume
  <2> QED BY <2>1, <2>2, <2>3
<1>5. PlotData \in Unlinked
  BY DEF Unlinked
<1>6. PICK p \in 1 .. Total : p = Done + 1
  BY <1>1
<1>7. Next1 = Program(inPlace)[p]
  BY <1>1, <1>6
<1>8. Next1.id = NoId /\ (Next1.op = "create" => Next1.path = PlotData)
  BY <1>1, <1>7, Heads
<1>9. Next1.op \in {"rename", "clear", "rmdir", "backup", "unlink", "mkdir", "create", "read"}
  BY <1>1, <1>7, Heads
<1>10. /\ Next1.op = "clear" => Next1.path \in {Synced, Queue, Crashes, Hangs} \cup {Sub(Queue, StateDirs[j]) : j \in 1 .. N}
       /\ Next1.op = "rmdir" => Next1.path = State(Queue)
       /\ Next1.op = "backup" => Next1.path \in {Crashes, Hangs}
       /\ Next1.op = "unlink" => Next1.path \in {Crashes} \cup Unlinked
       /\ Next1.op = "mkdir" => Next1.path \in {Queue, State(Queue), Synced, Crashes, Hangs} \cup {Sub(Queue, StateDirs[j]) : j \in 1 .. N}
  <2>1. PICK c : c = Next1
    OBVIOUS
  <2>2. c = Program(inPlace)[p]
    BY <1>7, <2>1
  <2>3. c.op = "clear" => c.path \in {Synced, Queue, Crashes, Hangs} \cup {Sub(Queue, StateDirs[j]) : j \in 1 .. N}
    BY <1>1, <2>2, Heads
  <2>4. c.op = "rmdir" => c.path = State(Queue)
    BY <1>1, <2>2, Heads
  <2>5. c.op = "backup" => c.path \in {Crashes, Hangs}
    BY <1>1, <2>2, Heads
  <2>6. c.op = "unlink" => c.path \in {Crashes} \cup Unlinked
    BY <1>1, <2>2, Heads DEF Unlinked
  <2>7. c.op = "mkdir" => c.path \in {Queue, State(Queue), Synced, Crashes, Hangs} \cup {Sub(Queue, StateDirs[j]) : j \in 1 .. N}
    BY <1>1, <2>2, Heads
  <2> QED BY <2>1, <2>3, <2>4, <2>5, <2>6, <2>7
<1>11. Next1.path \notin {Resume, State(Resume), DetDone(Resume)}
  BY <1>2, <1>3, <1>4, <1>5, <1>8, <1>9, <1>10
<1>12. ASSUME inPlace PROVE Done # 0
  <2> SUFFICES ASSUME Done = 0 PROVE FALSE
    OBVIOUS
  <2>1. Program(inPlace)[1] = CleanUp(inPlace)[1]
    <3>1. 1 \in 1 .. N + 10
      BY <1>1
    <3> QED BY <1>1, <3>1, ProgramAt
  <2>2. CleanUp(inPlace)[1] = Do("rename", Queue)
    BY <1>1, <1>12, CleanUpAt
  <2>3. Next1 = Do("rename", Queue)
    BY <1>1, <2>1, <2>2
  <2> QED BY <2>3 DEF Do
<1> QED BY <1>8, <1>11, <1>12

-----------------------------------------------------------------------------
(* Starting. *)

Steady == UNCHANGED <<current, seekTo, statsPos, cited, sought, again>>

(* A command that takes files away elsewhere than in _resume, or none. *)
LEMMA StartingStays ==
    ASSUME Typed, Tree, Always, Starting, StartingOrder, Starting', Steady,
           UNCHANGED <<marked, stale, finds, inPlace, atRisk>>, files' \subseteq files,
           \A f \in files : f.dir \in {Resume, DetDone(Resume)} => f \in files',
           State(Resume) \in dirs' <=> State(Resume) \in dirs,
           todo' = todo \/ todo' = Tail(todo), inPlace => Done # 0
    PROVE  Always' /\ StartingOrder'
<1>1. Always'
  <2>1. \A d : \A f \in Full(d)' : f \in Full(d)
    BY FullAt
  <2>2. InOrder(Queue)' /\ InOrder(Resume)'
    BY <2>1 DEF Always, InOrder
  <2>3. mem' = << >>
    BY DEF Starting
  <2> QED BY <2>2, <2>3 DEF Always, Steady
<1>2. inPlace => Done' # 0
  <2>1. todo # << >> /\ Len(todo) \in Nat /\ Done \in Nat /\ todo \in Seq(Command)
    BY StartingHead DEF Typed
  <2>2. Len(todo') = Len(todo) \/ Len(todo') = Len(todo) - 1
    BY <2>1
  <2>3. Done = Total - Len(todo) /\ Done' = Total - Len(todo') /\ Total \in Nat
    BY StartingHead DEF Done, Total
  <2> HIDE DEF Done, Total
  <2> QED BY <2>1, <2>2, <2>3
<1>3. In(Queue)' \subseteq In(Queue)
  BY FullAt
<1>4. ASSUME inPlace PROVE Restores(Resume)'
  <2>1. Restores(Resume)
    BY <1>4 DEF StartingOrder
  <2> QED BY <2>1, RestoresStill DEF Steady
<1>5. Free(Resume)' => Free(Resume)
  BY FullAt DEF Free
<1>6. Steady
  OBVIOUS
<1> QED BY <1>1, <1>2, <1>3, <1>4, <1>5, <1>6 DEF StartingOrder, Steady

(* Of the commands of start-up only the rename touches _resume. *)
LEMMA StartingTakes ==
    ASSUME Typed, Starting, Starting', Clear \/ Rmdir \/ Backup \/ Unlink \/ Mkdir \/ Create
    PROVE  /\ UNCHANGED <<marked, stale, atRisk, mem, inPlace>> /\ files' \subseteq files
           /\ \A f \in files : f.dir \in {Resume, DetDone(Resume)} => f \in files'
           /\ State(Resume) \in dirs' <=> State(Resume) \in dirs
           /\ todo' = todo \/ todo' = Tail(todo)
           /\ inPlace => Done # 0
<1>0. Next1.op \notin {"rename", "read"}
  BY DEF Clear, Rmdir, Backup, Unlink, Mkdir, Create, Does
<1>1. /\ Next1.path \notin {Resume, State(Resume), DetDone(Resume)} /\ Next1.id = NoId
      /\ inPlace => Done # 0
      /\ Next1.op = "create" => Next1.path = PlotData
  BY <1>0, StartingElsewhere
<1>2. running' /\ todo' # << >>
  BY DEF Starting, Runs
<1>3. ~Ends(fatal') /\ \A why : ~Fails(why)
  BY <1>2 DEF Ends, Fails
<1>4. Step => todo' = Tail(todo) /\ UNCHANGED <<running, inPlace, mem, crashes, fatal>>
  BY DEF Step, session
<1>5. CASE Clear
  <2> DEFINE d == Next1.path
  <2>1. UNCHANGED <<marked, stale, atRisk>>
    BY <1>5 DEF Clear, history
  <2>2. \/ Step /\ files' = files /\ (dirs' = dirs \/ dirs' = dirs \ {d})
        \/ (\E f \in In(d) : files' = files \ {f}) /\ UNCHANGED <<dirs, todo, session>>
    BY <1>3, <1>5 DEF Clear
  <2>3. files' \subseteq files /\ (\A f \in files : f.dir # d => f \in files') /\ inPlace' = inPlace /\ mem' = mem
        /\ (todo' = todo \/ todo' = Tail(todo)) /\ (dirs' = dirs \/ dirs' = dirs \ {d})
    BY <1>4, <2>2 DEF In, session
  <2> HIDE DEF d
  <2>4. d \notin {Resume, State(Resume), DetDone(Resume)}
    BY <1>1 DEF d
  <2> QED BY <1>1, <2>1, <2>3, <2>4
<1>6. CASE Rmdir
  <2>1. UNCHANGED <<marked, stale, atRisk, files>> /\ dirs' = dirs \ {Next1.path} /\ Step
    BY <1>3, <1>6 DEF Rmdir, history
  <2> QED BY <1>1, <1>4, <2>1
<1>7. CASE Mkdir
  <2>1. UNCHANGED <<marked, stale, atRisk, files>> /\ dirs' = dirs \cup {Next1.path} /\ Step
    BY <1>3, <1>7 DEF Mkdir, history
  <2> QED BY <1>1, <1>4, <2>1
<1>8. CASE Backup
  <2>1. UNCHANGED <<marked, stale, atRisk>> /\ dirs' = dirs \ {Next1.path} /\ files' = files \ In(Next1.path) /\ Step
    BY <1>8 DEF Backup
  <2>2. files' \subseteq files /\ \A f \in files : f.dir # Next1.path => f \in files'
    BY <2>1 DEF In
  <2> QED BY <1>1, <1>4, <2>1, <2>2
<1>9. CASE Unlink
  <2>1. UNCHANGED <<marked, stale, atRisk, dirs>> /\ files' = {f \in files : f.dir # Next1.path \/ f.id # Next1.id} /\ Step
    BY <1>9 DEF Unlink, history
  <2>2. files' \subseteq files /\ \A f \in files : f.dir # Next1.path => f \in files'
    BY <2>1
  <2> QED BY <1>1, <1>4, <2>1, <2>2
<1>10. CASE Create
  <2>1. Next1.path = PlotData /\ Next1.id = NoId
    BY <1>1, <1>10 DEF Create, Does
  <2>2. Len(Next1.path) = 1
    BY <2>1 DEF PlotData
  <2>3. UNCHANGED <<files, marked, dirs, stale, atRisk>> /\ Step
    BY <1>3, <1>10, <2>1, <2>2 DEF Create
  <2> QED BY <1>1, <1>4, <2>3
<1> QED BY <1>5, <1>6, <1>7, <1>8, <1>9, <1>10

(* So the next resume will find the same. *)
LEMMA StartingFollows ==
    ASSUME Typed, Tree, Always, Starting, StartingOrder, Steady, UNCHANGED <<finds, stale>>, Starting',
           Clear \/ Rmdir \/ Backup \/ Unlink \/ Mkdir \/ Create
    PROVE  Always' /\ StartingOrder'
<1>1. /\ UNCHANGED <<marked, atRisk, inPlace>> /\ files' \subseteq files
      /\ \A f \in files : f.dir \in {Resume, DetDone(Resume)} => f \in files'
      /\ State(Resume) \in dirs' <=> State(Resume) \in dirs
      /\ todo' = todo \/ todo' = Tail(todo)
      /\ inPlace => Done # 0
  BY StartingTakes
<1> QED BY <1>1, StartingStays

(* What the rename does to the files. *)
LEMMA RenamedFiles ==
    ASSUME Tree, In(Resume) = {},
           files' = {[f EXCEPT !.dir = Moved(Queue, Resume, @)] : f \in files}
    PROVE  /\ \A f \in files : f.dir = Queue => File(Resume, f.id, f.input) \in files'
           /\ \A f \in files : f.dir = DetDone(Queue) => File(DetDone(Resume), f.id, f.input) \in files'
           /\ \A g \in files' : g.dir = Resume => g = File(Resume, g.id, g.input) /\ File(Queue, g.id, g.input) \in files
           /\ \A g \in files' : g.dir # Queue
<1>1. \A f \in files : f.dir \in FileDirs /\ f = File(f.dir, f.id, f.input)
  BY FilesAt DEF In
<1>2. \A f \in files : [f EXCEPT !.dir = Moved(Queue, Resume, @)] = File(Moved(Queue, Resume, f.dir), f.id, f.input)
  BY <1>1 DEF File
<1>3. files' = {File(Moved(Queue, Resume, f.dir), f.id, f.input) : f \in files}
  BY <1>2
<1>4. /\ Moved(Queue, Resume, Queue) = Resume /\ Moved(Queue, Resume, DetDone(Queue)) = DetDone(Resume)
      /\ \A d \in {Resume, DetDone(Resume), Crashes} : Moved(Queue, Resume, d) = d
  <2>1. DetDone(Resume) \in Family(Resume) /\ Resume \in Family(Resume) /\ Crashes \in Leaves
    BY InSub, StateNames DEF Family, Leaves
  <2> QED BY <2>1, MovedTo, InSub, StateNames
<1>5. \A f \in files : f.dir # Resume
  BY DEF In
<1>6. \A f \in files : f.dir \in {Queue, DetDone(Queue), DetDone(Resume), Crashes}
  BY <1>1, <1>5 DEF FileDirs
<1>7. ASSUME NEW g \in files', g.dir = Resume
      PROVE  g = File(Resume, g.id, g.input) /\ File(Queue, g.id, g.input) \in files
  <2>1. PICK f \in files : g = File(Moved(Queue, Resume, f.dir), f.id, f.input)
    BY <1>3
  <2>2. Moved(Queue, Resume, f.dir) = Resume /\ g.id = f.id /\ g.input = f.input
    BY <1>7, <2>1, FileParts
  <2>3. f.dir = Queue
    BY <1>4, <1>6, <2>2, Two
  <2> QED BY <1>1, <2>1, <2>2, <2>3
<1>8. ASSUME NEW g \in files' PROVE g.dir # Queue
  <2>1. PICK f \in files : g = File(Moved(Queue, Resume, f.dir), f.id, f.input)
    BY <1>3
  <2>2. Moved(Queue, Resume, f.dir) # Queue
    BY <1>4, <1>6, Two
  <2> QED BY <2>1, <2>2, FileParts
<1>9. ASSUME NEW f \in files PROVE File(Moved(Queue, Resume, f.dir), f.id, f.input) \in files'
  BY <1>3
<1> QED BY <1>4, <1>7, <1>8, <1>9

(* The rename cannot be done: _resume is in use, or there is no queue. *)
LEMMA NotRenamed ==
    ASSUME Tree, ~CanRename(Queue, Resume)
    PROVE  Free(Resume) => In(Queue) = {}
<1>1. CASE Queue \notin dirs
  BY <1>1, FilesAt
<1>2. CASE Queue \in dirs
  <2> SUFFICES ASSUME Free(Resume) PROVE FALSE
    OBVIOUS
  <2>1. Resume \in dirs /\ ~IsEmpty(Resume)
    BY <1>2 DEF CanRename
  <2>2. PICK e \in dirs : IsStrictPrefix(Resume, e)
    BY <2>1 DEF IsEmpty, Free
  <2>3. e \in KnownDirs /\ Resume \in Bases
    BY DEF Tree, Bases
  <2>4. e = State(Resume) \/ \E s \in Range(StateDirs) : e = Sub(Resume, s)
    BY <2>2, <2>3, Below
  <2>5. State(Resume) \in dirs
    BY <2>4, Zenon DEF Tree
  <2> QED BY <2>5 DEF Free
<1> QED BY <1>1, <1>2

(* If nothing is left, nothing was to be restored. *)
LEMMA NothingThere ==
    ASSUME NEW d, Restores(d), In(d) = {}, NEW e, In(e) = {}
    PROVE  Restores(e)
<1>1. Full(d) = {} /\ Full(e) = {}
  BY DEF Full
<1>2. \A i, input : File(d, i, input) \notin files
  BY FileParts DEF In
<1>3. Marking(e) /\ Numbered(e) /\ (Citing(d) => Citing(e))
  BY <1>1, <1>2 DEF Marking, Numbered, Citing
<1> QED BY <1>3 DEF Restores

LEMMA StartingMoves ==
    ASSUME Typed, Tree, Always, Starting, StartingOrder, Steady, UNCHANGED <<finds, stale>>, Starting', RenameQueue
    PROVE  Always' /\ StartingOrder'
<1>1. UNCHANGED <<marked, stale, atRisk>> /\ Step /\ Next1.op = "rename"
  BY DEF RenameQueue, history, Does
<1>2. Done \in Nat /\ N \in Nat /\ Done + 1 \in 1 .. Total /\ Next1 = Program(inPlace)[Done + 1] /\ inPlace \in BOOLEAN /\ Len(todo) \in Nat
      /\ todo # << >>
  BY StartingHead
<1>3. Done = 0 /\ inPlace
  <2>1. Done + 1 = 1 /\ inPlace
    BY <1>1, <1>2, Heads
  <2> QED BY <1>2, <2>1
<1>4. Done' # 0 /\ inPlace' = inPlace
  <2>1. todo' = Tail(todo) /\ todo \in Seq(Command) /\ inPlace' = inPlace
    BY <1>1 DEF Step, Typed, session
  <2>2. Len(todo') = Len(todo) - 1
    BY <1>2, <2>1
  <2>3. Done = Total - Len(todo) /\ Done' = Total - Len(todo') /\ Total \in Nat
    BY <1>2 DEF Done, Total
  <2>4. Done = 0 /\ Len(todo) \in Nat
    BY <1>2, <1>3
  <2> HIDE DEF Done, Total
  <2>5. Done' = 1
    BY <2>2, <2>3, <2>4
  <2> QED BY <2>1, <2>5
<1>5. Restores(Source)
  BY <1>3 DEF StartingOrder
<1>6. mem' = << >>
  BY DEF Starting
<1>7. CASE CanRename(Queue, Resume)
  <2>1. files' = {[f EXCEPT !.dir = Moved(Queue, Resume, @)] : f \in files}
        /\ dirs' = {Moved(Queue, Resume, d) : d \in dirs}
    BY <1>7 DEF RenameQueue
  <2>2. In(Resume) = {}
    <3>1. UNCHANGED <<plain, finds>>
      BY DEF RenameQueue
    <3> QED BY <1>7, <2>1, <3>1, Renamed
  <2>3. /\ \A f \in files : f.dir = Queue => File(Resume, f.id, f.input) \in files'
        /\ \A f \in files : f.dir = DetDone(Queue) => File(DetDone(Resume), f.id, f.input) \in files'
        /\ \A g \in files' : g.dir = Resume => g = File(Resume, g.id, g.input) /\ File(Queue, g.id, g.input) \in files
        /\ \A g \in files' : g.dir # Queue
    BY <2>1, <2>2, RenamedFiles
  <2>4. State(Resume) \notin dirs
    <3> SUFFICES ASSUME State(Resume) \in dirs PROVE FALSE
      OBVIOUS
    <3>1. Resume \in dirs /\ IsStrictPrefix(Resume, State(Resume))
      <4>1. Resume \in Bases
        BY DEF Bases
      <4> QED BY <4>1, Under DEF Tree
    <3> QED BY <1>7, <3>1 DEF CanRename, IsEmpty
  <2>5. Restores(Queue)
    BY <1>5, <2>2, <2>4 DEF Source, Free
  <2>6. In(Queue)' = {}
    BY <2>3, FullAt
  <2>7. ASSUME NEW g \in Full(Resume)'
        PROVE  g = File(Resume, g.id, g.input) /\ File(Queue, g.id, g.input) \in Full(Queue)
    BY <2>3, FullAt, FileParts
  <2>8. ASSUME NEW f \in Full(Queue)
        PROVE  File(Resume, f.id, f.input) \in Full(Resume)'
    BY <2>3, FullAt, FileParts
  <2>9. InOrder(Queue)' /\ InOrder(Resume)'
    <3>1. InOrder(Queue)'
      BY <2>6 DEF InOrder, Full
    <3>2. ASSUME NEW f \in Full(Resume)', NEW g \in Full(Resume)', f.id < g.id PROVE f.input < g.input
      <4>1. File(Queue, f.id, f.input) \in Full(Queue) /\ File(Queue, g.id, g.input) \in Full(Queue)
        BY <2>7
      <4> QED BY <3>2, <4>1, FileParts DEF Always, InOrder
    <3> QED BY <3>1, <3>2 DEF InOrder
  <2>10. Marking(Queue) => Marking(Resume)'
    <3> SUFFICES ASSUME Marking(Queue), NEW g \in Full(Resume)', g.input \in marked PROVE Exists(DetDone(Resume), g.id)'
      BY <1>1 DEF Marking
    <3>1. Exists(DetDone(Queue), g.id)
      BY <2>7, FileParts DEF Marking
    <3>2. PICK m \in files : m.dir = DetDone(Queue) /\ m.id = g.id
      BY <3>1, FullAt
    <3> QED BY <2>3, <3>2, FullAt, FileParts
  <2>11. Citing(Queue) => Citing(Resume)'
    <3> SUFFICES ASSUME Citing(Queue), cited # Empty PROVE File(Resume, statsPos, cited) \in files'
      BY DEF Citing, Steady
    <3>1. File(Queue, statsPos, cited) \in files
      BY DEF Citing
    <3> QED BY <2>3, <3>1, FileParts
  <2>12. Numbered(Queue) => Numbered(Resume)'
    <3> SUFFICES ASSUME Numbered(Queue), NEW g \in Full(Resume)', NEW i \in 0 .. g.id PROVE \E h \in Full(Resume)' : h.id = i
      BY DEF Numbered
    <3>1. PICK h \in Full(Queue) : h.id = i
      BY <2>7, FileParts DEF Numbered
    <3> QED BY <2>8, <3>1, FileParts
  <2>13. (Trusted' <=> Trusted) /\ (Counted' <=> Counted)
    BY <1>1 DEF Trusted, Counted, Steady
  <2>14. Restores(Resume)'
    BY <2>5, <2>10, <2>11, <2>12, <2>13 DEF Restores
  <2>15. Always'
    BY <1>1, <1>6, <2>9 DEF Always, Steady
  <2> QED BY <1>3, <1>4, <2>6, <2>14, <2>15 DEF StartingOrder
<1>8. CASE ~CanRename(Queue, Resume)
  <2>1. UNCHANGED <<dirs, files>>
    BY <1>8 DEF RenameQueue
  <2>2. Free(Resume) => In(Queue) = {}
    BY <1>8, NotRenamed
  <2>3. Restores(Resume)
    <3>1. CASE Free(Resume)
      <4>1. In(Resume) = {} /\ Source = Queue
        BY <3>1 DEF Free, Source
      <4> QED BY <1>5, <2>2, <3>1, <4>1, NothingThere
    <3>2. CASE ~Free(Resume)
      BY <1>5, <3>2 DEF Source
    <3> QED BY <3>1, <3>2
  <2>4. Restores(Resume)'
    BY <1>1, <2>1, <2>3, RestoresStill DEF Steady
  <2>5. (Free(Resume)' <=> Free(Resume)) /\ In(Queue)' = In(Queue)
    BY <2>1 DEF Free, In
  <2>6. InOrder(Queue)' /\ InOrder(Resume)'
    BY <2>1 DEF Always, InOrder, Full, In
  <2>7. Always'
    BY <1>1, <1>6, <2>6 DEF Always, Steady
  <2> QED BY <1>3, <1>4, <2>2, <2>4, <2>5, <2>7 DEF StartingOrder
<1> QED BY <1>7, <1>8

Phases == \/ Rest /\ Restores(Source)
          \/ Starting /\ StartingOrder
          \/ Importing /\ ImportingOrder
          \/ Fuzzing /\ FuzzingOrder

(* The source of a resume is the same, with what it restores. *)
LEMMA SourceStill ==
    ASSUME Restores(Source), files' = files, State(Resume) \in dirs' <=> State(Resume) \in dirs,
           atRisk \subseteq atRisk', UNCHANGED <<stale, cited, statsPos, marked>>, again => again'
    PROVE  Restores(Source)'
<1>1. Source' = Source
  BY DEF Source, Free, In
<1>2. PICK d : d = Source
  OBVIOUS
<1>3. Restores(d)
  BY <1>2
<1>4. Restores(d)'
  BY <1>3, RestoresStill
<1>5. Source' = d
  BY <1>1, <1>2
<1>6. CASE d = Queue
  <2>1. Restores(Queue)' /\ Source' = Queue
    BY <1>4, <1>5, <1>6
  <2>2. Free(Resume)' \/ Queue = Resume
    BY <2>1 DEF Source
  <2> QED BY <2>1, <2>2, Two DEF Source
<1>7. CASE d = Resume
  <2>1. Restores(Resume)' /\ Source' = Resume
    BY <1>4, <1>5, <1>7
  <2>2. ~Free(Resume)' \/ Queue = Resume
    BY <2>1 DEF Source
  <2> QED BY <2>1, <2>2, Two DEF Source
<1> QED BY <1>2, <1>6, <1>7 DEF Source

(* A session begins, or is refused. *)
LEMMA BeginOrder ==
    ASSUME Typed, Tree, Always, Rest, Restores(Source), NEW resume \in BOOLEAN, Begin(resume),
           cited' = (IF ~resume /\ running' THEN Empty ELSE cited), UNCHANGED <<current, seekTo, statsPos, sought>>,
           again' = (again \/ (<< >> \in dirs /\ ~running /\ running' /\ ~inPlace'))
    PROVE  Always' /\ Phases'
<1> DEFINE refused == IF << >> \notin dirs THEN IF resume THEN "no directory" ELSE "none"
                      ELSE IF stats = "empty" THEN "malformed"
                      ELSE IF stats = "much" /\ ~resume THEN "much at stake"
                      ELSE "none"
<1>1. UNCHANGED <<files, plain, stats, finds>>
  BY DEF Begin
<1>2. Typed' /\ Tree' /\ (Rest \/ Starting)'
  BY BeginKeeps
<1>3. (\A d : Full(d)' = Full(d)) /\ InOrder(Queue)' /\ InOrder(Resume)'
  BY <1>1 DEF Full, In, InOrder, Always
<1>4. ASSUME mem' = << >>, marked' \subseteq 0 .. finds
      PROVE  Always'
  <2>1. again' \in BOOLEAN /\ current' \in Nat /\ seekTo' \in Nat /\ statsPos' \in Nat
    BY DEF Always
  <2> QED BY <1>1, <1>3, <1>4, <2>1 DEF Always
<1>a. marked \subseteq 0 .. finds /\ mem = << >> /\ ~running
  BY DEF Always, Rest
<1>5. CASE refused # "none"
  <2>1. Ends(refused) /\ dirs' = dirs \cup {<< >>} /\ UNCHANGED history
    BY <1>5, Zenon DEF Begin
  <2>2. /\ running' = FALSE /\ mem' = << >> /\ UNCHANGED <<marked, atRisk, stale>>
        /\ State(Resume) \in dirs' <=> State(Resume) \in dirs
    <3>1. State(Resume) # << >>
      BY Apart
    <3> QED BY <2>1, <3>1 DEF Ends, history
  <2>3. Rest'
    BY <1>2, <2>2 DEF Starting, Runs
  <2>4. cited' = cited /\ again' = again
    BY <2>2 DEF Always
  <2>5. Restores(Source)'
    BY <1>1, <2>2, <2>4, SourceStill
  <2> QED BY <1>4, <1>a, <2>2, <2>3, <2>5 DEF Phases
<1>6. CASE refused = "none"
  <2>1. /\ running' = TRUE
        /\ inPlace' = resume
        /\ mem' = << >>
        /\ todo' = If(<< >> \in dirs, CleanUp(resume)) \o MakeDirs
                     \o <<Do("read", IF resume THEN Resume ELSE << >>)>>
        /\ dirs' = dirs \cup {<< >>}
        /\ IF resume
           THEN /\ atRisk' = IF stale THEN atRisk \cup Holds(Queue) ELSE atRisk
                /\ UNCHANGED <<saved, filed, marked, backups, stale>>
           ELSE /\ saved' = {} /\ filed' = {} /\ marked' = {} /\ atRisk' = {}
                /\ stale' = (Resume \in dirs)
                /\ UNCHANGED backups
    BY <1>6, Zenon DEF Begin
  <2>2. Starting'
    BY <1>2, <2>1 DEF Rest
  <2>3. Always'
    <3>1. marked' = marked \/ marked' = {}
      BY <2>1
    <3>2. marked' \subseteq 0 .. finds
      BY <1>a, <3>1
    <3> QED BY <1>4, <2>1, <3>2
  <2>4. CASE resume
    <3>1. << >> \in dirs
      BY <1>6, <2>4
    <3>2. Done' = 0
      <4>1. todo' = Program(TRUE) /\ TRUE \in BOOLEAN
        BY <2>1, <2>4, <3>1 DEF Program, If
      <4>2. Len(todo') = Total
        BY <4>1, ProgramAt
      <4>3. Total \in Nat
        BY StateNames DEF Total
      <4> QED BY <4>2, <4>3 DEF Done
    <3>3. again' = again /\ cited' = cited /\ inPlace' = TRUE
      BY <2>1, <2>4 DEF Always
    <3>4. State(Resume) # << >>
      BY Apart
    <3>5. Restores(Source)'
      <4>1. State(Resume) \in dirs' <=> State(Resume) \in dirs
        BY <2>1, <3>4
      <4>2. atRisk \subseteq atRisk' /\ UNCHANGED <<stale, marked>>
        BY <2>1, <2>4
      <4> QED BY <1>1, <3>3, <4>1, <4>2, SourceStill
    <3>6. StartingOrder'
      BY <3>2, <3>3, <3>5 DEF StartingOrder
    <3> QED BY <2>2, <2>3, <3>6 DEF Phases
  <2>5. CASE ~resume
    <3>1. marked' = {} /\ cited' = Empty /\ inPlace' = FALSE
      BY <2>1, <2>5
    <3>2. ~again' => In(Queue)' = {}
      <4> SUFFICES ASSUME ~again' PROVE In(Queue)' = {}
        OBVIOUS
      <4>1. << >> \notin dirs
        BY <1>a, <2>1, <3>1
      <4>2. files = {}
        BY <4>1, NoDirs
      <4> QED BY <1>1, <4>2 DEF In
    <3>3. StartingOrder'
      BY <3>1, <3>2 DEF StartingOrder
    <3> QED BY <2>2, <2>3, <3>3 DEF Phases
  <2> QED BY <2>4, <2>5
<1> QED BY <1>5, <1>6

(* A session dies before it has read its inputs. *)
LEMMA KillStartingOrder ==
    ASSUME Typed, Tree, Always, Starting, StartingOrder, Kill, Steady, Rest'
    PROVE  Always' /\ Restores(Source)'
<1>1. UNCHANGED <<files, dirs, marked, stale, finds>> /\ atRisk \subseteq atRisk'
  BY DEF Kill, disk
<1>2. mem' = << >>
  BY DEF Rest
<1>3. Always'
  <2>1. InOrder(Queue)' /\ InOrder(Resume)'
    BY <1>1 DEF Always, InOrder, Full, In
  <2> QED BY <1>1, <1>2, <2>1 DEF Always, Steady
<1>4. inPlace \in BOOLEAN /\ StartingKept
  BY StartingHead DEF Starting
<1>5. CASE inPlace
  <2>1. CASE Done = 0
    <3>1. Restores(Source)
      BY <1>5, <2>1 DEF StartingOrder
    <3> QED BY <1>1, <1>3, <3>1, SourceStill DEF Steady
  <2>2. CASE Done # 0
    <3>1. Restores(Resume) /\ (Free(Resume) => In(Queue) = {})
      BY <1>5, <2>2 DEF StartingOrder
    <3>2. Restores(Source)
      <4>1. CASE Free(Resume)
        <5>1. In(Resume) = {} /\ Restores(Queue)
          BY <3>1, <4>1, NothingThere DEF Free
        <5> QED BY <4>1, <5>1 DEF Source
      <4>2. CASE ~Free(Resume)
        BY <3>1, <4>2 DEF Source
      <4> QED BY <4>1, <4>2
    <3> QED BY <1>1, <1>3, <3>2, SourceStill DEF Steady
  <2> QED BY <2>1, <2>2
<1>6. CASE ~inPlace
  <2>1. marked = {} /\ cited = Empty /\ (~again => In(Queue) = {})
    BY <1>6 DEF StartingOrder
  <2>2. ~stale => Resume \notin dirs
    BY <1>4, <1>6 DEF StartingKept
  <2>3. Trusted => Source = Queue
    <3> SUFFICES ASSUME ~stale PROVE Free(Resume)
      BY DEF Source, Trusted
    <3>1. In(Resume) = {}
      BY <2>2, FilesAt
    <3>2. State(Resume) \notin dirs
      BY <2>2 DEF Tree
    <3> QED BY <3>1, <3>2 DEF Free
  <2>4. \A d : Marking(d) /\ Citing(d)
    BY <2>1 DEF Marking, Citing
  <2>5. Counted => Numbered(Source)
    <3> SUFFICES ASSUME Counted PROVE Numbered(Queue)
      BY <2>3 DEF Counted
    <3>1. In(Queue) = {}
      BY <2>1 DEF Counted
    <3> QED BY <3>1 DEF Numbered, Full
  <2>6. Restores(Source)
    BY <2>4, <2>5 DEF Restores
  <2> QED BY <1>1, <1>3, <2>6, SourceStill DEF Steady
<1> QED BY <1>4, <1>5, <1>6

-----------------------------------------------------------------------------
(* Reading the inputs. *)

(* As many files come before one as its number says, if none is missing. *)
LEMMA RankIsNumber ==
    ASSUME NEW F, IsFiniteSet(F), \A f \in F : f.id \in Nat, \A f, g \in F : f.id = g.id => f = g,
           NEW f \in F, \A i \in 0 .. f.id : \E g \in F : g.id = i
    PROVE  Cardinality({g \in F : g.id < f.id}) = f.id
<1> DEFINE L == {g \in F : g.id < f.id}
           T == 0 .. f.id - 1
           num == [g \in L |-> g.id]
<1>1. f.id \in Nat
  OBVIOUS
<1>2. IsFiniteSet(L)
  BY FS_Subset
<1>3. num \in [L -> T] /\ \A g \in L : num[g] = g.id
  OBVIOUS
<1>4. num \in Bijection(L, T)
  <2>1. \A g, h \in L : num[g] = num[h] => g = h
    OBVIOUS
  <2>2. ASSUME NEW t \in T PROVE \E g \in L : num[g] = t
    <3>1. t \in 0 .. f.id /\ t < f.id
      BY <1>1
    <3>2. PICK g \in F : g.id = t
      BY <3>1
    <3>3. g \in L
      BY <3>1, <3>2
    <3> QED BY <3>2, <3>3
  <2> HIDE DEF L, T, num
  <2> QED BY <1>3, <2>1, <2>2 DEF Bijection, Injection, Surjection, IsInjective
<1> HIDE DEF num
<1>5. Cardinality(T) = Cardinality(L)
  <2> HIDE DEF L, T
  <2> QED BY <1>2, <1>4, FS_Bijection DEF ExistsBijection
<1>6. Cardinality(T) = f.id
  <2>1. 0 \in Int /\ f.id - 1 \in Int
    BY <1>1
  <2>2. Cardinality(0 .. f.id - 1) = IF 0 > f.id - 1 THEN 0 ELSE f.id - 1 - 0 + 1
    BY <2>1, FS_Interval
  <2> QED BY <1>1, <2>2
<1> QED BY <1>5, <1>6

(* The files ByName lists, and how. *)
LEMMA ByNameLists ==
    ASSUME Tree, finds \in Nat, NEW e, e = ByName(Resume)
    PROVE  \E h : /\ DOMAIN e = 1 .. Len(e)
                  /\ \A k \in DOMAIN e : /\ h[k] \in Full(Resume) /\ e[k].input = h[k].input
                                         /\ e[k].passedDet = Exists(DetDone(Resume), h[k].id)
                  /\ \A g \in Full(Resume) : \E k \in DOMAIN e : g = h[k]
                  /\ \A j, k \in DOMAIN e : j < k => h[j].id < h[k].id
                  /\ Numbered(Resume) => \A k \in DOMAIN e : h[k].id = k - 1
<1>1. \A f \in Full(Resume) : f \in files /\ f.dir = Resume /\ f.id \in Nat
  <2>1. \A f \in files : f.id \in Nat \cup {NoId} /\ (f.id = NoId => f.dir = Crashes)
    BY FilesAt
  <2> QED BY <2>1, FullAt, Two
<1>2. \A f, g \in Full(Resume) : f.id = g.id => f = g
  <2>1. \A f, g \in files : f.dir = g.dir /\ f.id = g.id => f = g
    BY Zenon DEF Tree
  <2> QED BY <1>1, <2>1
<1>3. IsFiniteSet(Full(Resume))
  <2>1. IsFiniteSet(files) /\ Full(Resume) \in SUBSET files
    BY <1>1 DEF Tree
  <2> QED BY <2>1, FS_Subset
<1>4. PICK F : F = Full(Resume)
  OBVIOUS
<1>5. IsFiniteSet(F) /\ (\A f \in F : f.id \in Nat) /\ (\A f, g \in F : f.id = g.id => f = g)
  BY <1>1, <1>2, <1>3, <1>4
<1>6. PICK n \in Nat : n = Cardinality(F)
  BY <1>5, Ranked
<1>7. /\ \A k \in 1 .. n : Nth(F, k) \in F /\ Cardinality({g \in F : g.id < Nth(F, k).id}) = k - 1
      /\ \A f \in F : \E k \in 1 .. n : f = Nth(F, k)
      /\ \A j, k \in 1 .. n : j < k => Nth(F, j).id < Nth(F, k).id
  BY <1>5, <1>6, Ranked
<1>8. e = [k \in 1 .. n |-> [input |-> Nth(F, k).input, passedDet |-> Exists(DetDone(Resume), Nth(F, k).id)]]
  BY <1>4, <1>6 DEF ByName, Nth, Full
<1> DEFINE h == [k \in 1 .. n |-> Nth(F, k)]
<1>9. DOMAIN e = 1 .. n /\ (\A k \in 1 .. n : e[k].input = Nth(F, k).input /\ e[k].passedDet = Exists(DetDone(Resume), Nth(F, k).id))
  BY <1>8
<1>10. Len(e) = n
  <2>1. e \in Seq([input : 0 .. finds, passedDet : BOOLEAN])
    BY ByNameAt
  <2>2. DOMAIN e = 1 .. Len(e) /\ Len(e) \in Nat
    BY <2>1
  <2> QED BY <1>9, <2>2
<1>11. \A k \in 1 .. n : h[k] = Nth(F, k)
  OBVIOUS
<1>12. ASSUME Numbered(Resume), NEW k \in 1 .. n PROVE h[k].id = k - 1
  <2>1. Nth(F, k) \in F /\ \A i \in 0 .. Nth(F, k).id : \E g \in F : g.id = i
    BY <1>4, <1>7, <1>12 DEF Numbered
  <2>2. Cardinality({g \in F : g.id < Nth(F, k).id}) = Nth(F, k).id
    BY <1>5, <2>1, RankIsNumber
  <2> QED BY <1>7, <1>11, <2>2
<1> HIDE DEF h
<1>13. \A k \in DOMAIN e : /\ h[k] \in Full(Resume) /\ e[k].input = h[k].input
                            /\ e[k].passedDet = Exists(DetDone(Resume), h[k].id)
  <2> SUFFICES ASSUME NEW k \in DOMAIN e
               PROVE  h[k] \in Full(Resume) /\ e[k].input = h[k].input /\ e[k].passedDet = Exists(DetDone(Resume), h[k].id)
    BY Zenon
  <2>1. k \in 1 .. n /\ h[k] = Nth(F, k)
    BY <1>9, <1>11
  <2>2. h[k] \in Full(Resume) /\ e[k].input = h[k].input
    BY <1>4, <1>7, <1>9, <2>1
  <2>3. e[k].passedDet = Exists(DetDone(Resume), h[k].id)
    BY <1>9, <2>1, Zenon
  <2> QED BY <2>2, <2>3, Zenon
<1>14. \A g \in Full(Resume) : \E k \in DOMAIN e : g = h[k]
  BY <1>4, <1>7, <1>9, <1>11
<1>15. \A j, k \in DOMAIN e : j < k => h[j].id < h[k].id
  BY <1>7, <1>9, <1>11
<1>16. Numbered(Resume) => \A k \in DOMAIN e : h[k].id = k - 1
  BY <1>9, <1>12
<1> QED BY <1>9, <1>10, <1>13, <1>14, <1>15, <1>16

(* The commands of Links that mark the entries 1 .. k. *)
MarksIn(s, entries, k) ==
    \A j \in 1 .. k : entries[j].passedDet => \E p \in 1 .. Len(s) : s[p].path = DetDone(Queue) /\ s[p].id = j - 1

LEMMA MarksMore ==
    ASSUME NEW entries \in Entries, NEW k \in DOMAIN entries, NEW s \in Seq(Command), MarksIn(s, entries, k - 1)
    PROVE  MarksIn(s \o Pivot(k, entries[k]), entries, k)
<1> DEFINE i == entries[k].input
           a == DoFile("link", File(Queue, k - 1, i))
           b == DoFile("create", File(DetDone(Queue), k - 1, i))
           t == Pivot(k, entries[k])
<1>1. k \in Nat /\ k >= 1 /\ i \in Int /\ k - 1 \in Int /\ entries[k].passedDet \in BOOLEAN
  <2>1. entries[k] \in [input : Int, passedDet : BOOLEAN] /\ k \in Nat /\ k >= 1
    BY Element DEF Entries
  <2> QED BY <2>1
<1>2. a \in Command /\ b \in Command
  <2>1. "link" \in Ops /\ "create" \in Ops /\ Queue \in Paths /\ DetDone(Queue) \in Paths
    BY KnownPaths, InSub, StateNames DEF Ops, Bases
  <2> QED BY <1>1, <2>1, CommandType
<1>3. b.id = k - 1 /\ b.path = DetDone(Queue)
  BY DEF DoFile, File
<1>4. t = <<a>> \o (IF entries[k].passedDet THEN <<b>> ELSE << >>)
  BY DEF Pivot, If
<1> HIDE DEF a, b, t
<1>5. t \in Seq(Command) /\ (entries[k].passedDet => Len(t) = 2 /\ t[2] = b)
  <2>1. CASE entries[k].passedDet
    <3>1. t = <<a>> \o <<b>>
      BY <1>4, <2>1
    <3> QED BY <1>2, <3>1
  <2>2. CASE ~entries[k].passedDet
    <3>1. t = <<a>> \o << >>
      BY <1>4, <2>2
    <3> QED BY <1>2, <2>2, <3>1
  <2> QED BY <1>1, <2>1, <2>2
<1>6. /\ Len(s \o t) = Len(s) + Len(t) /\ Len(s) \in Nat /\ Len(t) \in Nat
      /\ \A p \in 1 .. Len(s) : (s \o t)[p] = s[p]
      /\ \A p \in 1 .. Len(t) : (s \o t)[Len(s) + p] = t[p]
  BY <1>5, CatMore
<1>7. ASSUME NEW j \in 1 .. k, entries[j].passedDet
      PROVE  \E p \in 1 .. Len(s \o t) : (s \o t)[p].path = DetDone(Queue) /\ (s \o t)[p].id = j - 1
  <2>1. CASE j = k
    <3>1. Len(t) = 2 /\ t[2] = b
      BY <1>5, <1>7, <2>1
    <3>2. (s \o t)[Len(s) + 2] = b /\ Len(s) + 2 \in 1 .. Len(s \o t)
      BY <1>6, <3>1
    <3> QED BY <1>3, <2>1, <3>2
  <2>2. CASE j \in 1 .. k - 1
    <3>1. PICK p \in 1 .. Len(s) : s[p].path = DetDone(Queue) /\ s[p].id = j - 1
      BY <1>7, <2>2 DEF MarksIn
    <3>2. p \in 1 .. Len(s \o t) /\ (s \o t)[p] = s[p]
      BY <1>6
    <3> QED BY <3>1, <3>2
  <2> QED BY <1>1, <2>1, <2>2
<1> QED BY <1>7 DEF MarksIn, t

LEMMA LinksMarked ==
    ASSUME NEW entries \in Entries, entries # << >>
    PROVE  MarksIn(Links(entries), entries, Len(entries))
<1> DEFINE n == Len(entries)
           seqs == [k \in DOMAIN entries |-> Pivot(k, entries[k])]
<1>1. n \in Nat /\ n >= 1 /\ DOMAIN entries = 1 .. n
  BY DEF Entries
<1> HIDE DEF n
<1>2. \A k \in 1 .. n : Pivot(k, entries[k]) \in Seq(Command)
  <2>1. << >> \in Seq(Command)
    OBVIOUS
  <2>2. "link" \in Ops /\ "create" \in Ops /\ Queue \in Paths /\ DetDone(Queue) \in Paths
    BY KnownPaths, InSub, StateNames DEF Ops, Bases
  <2> SUFFICES ASSUME NEW k \in 1 .. n PROVE Pivot(k, entries[k]) \in Seq(Command)
    OBVIOUS
  <2>3. entries[k] \in [input : Int, passedDet : BOOLEAN]
    BY <1>1, Element DEF Entries
  <2>4. entries[k].input \in Int /\ k - 1 \in Int
    BY <2>3
  <2> DEFINE a == DoFile("link", File(Queue, k - 1, entries[k].input))
             b == DoFile("create", File(DetDone(Queue), k - 1, entries[k].input))
  <2>5. a \in Command /\ b \in Command
    BY <2>2, <2>4, CommandType
  <2>6. Pivot(k, entries[k]) = <<a>> \o (IF entries[k].passedDet THEN <<b>> ELSE << >>)
    BY DEF Pivot, If
  <2> HIDE DEF a, b
  <2> QED BY <2>5, <2>6
<1>3. seqs \in Seq(Seq(Command)) /\ Len(seqs) = n /\ \A k \in 1 .. n : seqs[k] = Pivot(k, entries[k])
  BY <1>1, <1>2
<1>a. Links(entries) = FlattenSeq(seqs)
  BY DEF Links
<1> HIDE DEF seqs
<1>4. PICK g \in [0 .. n -> Seq(Command)] :
          g[0] = << >> /\ (\A i \in 1 .. n : g[i] = g[i - 1] \o seqs[i]) /\ FlattenSeq(seqs) = g[n]
  <2>1. PICK g : Catenated(g, seqs, Command, n)
    BY <1>1, <1>3, Flattened
  <2> QED BY <2>1 DEF Catenated
<1> DEFINE U == {i \in 0 .. n : MarksIn(g[i], entries, i)}
<1>5. 0 \in U
  <2>1. MarksIn(g[0], entries, 0)
    BY DEF MarksIn
  <2> QED BY <1>1, <2>1
<1>6. ASSUME NEW i \in 1 .. n, i - 1 \in U PROVE i \in U
  <2>1. MarksIn(g[i - 1], entries, i - 1) /\ g[i - 1] \in Seq(Command)
    BY <1>1, <1>4, <1>6
  <2>2. MarksIn(g[i - 1] \o Pivot(i, entries[i]), entries, i)
    BY <1>1, <2>1, MarksMore
  <2>3. g[i] = g[i - 1] \o Pivot(i, entries[i])
    BY <1>3, <1>4
  <2>4. MarksIn(g[i], entries, i)
    BY <2>2, <2>3, Zenon
  <2>5. i \in 0 .. n
    BY <1>1
  <2> QED BY <2>4, <2>5, Zenon
<1>7. 0 .. n \subseteq U
  <2> HIDE DEF U
  <2> QED BY <1>1, <1>5, <1>6, IntervalInduction
<1>8. MarksIn(g[n], entries, n)
  BY <1>1, <1>7
<1> QED BY <1>4, <1>8, <1>a DEF n

LEMMA ReadOrder ==
    ASSUME Typed, Tree, Always, Starting, StartingOrder, ReadTestcases, Steady
    PROVE  Always' /\ Phases'
<1>1. Typed' /\ Tree' /\ (Rest \/ Importing)'
  BY StartingRead
<1>2. UNCHANGED <<dirs, files, finds, marked, atRisk, stale>> /\ Next1.op = "read"
  BY DEF ReadTestcases, Does, history, disk
<1>3. inPlace \in BOOLEAN /\ N \in Nat /\ Done \in Nat /\ Total = 2 * N + 17 /\ Done + 1 = Total
  <2>1. Done + 1 \in 1 .. Total /\ Next1 = Program(inPlace)[Done + 1] /\ inPlace \in BOOLEAN
    BY StartingHead
  <2>2. Done + 1 = Total
    BY <1>2, <2>1, Heads
  <2> QED BY <2>1, <2>2, StartingHead
<1>4. In(Queue) = {} /\ In(DetDone(Queue)) = {}
  <2>1. N + 3 <= Done
    BY <1>3
  <2> HIDE DEF Done, N
  <2> QED BY <2>1 DEF Starting, StartingDirs
<1>5. Done # 0
  BY <1>3
<1>6. finds \in Nat
  BY DEF Typed
<1>7. (\A d : Full(d)' = Full(d)) /\ InOrder(Queue)' /\ InOrder(Resume)' /\ \A d, i : Exists(d, i)' = Exists(d, i)
  BY <1>2 DEF Full, In, InOrder, Always, Exists
<1>8. (Trusted' <=> Trusted) /\ (Counted' <=> Counted)
  BY <1>2 DEF Trusted, Counted, Steady
<1> DEFINE entries == IF ~inPlace THEN <<[input |-> Seed, passedDet |-> FALSE]>>
                      ELSE IF Resume \in dirs THEN ByName(Resume)
                      ELSE << >>
<1>9. IF entries = << >> THEN Fails("no inputs")
      ELSE mem' = entries /\ todo' = Import(entries) /\ UNCHANGED <<running, inPlace, crashes, fatal>>
  BY DEF ReadTestcases
<1>10. CASE entries = << >>
  <2>1. running' = FALSE /\ mem' = << >>
    BY <1>9, <1>10 DEF Fails, Ends
  <2>2. Rest'
    BY <1>1, <2>1 DEF Importing, Runs
  <2>3. inPlace
    <3>1. <<[input |-> Seed, passedDet |-> FALSE]>> # << >>
      OBVIOUS
    <3> QED BY <1>10, <3>1
  <2>4. Restores(Resume)
    BY <1>5, <2>3 DEF StartingOrder
  <2>5. Restores(Source)
    <3>1. CASE Free(Resume)
      <4>1. In(Resume) = {} /\ Restores(Queue)
        BY <1>4, <2>4, <3>1, NothingThere DEF Free
      <4> QED BY <3>1, <4>1 DEF Source
    <3>2. CASE ~Free(Resume)
      BY <2>4, <3>2 DEF Source
    <3> QED BY <3>1, <3>2
  <2>6. Restores(Source)'
    BY <1>2, <2>5, SourceStill DEF Steady
  <2>7. Always'
    BY <1>2, <1>7, <2>1 DEF Always, Steady
  <2> QED BY <2>2, <2>6, <2>7 DEF Phases
<1>11. CASE entries # << >>
  <2>1. PICK z : z = entries
    OBVIOUS
  <2>2. mem' = z /\ todo' = Import(z) /\ UNCHANGED <<running, inPlace>> /\ z # << >>
    BY <1>9, <1>11, <2>1
  <2>3. Importing'
    BY <1>1, <2>2 DEF Rest, Starting, Runs
  <2>a. (inPlace => z = ByName(Resume)) /\ (~inPlace => z = <<[input |-> Seed, passedDet |-> FALSE]>>)
    <3>1. CASE ~inPlace
      BY <2>1, <3>1
    <3>2. CASE inPlace
      <4>1. Resume \in dirs /\ z = ByName(Resume)
        BY <1>11, <2>1, <3>2
      <4> QED BY <3>2, <4>1
    <3> QED BY <3>1, <3>2
  <2> HIDE DEF entries
  <2>4. z \in Entries /\ DOMAIN z = 1 .. Len(z) /\ Len(z) \in Nat
    <3>1. mem' \in Entries /\ DOMAIN mem' = 1 .. Len(mem') /\ Len(mem') \in Nat
      <4>1. mem' \in Seq([input : 0 .. finds', passedDet : BOOLEAN]) /\ finds' \in Nat
        <5> HIDE DEF Command
        <5> QED BY <1>1 DEF Typed
      <4> DEFINE S == [input : 0 .. finds', passedDet : BOOLEAN]
                 T == [input : Int, passedDet : BOOLEAN]
      <4>2. S \subseteq T /\ mem' \in Seq(S)
        BY <4>1
      <4> HIDE DEF S, T
      <4>3. mem' \in Seq(T) /\ DOMAIN mem' = 1 .. Len(mem') /\ Len(mem') \in Nat
        BY <4>2, SeqWider
      <4> QED BY <4>3 DEF Entries, T
    <3> QED BY <2>2, <3>1
  <2>5. PICK l : l = Len(Links(z))
    OBVIOUS
  <2>6. l \in Nat \ {0} /\ Len(todo') = l + Rests' /\ (\A j \in 1 .. l : todo'[j] = Links(z)[j])
    <3>1. Rests' = Rests
      BY <2>2 DEF Rests
    <3> HIDE DEF Rests
    <3> QED BY <1>3, <2>2, <2>4, <2>5, <3>1, ImportAt
  <2>7. Rests' \in Nat /\ Rests' >= 6
    BY <1>3, <2>2 DEF Rests
  <2>8. Links0' = l /\ Len(todo') >= 7 /\ Len(todo') \in Nat
    <3>1. Links0' = Len(todo') - Rests'
      BY DEF Links0
    <3> HIDE DEF Rests, Links0
    <3>2. PICK a : a = Len(todo')
      OBVIOUS
    <3>3. PICK b : b = Rests'
      OBVIOUS
    <3>4. l \in Nat \ {0} /\ a = l + b
      BY <2>6, <3>2, <3>3
    <3>5. b \in Nat /\ b >= 6
      BY <2>7, <3>3
    <3>6. a - b = l /\ a >= 7 /\ a \in Nat
      BY <3>4, <3>5
    <3> QED BY <3>1, <3>2, <3>3, <3>6
  <2>9. MarksIn(Links(z), z, Len(z))
    BY <2>2, <2>4, LinksMarked
  <2>10. ASSUME NEW k \in DOMAIN mem', mem'[k].passedDet
         PROVE  \E p \in 1 .. Links0' : todo'[p].path = DetDone(Queue) /\ todo'[p].id = k - 1
    <3>1. k \in 1 .. Len(z) /\ z[k].passedDet
      BY <2>2, <2>4, <2>10
    <3>2. PICK p \in 1 .. l : Links(z)[p].path = DetDone(Queue) /\ Links(z)[p].id = k - 1
      BY <2>5, <2>9, <3>1 DEF MarksIn
    <3>3. todo'[p] = Links(z)[p]
      BY <2>6
    <3> HIDE DEF Links0
    <3> QED BY <2>8, <3>2, <3>3
  <2>11. MarksNoted'
    <3>1. In(DetDone(Queue))' = {}
      BY <1>2, <1>4 DEF In
    <3> QED BY <3>1 DEF MarksNoted
  <2>12. ~(Len(todo') <= 3)
    BY <2>8
  <2>13. current' \in Nat /\ seekTo' \in Nat /\ statsPos' \in Nat /\ again' \in BOOLEAN /\ marked' \subseteq 0 .. finds'
    BY <1>2 DEF Always, Steady
  <2>14. CASE ~inPlace
    <3>1. marked = {} /\ cited = Empty
      BY <2>14 DEF StartingOrder
    <3>2. marked' = {} /\ cited' = Empty /\ ~inPlace'
      BY <1>2, <2>2, <2>14, <3>1 DEF Steady
    <3>3. \A k \in DOMAIN mem' : k = 1 /\ ~mem'[k].passedDet
      <4>1. Len(z) = 1 /\ ~z[1].passedDet
        BY <2>14, <2>a
      <4> QED BY <2>2, <2>4, <4>1
    <3>4. Always'
      <4>1. \A j, k \in DOMAIN mem' : ~(j < k)
        BY <3>3
      <4> QED BY <1>7, <2>13, <4>1 DEF Always
    <3>5. ImportingOrder'
      BY <2>10, <2>11, <2>12, <3>2, <3>3 DEF ImportingOrder, CitedInMemory
    <3> QED BY <2>3, <3>4, <3>5 DEF Phases
  <2>15. CASE inPlace
    <3>1. Restores(Resume)
      BY <1>5, <2>15 DEF StartingOrder
    <3>2. PICK h : /\ \A k \in DOMAIN z : /\ h[k] \in Full(Resume) /\ z[k].input = h[k].input
                                          /\ z[k].passedDet = Exists(DetDone(Resume), h[k].id)
                   /\ \A g \in Full(Resume) : \E k \in DOMAIN z : g = h[k]
                   /\ \A j, k \in DOMAIN z : j < k => h[j].id < h[k].id
                   /\ Numbered(Resume) => \A k \in DOMAIN z : h[k].id = k - 1
      BY <1>6, <2>15, <2>a, ByNameLists
    <3>3. InOrder(Resume)
      BY DEF Always
    <3>4. Always'
      <4>1. ASSUME NEW j \in DOMAIN mem', NEW k \in DOMAIN mem', j < k PROVE mem'[j].input < mem'[k].input
        <5>1. h[j] \in Full(Resume) /\ h[k] \in Full(Resume) /\ h[j].id < h[k].id /\ z[j].input = h[j].input /\ z[k].input = h[k].input
          BY <2>2, <3>2, <4>1
        <5>2. h[j].input < h[k].input
          BY <3>3, <5>1 DEF InOrder
        <5> QED BY <2>2, <5>1, <5>2
      <4> QED BY <1>7, <2>13, <4>1 DEF Always
    <3>5. ASSUME Trusted', NEW k \in DOMAIN mem', mem'[k].input \in marked' PROVE mem'[k].passedDet
      <4>1. k \in DOMAIN z /\ h[k] \in Full(Resume) /\ h[k].input \in marked
        BY <1>2, <2>2, <3>2, <3>5
      <4>2. Exists(DetDone(Resume), h[k].id)
        BY <1>8, <3>1, <3>5, <4>1 DEF Restores, Marking
      <4>3. z[k].passedDet = Exists(DetDone(Resume), h[k].id)
        BY <3>2, <4>1, Zenon
      <4>4. z[k].passedDet
        BY <4>2, <4>3, Zenon
      <4> QED BY <2>2, <4>4
    <3>6. ASSUME Counted, NEW g \in Full(Resume) PROVE g.id + 1 \in DOMAIN z /\ z[g.id + 1].input = g.input
      <4>1. Numbered(Resume)
        BY <3>1, <3>6 DEF Restores
      <4>2. PICK k \in DOMAIN z : g = h[k]
        BY <3>2
      <4>3. g.id = k - 1 /\ z[k].input = g.input
        BY <3>2, <4>1, <4>2
      <4>4. g.id + 1 = k
        BY <2>4, <4>3
      <4> QED BY <4>3, <4>4
    <3>7. CitedInMemory'
      <4> SUFFICES ASSUME Trusted, cited # Empty PROVE statsPos + 1 \in DOMAIN z /\ z[statsPos + 1].input = cited
        BY <1>8, <2>2 DEF CitedInMemory, Steady
      <4>1. Counted
        BY DEF Counted
      <4>2. File(Resume, statsPos, cited) \in files
        BY <3>1 DEF Restores, Citing
      <4>3. File(Resume, statsPos, cited) \in Full(Resume)
        BY <4>2, FullAt, FileParts
      <4> QED BY <3>6, <4>1, <4>3, FileParts
    <3>8. ASSUME NEW g \in Full(Resume) PROVE g.input \in Inputs'
      <4>1. PICK k \in DOMAIN z : g = h[k]
        BY <3>2
      <4>2. z[k].input = g.input
        BY <3>2, <4>1
      <4> QED BY <2>2, <4>2 DEF Inputs
    <3>9. ASSUME NEW g \in Full(Resume), NEW k \in DOMAIN z, z[k].input = g.input, z[k].passedDet
          PROVE  Exists(DetDone(Resume), g.id)
      <4>1. h[k] \in Full(Resume) /\ h[k].input = g.input
        BY <3>2, <3>9
      <4>2. h[k].id \in Nat /\ g.id \in Nat /\ g.input \in 0 .. finds
        BY <4>1, FullTypes, Two
      <4>3. ~(h[k].id < g.id) /\ ~(g.id < h[k].id)
        BY <1>6, <3>3, <4>1, <4>2 DEF InOrder
      <4>4. h[k].id = g.id
        BY <4>2, <4>3
      <4>5. Exists(DetDone(Resume), h[k].id)
        BY <3>2, <3>9, Zenon
      <4> QED BY <4>4, <4>5
    <3>10. /\ \A g \in Full(Resume)' : g.input \in Inputs'
           /\ Counted' => \A g \in Full(Resume)' : g.id + 1 \in DOMAIN mem' /\ mem'[g.id + 1].input = g.input
           /\ \A g \in Full(Resume)', k \in DOMAIN mem' :
                  mem'[k].input = g.input /\ mem'[k].passedDet => Exists(DetDone(Resume), g.id)'
      BY <1>7, <1>8, <2>2, <3>6, <3>8, <3>9
    <3>11. ImportingOrder'
      <4> HIDE DEF Links0
      <4> QED BY <2>2, <2>10, <2>11, <2>12, <2>15, <3>5, <3>7, <3>10 DEF ImportingOrder
    <3> QED BY <2>3, <3>4, <3>11 DEF Phases
  <2> QED BY <1>3, <2>14, <2>15
<1> QED BY <1>10, <1>11

-----------------------------------------------------------------------------
(* Importing. *)

(* The order of the files of queue is that of memory. *)
LEMMA AlwaysNext ==
    ASSUME Typed', Tree', InMemory', Always,
           \A j, k \in DOMAIN mem' : j < k => mem'[j].input < mem'[k].input,
           \A f \in files' : f.dir = Resume => f \in files,
           marked' \subseteq 0 .. finds', current' \in Nat, seekTo' \in Nat, statsPos' \in Nat, again' \in BOOLEAN
    PROVE  Always'
<1>1. InOrder(Resume)'
  <2>1. \A f : f \in Full(Resume)' => f \in Full(Resume)
    BY FullAt
  <2> QED BY <2>1 DEF Always, InOrder
<1>2. InOrder(Queue)'
  <2> SUFFICES ASSUME NEW f \in Full(Queue)', NEW g \in Full(Queue)', f.id < g.id PROVE f.input < g.input
    BY DEF InOrder
  <2>1. /\ f.id + 1 \in DOMAIN mem' /\ f.input = mem'[f.id + 1].input
        /\ g.id + 1 \in DOMAIN mem' /\ g.input = mem'[g.id + 1].input
    <3>1. f \in In(Queue)' /\ g \in In(Queue)' /\ f.input # Empty /\ g.input # Empty
      BY FullAt
    <3> HIDE DEF In
    <3> QED BY <3>1 DEF InMemory
  <2>2. f.id \in Int /\ g.id \in Int
    <3>1. f \in files' /\ g \in files'
      BY FullAt
    <3>2. \A h \in files' : h.id \in Nat \cup {NoId}
      <4> HIDE DEF FileDirs
      <4> QED BY DEF Tree
    <3> QED BY <3>1, <3>2 DEF NoId
  <2>3. f.id + 1 < g.id + 1
    BY <2>2
  <2> QED BY <2>1, <2>3
<1> QED BY <1>1, <1>2 DEF Always

(* A link, or a part of one, or a mark made. *)
LEMMA LinkOrder ==
    ASSUME Typed, Tree, Always, Importing, ImportingOrder, Links0 >= 1, Step, Steady,
           UNCHANGED <<finds, stale, atRisk>>, saved' \subseteq 1 .. finds, filed' \subseteq 1 .. finds,
           NEW c, c = Next1,
           \A f \in files : f.dir # Queue => f \in files',
           \A f \in files' : f \in files \/ (f.dir = c.path /\ f.id = c.id),
           c.path # Queue => Exists(c.path, c.id)',
           marked' = IF c.path = DetDone(Queue) THEN marked \cup {c.input} ELSE marked,
           Typed', Tree', Importing'
    PROVE  Always' /\ ImportingOrder'
<1>1. /\ Len(todo) \in Nat /\ Links0 \in Int /\ Rests \in Nat /\ Rests >= 6 /\ Len(todo) = Links0 + Rests
      /\ c = todo[1] /\ Pivots(1)
  BY ImportingHead
<1>2. /\ mem' = mem /\ inPlace' = inPlace /\ Len(todo') = Len(todo) - 1 /\ Links0' = Links0 - 1
      /\ \A j \in 1 .. Len(todo) - 1 : todo'[j] = todo[j + 1]
  BY ImportingNext
<1> HIDE DEF Links0, Rests
<1>3. /\ c.id + 1 \in DOMAIN mem /\ c.input = mem[c.id + 1].input
      /\ c.path = Queue \/ (c.path = DetDone(Queue) /\ mem[c.id + 1].passedDet)
  BY <1>1 DEF Pivots
<1>4. \A p \in 1 .. Links0 : p # 1 => p - 1 \in 1 .. Links0' /\ todo'[p - 1] = todo[p]
  <2> SUFFICES ASSUME NEW p \in 1 .. Links0, p # 1 PROVE p - 1 \in 1 .. Links0' /\ todo'[p - 1] = todo[p]
    OBVIOUS
  <2>1. p - 1 \in 1 .. Links0' /\ p - 1 \in 1 .. Len(todo) - 1 /\ (p - 1) + 1 = p
    BY <1>1, <1>2
  <2> QED BY <1>2, <2>1, Zenon
<1>5. (Trusted' <=> Trusted) /\ (Counted' <=> Counted)
  BY DEF Trusted, Counted, Steady
<1>6. \A m \in files' : m.dir = DetDone(Queue) => m \in files \/ (c.path = DetDone(Queue) /\ m.id = c.id)
  OBVIOUS
<1>7. c.input \in 0 .. finds
  BY <1>3, MemEntries
<1>8. Always'
  <2>1. marked' \subseteq 0 .. finds' /\ current' \in Nat /\ seekTo' \in Nat /\ statsPos' \in Nat /\ again' \in BOOLEAN
    BY <1>7 DEF Always, Steady
  <2>2. \A j, k \in DOMAIN mem' : j < k => mem'[j].input < mem'[k].input
    BY <1>2 DEF Always
  <2>3. \A f \in files' : f.dir = Resume => f \in files
    BY <1>3, Two
  <2>4. InMemory'
    BY DEF Importing
  <2> QED BY <2>1, <2>2, <2>3, <2>4, AlwaysNext
<1>9. ASSUME NEW k \in DOMAIN mem, mem[k].passedDet
      PROVE  \/ Exists(DetDone(Queue), k - 1)'
             \/ \E p \in 1 .. Links0' : todo'[p].path = DetDone(Queue) /\ todo'[p].id = k - 1
  <2>1. CASE Exists(DetDone(Queue), k - 1)
    <3>1. PICK m \in files : m.dir = DetDone(Queue) /\ m.id = k - 1
      BY <2>1, FullAt
    <3>2. m \in files'
      BY <3>1, Two
    <3> QED BY <3>1, <3>2, FullAt
  <2>2. ASSUME NEW p \in 1 .. Links0, todo[p].path = DetDone(Queue), todo[p].id = k - 1
        PROVE  \/ Exists(DetDone(Queue), k - 1)'
               \/ \E q \in 1 .. Links0' : todo'[q].path = DetDone(Queue) /\ todo'[q].id = k - 1
    <3>1. CASE p = 1
      <4>1. c.path = DetDone(Queue) /\ c.id = k - 1
        BY <1>1, <2>2, <3>1
      <4>2. Exists(c.path, c.id)'
        BY <4>1, Two
      <4> QED BY <4>1, <4>2, FullAt
    <3>2. CASE p # 1
      BY <1>4, <2>2, <3>2
    <3> QED BY <3>1, <3>2
  <2>3. \/ Exists(DetDone(Queue), k - 1)
        \/ \E p \in 1 .. Links0 : todo[p].path = DetDone(Queue) /\ todo[p].id = k - 1
    BY <1>9 DEF ImportingOrder
  <2> QED BY <2>1, <2>2, <2>3
<1>10. MarksNoted'
  <2> SUFFICES ASSUME NEW m \in In(DetDone(Queue))' PROVE mem'[m.id + 1].input \in marked'
    BY DEF MarksNoted
  <2>1. m \in files' /\ m.dir = DetDone(Queue)
    BY InPrimed
  <2>2. CASE m \in files
    <3>1. m \in In(DetDone(Queue))
      BY <2>1, <2>2 DEF In
    <3>2. mem[m.id + 1].input \in marked
      BY <3>1 DEF ImportingOrder, MarksNoted
    <3> QED BY <1>2, <3>2
  <2>3. CASE c.path = DetDone(Queue) /\ m.id = c.id
    BY <1>2, <1>3, <2>3
  <2> QED BY <1>6, <2>1, <2>2, <2>3
<1>11. ASSUME Trusted', NEW k \in DOMAIN mem', mem'[k].input \in marked' PROVE mem'[k].passedDet
  <2>1. CASE mem[k].input \in marked
    BY <1>2, <1>5, <1>11, <2>1 DEF ImportingOrder
  <2>2. CASE c.path = DetDone(Queue) /\ mem[k].input = c.input
    <3>1. k = c.id + 1
      BY <1>2, <1>3, <2>2, Ascending
    <3>2. mem[c.id + 1].passedDet
      BY <1>3, <2>2, Two
    <3> QED BY <1>2, <3>1, <3>2
  <2> QED BY <1>2, <1>11, <2>1, <2>2
<1>12. CitedInMemory'
  <2>1. CitedInMemory
    BY DEF ImportingOrder
  <2> QED BY <1>2, <1>5, <2>1 DEF CitedInMemory, Steady
<1>13. \A d, f : d # Queue /\ d # DetDone(Queue) => (f \in files' /\ f.dir = d <=> f \in files /\ f.dir = d)
  BY <1>3
<1>14. (\A f : f \in Full(Resume)' <=> f \in Full(Resume)) /\ (\A i : Exists(DetDone(Resume), i)' <=> Exists(DetDone(Resume), i))
  BY <1>13, FullAt, Two
<1>15. Inputs' = Inputs
  BY <1>2 DEF Inputs
<1>16. ASSUME inPlace'
       PROVE  /\ \A g \in Full(Resume)' : g.input \in Inputs'
              /\ Counted' => \A g \in Full(Resume)' : g.id + 1 \in DOMAIN mem' /\ mem'[g.id + 1].input = g.input
              /\ \A g \in Full(Resume)', k \in DOMAIN mem' :
                     mem'[k].input = g.input /\ mem'[k].passedDet => Exists(DetDone(Resume), g.id)'
  <2>1. inPlace /\ Links0 > 0
    BY <1>1, <1>2, <1>16
  <2>2. /\ \A g \in Full(Resume) : g.input \in Inputs
        /\ Counted => \A g \in Full(Resume) : g.id + 1 \in DOMAIN mem /\ mem[g.id + 1].input = g.input
        /\ \A g \in Full(Resume), k \in DOMAIN mem :
               mem[k].input = g.input /\ mem[k].passedDet => Exists(DetDone(Resume), g.id)
    BY <2>1 DEF ImportingOrder
  <2> QED BY <1>2, <1>5, <1>14, <1>15, <2>2
<1>17. ASSUME ~inPlace'
       PROVE  marked' = {} /\ (\A k \in DOMAIN mem' : ~mem'[k].passedDet) /\ (Len(todo') >= 2 => cited' = Empty)
  <2>1. marked = {} /\ (\A k \in DOMAIN mem : ~mem[k].passedDet) /\ (Len(todo) >= 2 => cited = Empty)
    BY <1>2, <1>17 DEF ImportingOrder
  <2>2. c.path = Queue
    BY <1>3, <2>1
  <2>3. Len(todo) >= 2
    BY <1>1
  <2>4. marked' = marked
    BY <2>2, Two
  <2> QED BY <1>2, <2>1, <2>3, <2>4 DEF Steady
<1>18. ~(Len(todo') <= 3)
  BY <1>1, <1>2
<1>19. \A k \in DOMAIN mem' : mem'[k].passedDet =>
         \/ Exists(DetDone(Queue), k - 1)'
         \/ \E p \in 1 .. Links0' : todo'[p].path = DetDone(Queue) /\ todo'[p].id = k - 1
  BY <1>2, <1>9
<1> QED BY <1>8, <1>10, <1>11, <1>12, <1>16, <1>17, <1>18, <1>19 DEF ImportingOrder

(* A copy begun. *)
LEMMA CopyOrder ==
    ASSUME Typed, Tree, Always, Importing, ImportingOrder, Links0 >= 1, Steady, Next1.op = "link",
           UNCHANGED <<finds, stale, atRisk, marked, files, mem, inPlace>>,
           NEW x, NEW y, todo' = <<x, y>> \o Tail(todo), Typed', Tree', Importing'
    PROVE  Always' /\ ImportingOrder'
<1>1. /\ todo # << >> /\ Len(todo) \in Nat /\ Links0 \in Int /\ Rests \in Nat /\ Rests >= 6 /\ Len(todo) = Links0 + Rests
      /\ Next1 = todo[1] /\ Pivots(1)
  BY ImportingHead
<1>2. Next1.path = Queue
  BY <1>1 DEF Pivots
<1>3. /\ Len(todo') = Len(todo) + 1
      /\ \A j \in 3 .. Len(todo) + 1 : todo'[j] = todo[j - 1]
  <2> DEFINE t == Tail(todo)
             u == <<x, y>>
             S == Command \cup {x, y}
  <2>1. todo \in Seq(Command)
    BY DEF Typed
  <2>2. t \in Seq(Command) /\ Len(t) = Len(todo) - 1 /\ \A j \in 1 .. Len(todo) - 1 : t[j] = todo[j + 1]
    BY <1>1, <2>1, HeadTailProperties, Zenon
  <2>3. x \in S /\ y \in S /\ Command \subseteq S
    OBVIOUS
  <2>4. todo' = u \o t
    OBVIOUS
  <2>5. u \in Seq(S) /\ Len(u) = 2
    <3> HIDE DEF S
    <3> QED BY <2>3, Double
  <2>6. t \in Seq(S)
    <3> HIDE DEF S, t
    <3> QED BY <2>2, <2>3, SeqWider
  <2> HIDE DEF t, u, S
  <2>7. /\ u \o t \in Seq(S) /\ Len(u \o t) = Len(u) + Len(t)
        /\ \A i \in 1 .. Len(u) : (u \o t)[i] = u[i]
        /\ \A i \in 1 .. Len(t) : (u \o t)[Len(u) + i] = t[i]
    <3>1. u \in Seq(S) /\ t \in Seq(S)
      BY <2>5, <2>6
    <3> QED BY <3>1, CatMore
  <2>8. ASSUME NEW j \in 3 .. Len(todo) + 1 PROVE todo'[j] = todo[j - 1]
    <3>1. j - 2 \in 1 .. Len(todo) - 1 /\ 2 + (j - 2) = j /\ (j - 2) + 1 = j - 1
      BY <1>1
    <3>2. todo'[2 + (j - 2)] = t[j - 2] /\ t[j - 2] = todo[(j - 2) + 1]
      BY <2>2, <2>4, <2>5, <2>7, <3>1, Zenon
    <3> QED BY <3>1, <3>2
  <2>9. Len(todo') = 2 + (Len(todo) - 1)
    BY <2>2, <2>4, <2>5, <2>7, Zenon
  <2>10. Len(todo') = Len(todo) + 1
    BY <1>1, <2>9
  <2> QED BY <2>8, <2>10
<1>4. Links0' = Links0 + 1
  <2>1. Rests' = Rests /\ Links0' = Len(todo') - Rests' /\ Links0 = Len(todo) - Rests
    BY DEF Rests, Links0
  <2> HIDE DEF Rests, Links0
  <2> QED BY <1>1, <1>3, <2>1
<1> HIDE DEF Links0, Rests
<1>5. \A p \in 1 .. Links0 : p # 1 => p + 1 \in 1 .. Links0' /\ todo'[p + 1] = todo[p]
  <2> SUFFICES ASSUME NEW p \in 1 .. Links0, p # 1 PROVE p + 1 \in 1 .. Links0' /\ todo'[p + 1] = todo[p]
    OBVIOUS
  <2>1. p + 1 \in 1 .. Links0' /\ p + 1 \in 3 .. Len(todo) + 1 /\ (p + 1) - 1 = p
    BY <1>1, <1>4
  <2> QED BY <1>3, <2>1, Zenon
<1>6. (Trusted' <=> Trusted) /\ (Counted' <=> Counted)
  BY DEF Trusted, Counted, Steady
<1>7. Always'
  <2>1. marked' \subseteq 0 .. finds' /\ current' \in Nat /\ seekTo' \in Nat /\ statsPos' \in Nat /\ again' \in BOOLEAN
        /\ \A j, k \in DOMAIN mem' : j < k => mem'[j].input < mem'[k].input
    BY DEF Always, Steady
  <2>2. \A f \in files' : f.dir = Resume => f \in files
    OBVIOUS
  <2>3. InMemory'
    BY DEF Importing
  <2> QED BY <2>1, <2>2, <2>3, AlwaysNext
<1>8. \A k \in DOMAIN mem : mem[k].passedDet =>
         \/ Exists(DetDone(Queue), k - 1)'
         \/ \E p \in 1 .. Links0' : todo'[p].path = DetDone(Queue) /\ todo'[p].id = k - 1
  <2> SUFFICES ASSUME NEW k \in DOMAIN mem, mem[k].passedDet, ~Exists(DetDone(Queue), k - 1)'
               PROVE  \E p \in 1 .. Links0' : todo'[p].path = DetDone(Queue) /\ todo'[p].id = k - 1
    OBVIOUS
  <2>1. ~Exists(DetDone(Queue), k - 1)
    BY FullAt
  <2>2. PICK p \in 1 .. Links0 : todo[p].path = DetDone(Queue) /\ todo[p].id = k - 1
    BY <2>1 DEF ImportingOrder
  <2>3. p # 1
    BY <1>1, <1>2, <2>2, Two
  <2> QED BY <1>5, <2>2, <2>3
<1>9. /\ \A d, f : f \in Full(d)' <=> f \in Full(d)
      /\ \A d, i : Exists(d, i)' <=> Exists(d, i)
      /\ \A d, f : f \in In(d)' <=> f \in In(d)
  BY FullAt
<1>10. MarksNoted' /\ CitedInMemory'
  <2>1. MarksNoted /\ CitedInMemory
    BY DEF ImportingOrder
  <2> QED BY <1>6, <1>9, <2>1 DEF MarksNoted, CitedInMemory, Steady
<1>11. Trusted' => \A k \in DOMAIN mem' : mem'[k].input \in marked' => mem'[k].passedDet
  BY <1>6 DEF ImportingOrder
<1>12. ASSUME inPlace'
       PROVE  /\ \A g \in Full(Resume)' : g.input \in Inputs'
              /\ Counted' => \A g \in Full(Resume)' : g.id + 1 \in DOMAIN mem' /\ mem'[g.id + 1].input = g.input
              /\ \A g \in Full(Resume)', k \in DOMAIN mem' :
                     mem'[k].input = g.input /\ mem'[k].passedDet => Exists(DetDone(Resume), g.id)'
  <2>1. inPlace /\ Links0 > 0 /\ Inputs' = Inputs
    BY <1>1, <1>12 DEF Inputs
  <2>2. /\ \A g \in Full(Resume) : g.input \in Inputs
        /\ Counted => \A g \in Full(Resume) : g.id + 1 \in DOMAIN mem /\ mem[g.id + 1].input = g.input
        /\ \A g \in Full(Resume), k \in DOMAIN mem :
               mem[k].input = g.input /\ mem[k].passedDet => Exists(DetDone(Resume), g.id)
    BY <2>1 DEF ImportingOrder
  <2> QED BY <1>6, <1>9, <2>1, <2>2
<1>13. ASSUME ~inPlace'
       PROVE  marked' = {} /\ (\A k \in DOMAIN mem' : ~mem'[k].passedDet) /\ (Len(todo') >= 2 => cited' = Empty)
  <2>1. marked = {} /\ (\A k \in DOMAIN mem : ~mem[k].passedDet) /\ (Len(todo) >= 2 => cited = Empty)
    BY <1>13 DEF ImportingOrder
  <2>2. Len(todo) >= 2
    BY <1>1
  <2> QED BY <2>1, <2>2 DEF Steady
<1>14. ~(Len(todo') <= 3)
  BY <1>1, <1>3
<1> QED BY <1>7, <1>8, <1>10, <1>11, <1>12, <1>13, <1>14 DEF ImportingOrder

LEMMA ImportingLinkOrder ==
    ASSUME Typed, Tree, Always, Importing, ImportingOrder, Link \/ Write, Steady, UNCHANGED <<finds, stale>>
    PROVE  Always' /\ ImportingOrder'
<1>0. PICK c : c = Next1
  OBVIOUS
<1>1. c.op \in {"link", "write"} /\ UNCHANGED <<marked, atRisk, finds, stale>>
  BY <1>0 DEF Link, Write, Does
<1>2. Links0 >= 1
  BY <1>0, <1>1, ImportingOps
<1>3. Typed' /\ Tree' /\ Importing'
  BY ImportingLink, ImportingWrite, Zenon
<1>4. c.path = Queue /\ c = todo[1]
  <2>1. Pivots(1) /\ c = todo[1]
    BY <1>0, <1>2, ImportingHead
  <2> HIDE DEF Exists, In, IsPair
  <2> QED BY <1>1, <2>1 DEF Pivots
<1>5. PICK f : f = File(c.path, c.id, c.input)
  OBVIOUS
<1>6. f.dir = c.path /\ f.id = c.id /\ f.input = c.input
  BY <1>5, FileParts
<1>a. running' /\ todo' # << >>
  BY <1>3 DEF Importing, Runs
<1>7. \/ Step /\ Written(f)
      \/ c.op = "link" /\ todo' = <<DoFile("create", f), DoFile("write", f)>> \o Tail(todo) /\ UNCHANGED <<session, files>>
  <2>1. CASE Link
    <3>1. \A why : ~Fails(why)
      BY <1>a DEF Fails, Ends
    <3>2. c.op = "link"
      BY <1>0, <2>1 DEF Link, Does
    <3>3. \/ Step /\ Written(f)
          \/ todo' = <<DoFile("create", f), DoFile("write", f)>> \o Tail(todo) /\ UNCHANGED <<session, files>>
      <4> HIDE DEF Written, Step, Noted, Exists, Fails
      <4> QED BY <1>0, <1>5, <2>1, <3>1 DEF Link
    <3> QED BY <3>2, <3>3
  <2>2. CASE Write
    BY <1>0, <1>5, <2>2 DEF Write
  <2> QED BY <2>1, <2>2
<1>8. CASE Step /\ Written(f)
  <2>1. files' = (files \ {File(c.path, c.id, Empty)}) \cup {f}
    BY <1>6, <1>8 DEF Written
  <2>2. \A g \in files : g.dir # Queue => g \in files'
    BY <1>4, <2>1, FileParts
  <2>3. \A g \in files' : g \in files \/ (g.dir = c.path /\ g.id = c.id)
    BY <1>6, <2>1
  <2>4. marked' = IF c.path = DetDone(Queue) THEN marked \cup {c.input} ELSE marked
    BY <1>1, <1>4, Two
  <2>5. saved' \subseteq 1 .. finds /\ filed' \subseteq 1 .. finds
    <3>1. finds' = finds /\ Typed'
      BY <1>1, <1>3
    <3> HIDE DEF Command
    <3> QED BY <3>1 DEF Typed
  <2> QED BY <1>0, <1>1, <1>2, <1>3, <1>4, <1>8, <2>2, <2>3, <2>4, <2>5, LinkOrder
<1>9. CASE c.op = "link" /\ todo' = <<DoFile("create", f), DoFile("write", f)>> \o Tail(todo) /\ UNCHANGED <<session, files>>
  <2>1. UNCHANGED <<finds, stale, atRisk, marked, files, mem, inPlace>>
    BY <1>1, <1>9 DEF session
  <2> QED BY <1>0, <1>2, <1>3, <1>9, <2>1, CopyOrder
<1> QED BY <1>7, <1>8, <1>9

LEMMA ImportingCreateOrder ==
    ASSUME Typed, Tree, Always, Importing, ImportingOrder, Create, Links0 >= 1, Steady, UNCHANGED <<finds, stale>>
    PROVE  Always' /\ ImportingOrder'
<1>0. PICK c : c = Next1
  OBVIOUS
<1>1. c.op = "create" /\ UNCHANGED <<atRisk, finds, stale, saved, filed>>
  BY <1>0 DEF Create, Does
<1>2. Typed' /\ Tree' /\ Importing'
  BY ImportingCreate
<1>3. Pivots(1) /\ c = todo[1] /\ c \in Command
  BY <1>0, ImportingHead
<1>4. c.id + 1 \in DOMAIN mem /\ c.path \in {Queue, DetDone(Queue)}
  <2> HIDE DEF Exists, In, IsPair
  <2> QED BY <1>3 DEF Pivots
<1>5. c.id # NoId
  <2>1. c.id \in Int /\ DOMAIN mem = 1 .. Len(mem) /\ Len(mem) \in Nat
    BY <1>3, MemEntries DEF Command
  <2> QED BY <1>4, <2>1 DEF NoId
<1>6. PICK f : f = File(c.path, c.id, Empty)
  OBVIOUS
<1>7. f.dir = c.path /\ f.id = c.id
  BY <1>6, FileParts
<1>a. running' /\ todo' # << >>
  BY <1>2 DEF Importing, Runs
<1>8. \A why : ~Fails(why)
  BY <1>a DEF Fails, Ends
<1>9. Step /\ files' = files \cup {f} /\ marked' = IF c.path = DetDone(Queue) THEN marked \cup {c.input} ELSE marked
  <2> HIDE DEF Exists, Step, Fails
  <2> QED BY <1>0, <1>5, <1>6, <1>7, <1>8, Zenon DEF Create
<1>10. Exists(c.path, c.id)'
  BY <1>7, <1>9, FullAt
<1>11. (\A g \in files : g \in files') /\ \A g \in files' : g \in files \/ (g.dir = c.path /\ g.id = c.id)
  BY <1>7, <1>9
<1>12. saved' \subseteq 1 .. finds /\ filed' \subseteq 1 .. finds
  <2> HIDE DEF Command
  <2> QED BY <1>1 DEF Typed
<1> QED BY <1>0, <1>1, <1>2, <1>9, <1>10, <1>11, <1>12, LinkOrder

(* The commands that follow the links. *)
LEMMA LastOrder ==
    ASSUME Typed, Tree, Always, Importing, ImportingOrder, Links0 <= 0, Links0' <= 0,
           UNCHANGED <<mem, inPlace, marked, finds, stale, atRisk, again>>,
           files' \subseteq files, \A f \in files : f.dir \in {Queue, DetDone(Queue)} => f \in files',
           CitedInMemory',
           Len(todo') <= 3 => /\ current' = 0 /\ seekTo' < Len(mem')
                              /\ Trusted' /\ sought' # Empty => mem'[seekTo' + 1].input = sought',
           inPlace /\ Counted' => Counted \/ Full(Resume)' = {},
           ~inPlace /\ Len(todo') >= 2 => cited' = Empty,
           current' \in Nat, seekTo' \in Nat, statsPos' \in Nat,
           Typed', Tree', Importing'
    PROVE  Always' /\ ImportingOrder'
<1>1. Links0 \in Int /\ Links0' \in Int
  <2>1. Links0 \in Int
    BY ImportingHead
  <2>2. Links0' \in Int
    <3>1. Rests' = Rests
      BY DEF Rests
    <3>2. todo' \in Seq(Command)
      BY DEF Typed
    <3>3. Len(todo') \in Nat /\ Rests \in Nat
      BY <3>2, ImportingHead
    <3>4. Links0' = Len(todo') - Rests'
      BY DEF Links0
    <3> HIDE DEF Links0, Rests
    <3> QED BY <3>1, <3>3, <3>4
  <2> QED BY <2>1, <2>2
<1> HIDE DEF Links0, Rests
<1>2. 1 .. Links0 = {} /\ ~(Links0' > 0)
  BY <1>1
<1>3. Trusted' <=> Trusted
  BY DEF Trusted
<1>4. Always'
  <2>1. marked' \subseteq 0 .. finds' /\ again' \in BOOLEAN /\ \A j, k \in DOMAIN mem' : j < k => mem'[j].input < mem'[k].input
    BY DEF Always
  <2>2. \A f \in files' : f.dir = Resume => f \in files
    OBVIOUS
  <2>3. InMemory'
    BY DEF Importing
  <2> QED BY <2>1, <2>2, <2>3, AlwaysNext
<1>5. \A k \in DOMAIN mem' : mem'[k].passedDet => Exists(DetDone(Queue), k - 1)'
  <2> SUFFICES ASSUME NEW k \in DOMAIN mem, mem[k].passedDet PROVE Exists(DetDone(Queue), k - 1)'
    OBVIOUS
  <2>1. Exists(DetDone(Queue), k - 1)
    BY <1>2 DEF ImportingOrder
  <2>2. PICK m \in files : m.dir = DetDone(Queue) /\ m.id = k - 1
    BY <2>1, FullAt
  <2> QED BY <2>2, FullAt
<1>6. MarksNoted'
  <2>1. MarksNoted
    BY DEF ImportingOrder
  <2>2. \A m \in In(DetDone(Queue))' : m \in In(DetDone(Queue))
    BY FullAt
  <2> QED BY <2>1, <2>2 DEF MarksNoted
<1>7. Trusted' => \A k \in DOMAIN mem' : mem'[k].input \in marked' => mem'[k].passedDet
  BY <1>3 DEF ImportingOrder
<1>8. \A g \in Full(Resume)' : g \in Full(Resume)
  BY FullAt
<1>9. ASSUME inPlace
      PROVE  /\ \A g \in Full(Resume)' : g.input \in Inputs'
             /\ Counted' => \A g \in Full(Resume)' : g.id + 1 \in DOMAIN mem' /\ mem'[g.id + 1].input = g.input
  <2>1. /\ \A g \in Full(Resume) : g.input \in Inputs
        /\ Counted => \A g \in Full(Resume) : g.id + 1 \in DOMAIN mem /\ mem[g.id + 1].input = g.input
    BY <1>9 DEF ImportingOrder
  <2>2. Inputs' = Inputs
    BY DEF Inputs
  <2> QED BY <1>8, <1>9, <2>1, <2>2
<1>10. ASSUME ~inPlace
       PROVE  marked' = {} /\ (\A k \in DOMAIN mem' : ~mem'[k].passedDet) /\ (Len(todo') >= 2 => cited' = Empty)
  BY <1>10 DEF ImportingOrder
<1> QED BY <1>2, <1>4, <1>5, <1>6, <1>7, <1>9, <1>10 DEF ImportingOrder

(* Where the last commands stand. *)
LEMMA LastLength ==
    ASSUME Typed, Importing, Links0 <= 0
    PROVE  /\ Next1.op \in {"clear", "rmdir", "unlink", "create"} => Len(todo) >= 5
           /\ Next1.op = "seek" => Len(todo) = 4
           /\ Next1.op = "truncate" => Len(todo) = 3
           /\ Next1.op = "stats" => Len(todo) = 2
           /\ Next1.op = "enter" => Len(todo) = 1
           /\ Len(todo) \in Nat
<1>1. PICK o, p : o = (IF inPlace THEN N + 2 ELSE 0) /\ p = 1 - Links0
  OBVIOUS
<1>2. /\ N \in Nat /\ o \in Nat /\ inPlace \in BOOLEAN
      /\ p \in 1 .. o + 6 /\ Len(todo) = o + 7 - p
      /\ Next1.op = "clear" => inPlace /\ (p \in 1 .. N \/ p = N + 2)
      /\ Next1.op = "rmdir" => inPlace /\ p = N + 1
      /\ Next1.op = "unlink" => p = o + 1
      /\ Next1.op = "create" => p = o + 2
      /\ Next1.op = "seek" => p = o + 3
      /\ Next1.op = "truncate" => p = o + 4
      /\ Next1.op = "stats" => p = o + 5
      /\ Next1.op = "enter" => p = o + 6
  BY <1>1, LastHead
<1> HIDE DEF N, Links0
<1>3. inPlace => o = N + 2
  BY <1>1
<1>4. /\ Next1.op = "clear" => Len(todo) >= 5
      /\ Next1.op = "rmdir" => Len(todo) >= 5
      /\ Next1.op = "unlink" => Len(todo) >= 5
      /\ Next1.op = "create" => Len(todo) >= 5
  BY <1>2, <1>3
<1>5. /\ Next1.op = "seek" => Len(todo) = 4
      /\ Next1.op = "truncate" => Len(todo) = 3
      /\ Next1.op = "stats" => Len(todo) = 2
      /\ Next1.op = "enter" => Len(todo) = 1
      /\ Len(todo) \in Nat
  BY <1>2
<1> QED BY <1>4, <1>5

(* Those that end with the making of .cur_input. *)
LEMMA TakesOrder ==
    ASSUME Typed, Tree, Always, Importing, ImportingOrder, Links0 <= 0, Steady,
           Next1.op \in {"clear", "rmdir", "unlink", "create"},
           Step \/ UNCHANGED <<todo, session>>, UNCHANGED <<marked, finds, stale, atRisk>>,
           files' \subseteq files, \A f \in files : f.dir \in {Queue, DetDone(Queue)} => f \in files',
           Typed', Tree', Importing'
    PROVE  Always' /\ ImportingOrder'
<1>1. Len(todo) >= 5 /\ Len(todo) \in Nat
  BY LastLength
<1>2. Links0 \in Int /\ todo # << >>
  BY ImportingHead
<1>3. UNCHANGED <<mem, inPlace>>
  BY DEF Step, session
<1>4. (Len(todo') = Len(todo) - 1 \/ Len(todo') = Len(todo))
  <2>1. todo \in Seq(Command)
    BY DEF Typed
  <2>2. Step => Len(todo') = Len(todo) - 1
    BY <1>2, <2>1 DEF Step
  <2> QED BY <2>2
<1>5. Links0' <= 0
  <2>1. Rests' = Rests
    BY <1>3 DEF Rests
  <2>2. Links0 = Len(todo) - Rests /\ Links0' = Len(todo') - Rests'
    BY DEF Links0
  <2>3. Rests \in Nat /\ Len(todo) = Links0 + Rests
    BY ImportingHead
  <2> HIDE DEF Links0, Rests
  <2> QED BY <1>1, <1>2, <1>4, <2>1, <2>2, <2>3
<1>6. (Trusted' <=> Trusted) /\ (Counted' <=> Counted)
  BY DEF Trusted, Counted, Steady
<1>7. CitedInMemory'
  <2>1. CitedInMemory
    BY DEF ImportingOrder
  <2> QED BY <1>3, <1>6, <2>1 DEF CitedInMemory, Steady
<1>8. ~(Len(todo') <= 3)
  BY <1>1, <1>4
<1>9. ~inPlace /\ Len(todo') >= 2 => cited' = Empty
  <2>1. Len(todo) >= 2
    BY <1>1
  <2> QED BY <2>1 DEF ImportingOrder, Steady
<1>10. again' = again /\ current' \in Nat /\ seekTo' \in Nat /\ statsPos' \in Nat
  BY DEF Steady, Always
<1> QED BY <1>3, <1>5, <1>6, <1>7, <1>8, <1>9, <1>10, LastOrder

LEMMA ImportingTakesOrder ==
    ASSUME Typed, Tree, Always, Importing, ImportingOrder, Steady, UNCHANGED <<finds, stale>>,
           Clear \/ Rmdir \/ Unlink \/ (Create /\ Links0 <= 0)
    PROVE  Always' /\ ImportingOrder'
<1>0. PICK c : c = Next1
  OBVIOUS
<1>1. c.op \in {"clear", "rmdir", "unlink", "create"}
  BY <1>0 DEF Clear, Rmdir, Unlink, Create, Does
<1>2. Links0 <= 0
  <2>1. Clear \/ Rmdir \/ Unlink => c.op \in {"clear", "rmdir", "unlink"}
    BY <1>0 DEF Clear, Rmdir, Unlink, Does
  <2> QED BY <1>0, <2>1, ImportingOps
<1>3. Typed' /\ Tree' /\ Importing'
  BY ImportingClear, ImportingRmdir, ImportingUnlink, ImportingCreate, Zenon
<1>4. UNCHANGED atRisk
  BY DEF Clear, Rmdir, Unlink, Create, history
<1>5. running' /\ todo' # << >>
  BY <1>3 DEF Importing, Runs
<1>6. \A why : ~Fails(why)
  BY <1>5 DEF Fails, Ends
<1>7. /\ c.op = "clear" => inPlace /\ ((\E p \in 1 .. N : c.path = Sub(Resume, StateDirs[p])) \/ c.path = Resume)
      /\ c.op = "unlink" => c.path = CurInput
      /\ c.op = "create" => c.path = CurInput /\ c.id = NoId
  BY <1>0, <1>2, LastHead
<1>8. CASE Clear
  <2>1. c.op = "clear" /\ UNCHANGED marked
    BY <1>0, <1>8 DEF Clear, Does, history
  <2>2. c.path \notin {Queue, DetDone(Queue)}
    BY <1>7, <2>1, Apart
  <2>3. \/ Step /\ files' = files
        \/ UNCHANGED <<todo, session>> /\ \E f \in In(c.path) : files' = files \ {f}
    <3> HIDE DEF Step, Fails, session, In, IsEmpty
    <3>1. /\ LET d == Next1.path
                 matching == {f \in In(d) : f.id # NoId}
             IN  \/ Step /\ UNCHANGED files
                 \/ (\E f \in matching : files' = files \ {f}) /\ UNCHANGED <<todo, session>>
      BY <1>6, <1>8 DEF Clear
    <3> QED BY <1>0, <3>1
  <2>4. files' \subseteq files /\ \A f \in files : f.dir \in {Queue, DetDone(Queue)} => f \in files'
    BY <2>2, <2>3 DEF In
  <2> QED BY <1>0, <1>1, <1>2, <1>3, <1>4, <2>1, <2>3, <2>4, TakesOrder
<1>9. CASE Rmdir
  <2>1. Step /\ UNCHANGED <<files, marked>>
    <3> HIDE DEF Step, Fails, IsEmpty
    <3> QED BY <1>6, <1>9 DEF Rmdir, history
  <2> QED BY <1>0, <1>1, <1>2, <1>3, <1>4, <2>1, TakesOrder
<1>10. CASE Unlink
  <2>1. Step /\ UNCHANGED marked /\ files' = {f \in files : f.dir # c.path \/ f.id # c.id} /\ c.op = "unlink"
    BY <1>0, <1>10 DEF Unlink, history, Does
  <2>2. c.path \notin {Queue, DetDone(Queue)}
    BY <1>7, <2>1, Apart
  <2>3. files' \subseteq files /\ \A f \in files : f.dir \in {Queue, DetDone(Queue)} => f \in files'
    BY <2>1, <2>2
  <2> QED BY <1>0, <1>1, <1>2, <1>3, <1>4, <2>1, <2>3, TakesOrder
<1>11. CASE Create
  <2>1. c.path = CurInput /\ c.id = NoId
    BY <1>0, <1>7, <1>11 DEF Create, Does
  <2>2. Len(CurInput) = 1
    BY DEF CurInput
  <2>3. Step /\ UNCHANGED <<files, marked>>
    <3> HIDE DEF Step, Fails, Exists
    <3> QED BY <1>0, <1>6, <1>11, <2>1, <2>2, Zenon DEF Create
  <2> QED BY <1>0, <1>1, <1>2, <1>3, <1>4, <2>3, TakesOrder
<1> QED BY <1>8, <1>9, <1>10, <1>11

(* The position to start from, and the first report. *)
LEMMA ImportingPositionOrder ==
    ASSUME Typed, Tree, Always, Importing, ImportingOrder, FindStartPosition \/ WriteStats, again' = again
    PROVE  Always' /\ ImportingOrder'
<1>0. PICK op : op = Next1.op
  OBVIOUS
<1>1. op \in {"seek", "truncate", "stats"} /\ Step /\ UNCHANGED <<dirs, files, finds, history>>
  BY <1>0 DEF FindStartPosition, WriteStats, Does, disk
<1>2. Links0 <= 0
  BY <1>0, <1>1, ImportingOps
<1>3. Typed' /\ Tree' /\ Importing'
  BY ImportingPosition
<1>4. UNCHANGED <<mem, inPlace, marked, finds, stale, atRisk, files>>
  BY <1>1 DEF Step, session, history
<1>5. /\ op = "seek" => Len(todo) = 4
      /\ op = "truncate" => Len(todo) = 3
      /\ op = "stats" => Len(todo) = 2
  BY <1>0, <1>2, LastLength
<1>6. Len(todo') = Len(todo) - 1 /\ Links0' <= 0
  <2>1. saved' \subseteq 1 .. finds /\ filed' \subseteq 1 .. finds
    <3> HIDE DEF Command
    <3> QED BY <1>1 DEF Typed, history
  <2>2. Len(todo') = Len(todo) - 1 /\ Links0' = Links0 - 1
    BY <1>1, <1>4, <2>1, ImportingNext
  <2>3. Links0 \in Int
    BY ImportingHead
  <2> HIDE DEF Links0
  <2> QED BY <1>2, <2>2, <2>3
<1>7. Trusted' <=> Trusted
  BY <1>4 DEF Trusted
<1>8. mem # << >> /\ DOMAIN mem = 1 .. Len(mem) /\ Len(mem) \in Nat /\ Len(mem) >= 1
  <2>1. mem # << >> /\ DOMAIN mem = 1 .. Len(mem) /\ Len(mem) \in Nat /\ mem \in Entries
    BY MemEntries DEF Importing
  <2>2. Len(mem) # 0
    BY <2>1 DEF Entries
  <2> QED BY <2>1, <2>2
<1>9. CitedInMemory /\ (Len(todo) <= 3 => /\ current = 0 /\ seekTo < Len(mem)
                                          /\ Trusted /\ sought # Empty => mem[seekTo + 1].input = sought)
      /\ (~inPlace => (Len(todo) >= 2 => cited = Empty))
  BY DEF ImportingOrder
<1>10. CASE op = "seek"
  <2>1. /\ current' = 0
        /\ seekTo' = (IF inPlace /\ stats # "none" /\ statsPos < Len(mem) THEN statsPos ELSE 0)
        /\ sought' = (IF inPlace /\ stats # "none" THEN cited ELSE Empty)
        /\ UNCHANGED <<statsPos, cited>>
    BY <1>0, <1>10 DEF FindStartPosition, WriteStats, Does
  <2>2. statsPos \in Nat
    BY DEF Always
  <2>3. seekTo' \in Nat /\ seekTo' < Len(mem)
    BY <1>8, <2>1, <2>2
  <2>4. ASSUME Trusted, sought' # Empty PROVE mem[seekTo' + 1].input = sought'
    <3>1. inPlace /\ stats # "none" /\ sought' = cited
      BY <2>1, <2>4
    <3>2. statsPos + 1 \in DOMAIN mem /\ mem[statsPos + 1].input = cited
      BY <1>9, <2>4, <3>1 DEF CitedInMemory
    <3>3. statsPos < Len(mem)
      BY <1>8, <2>2, <3>2
    <3> QED BY <2>1, <3>1, <3>2, <3>3
  <2>5. CitedInMemory'
    BY <1>4, <1>7, <1>9, <2>1 DEF CitedInMemory
  <2>6. Counted' => Counted
    BY <1>7, <2>1 DEF Counted
  <2>7. ~inPlace /\ Len(todo') >= 2 => cited' = Empty
    BY <1>5, <1>9, <1>10, <2>1
  <2>8. current' \in Nat /\ statsPos' \in Nat
    BY <2>1, <2>2
  <2> QED BY <1>2, <1>3, <1>4, <1>6, <1>7, <2>1, <2>3, <2>4, <2>5, <2>6, <2>7, <2>8, LastOrder
<1>11. CASE op = "truncate"
  <2>1. UNCHANGED <<current, seekTo, sought, statsPos, cited>>
    BY <1>0, <1>11 DEF FindStartPosition, WriteStats, Does
  <2>2. CitedInMemory'
    BY <1>4, <1>7, <1>9, <2>1 DEF CitedInMemory
  <2>3. Counted' => Counted
    BY <1>7, <2>1 DEF Counted
  <2>4. current' \in Nat /\ seekTo' \in Nat /\ statsPos' \in Nat
    BY <2>1 DEF Always
  <2>5. ~inPlace /\ Len(todo') >= 2 => cited' = Empty
    BY <1>5, <1>9, <1>11, <2>1
  <2>6. Len(todo') <= 3 => /\ current' = 0 /\ seekTo' < Len(mem')
                           /\ Trusted' /\ sought' # Empty => mem'[seekTo' + 1].input = sought'
    <3>a. Len(todo) = 3
      BY <1>5, <1>11
    <3>1. Len(todo) <= 3
      BY <3>a
    <3>2. current = 0 /\ seekTo < Len(mem) /\ (Trusted /\ sought # Empty => mem[seekTo + 1].input = sought)
      BY <1>9, <3>1
    <3> QED BY <1>4, <1>7, <2>1, <3>2
  <2> QED BY <1>2, <1>3, <1>4, <1>6, <2>2, <2>3, <2>4, <2>5, <2>6, LastOrder
<1>12. CASE op = "stats"
  <2>1. UNCHANGED <<current, seekTo, sought>> /\ statsPos' = current /\ cited' = mem[current + 1].input
    BY <1>0, <1>12 DEF FindStartPosition, WriteStats, Does
  <2>2. current = 0 /\ seekTo < Len(mem) /\ (Trusted /\ sought # Empty => mem[seekTo + 1].input = sought)
    BY <1>5, <1>9, <1>12
  <2>3. CitedInMemory'
    <3>1. 0 + 1 \in DOMAIN mem
      BY <1>8
    <3> QED BY <1>4, <2>1, <2>2, <3>1 DEF CitedInMemory
  <2>4. inPlace => Full(Resume)' = {}
    <3> SUFFICES ASSUME inPlace PROVE Full(Resume)' = {}
      OBVIOUS
    <3>1. PICK o, p : o = (IF inPlace THEN N + 2 ELSE 0) /\ p = 1 - Links0
      OBVIOUS
    <3>2. N \in Nat /\ o \in Nat /\ Links0 \in Int /\ (Next1.op = "stats" => p = o + 5)
      BY <1>2, <3>1, LastHead
    <3>3. 0 - Links0 >= N + 2
      <4>1. o = N + 2 /\ p = o + 5
        BY <1>0, <1>12, <3>1, <3>2
      <4> HIDE DEF N, Links0
      <4> QED BY <3>1, <3>2, <4>1
    <3>4. Resume \notin dirs
      BY <3>3 DEF Importing, EmptyingDirs
    <3>5. In(Resume) = {}
      BY <3>4, FilesAt
    <3>6. \A f : f \notin Full(Resume)'
      BY <1>4, <3>5, FullAt
    <3> QED BY <3>6
  <2>5. current' \in Nat /\ seekTo' \in Nat /\ statsPos' \in Nat
    BY <2>1 DEF Always
  <2>6. Len(todo') <= 3 => /\ current' = 0 /\ seekTo' < Len(mem')
                           /\ Trusted' /\ sought' # Empty => mem'[seekTo' + 1].input = sought'
    BY <1>4, <1>7, <2>1, <2>2
  <2>7. ~(Len(todo') >= 2)
    BY <1>5, <1>6, <1>12
  <2> QED BY <1>2, <1>3, <1>4, <1>6, <2>3, <2>4, <2>5, <2>6, <2>7, LastOrder
<1> QED BY <1>1, <1>10, <1>11, <1>12

(* Everything is linked: the queue is what is in memory. *)
LEMMA AllLinked ==
    ASSUME Typed, Importing, ImportingOrder, Links0 <= 0
    PROVE  /\ \A k \in DOMAIN mem : File(Queue, k - 1, mem[k].input) \in files
           /\ Trusted => \A k \in DOMAIN mem : mem[k].input \in marked => Exists(DetDone(Queue), k - 1)
<1>1. Links0 \in Int
  BY ImportingHead
<1> HIDE DEF Links0
<1>2. 1 .. Links0 = {}
  BY <1>1
<1>3. \A k \in DOMAIN mem : File(Queue, k - 1, mem[k].input) \in files
                            \/ \E q \in 1 .. Links0 : todo[q].path = Queue /\ todo[q].id = k - 1
  <2> HIDE DEF Pivots, IsPair
  <2> QED BY Zenon DEF Importing, Linking
<1>4. \A k \in DOMAIN mem : mem[k].passedDet => Exists(DetDone(Queue), k - 1)
  BY <1>2 DEF ImportingOrder
<1>5. Trusted => \A k \in DOMAIN mem : mem[k].input \in marked => mem[k].passedDet
  BY DEF ImportingOrder
<1> QED BY <1>2, <1>3, <1>4, <1>5

LEMMA EnterOrder ==
    ASSUME Typed, Tree, Always, Importing, ImportingOrder, EnterQueue, again' = again
    PROVE  Always' /\ FuzzingOrder'
<1>1. Next1.op = "enter" /\ Step /\ UNCHANGED <<dirs, files, finds, history, statsPos, cited, sought>> /\ current' = seekTo /\ seekTo' = 0
  BY DEF EnterQueue, Does, disk
<1>2. Links0 <= 0
  BY <1>1, ImportingOps
<1>3. Typed' /\ Tree' /\ Fuzzing'
  BY ImportingEnter
<1>4. UNCHANGED <<mem, inPlace, marked, finds, stale, atRisk, files>>
  BY <1>1 DEF Step, session, history
<1>5. Len(todo) = 1 /\ todo' = << >>
  <2>1. Len(todo) = 1
    BY <1>1, <1>2, LastLength
  <2>2. todo \in Seq(Command) /\ todo' = Tail(todo)
    BY <1>1 DEF Typed, Step
  <2> QED BY <2>1, <2>2
<1>6. (Trusted' <=> Trusted)
  BY <1>4 DEF Trusted
<1>7. \A d, i : Exists(d, i)' <=> Exists(d, i)
  BY <1>4, FullAt
<1>8. Always'
  <2>1. marked' \subseteq 0 .. finds' /\ again' \in BOOLEAN /\ current' \in Nat /\ seekTo' \in Nat /\ statsPos' \in Nat
        /\ \A j, k \in DOMAIN mem' : j < k => mem'[j].input < mem'[k].input
    BY <1>1, <1>4 DEF Always
  <2>2. InMemory'
    BY <1>3 DEF Fuzzing
  <2>3. \A f \in files' : f.dir = Resume => f \in files
    BY <1>4
  <2> QED BY <1>3, <2>1, <2>2, <2>3, AlwaysNext
<1>9. MarksNoted' /\ CitedInMemory'
  <2>1. MarksNoted /\ CitedInMemory
    BY DEF ImportingOrder
  <2>2. \A m : m \in In(DetDone(Queue))' <=> m \in In(DetDone(Queue))
    BY <1>4, FullAt
  <2> QED BY <1>1, <1>4, <1>6, <2>1, <2>2 DEF MarksNoted, CitedInMemory
<1>10. /\ \A k \in DOMAIN mem' : File(Queue, k - 1, mem'[k].input) \in files'
       /\ Trusted' => \A k \in DOMAIN mem' : mem'[k].input \in marked' => Exists(DetDone(Queue), k - 1)'
  <2>1. /\ \A k \in DOMAIN mem : File(Queue, k - 1, mem[k].input) \in files
        /\ Trusted => \A k \in DOMAIN mem : mem[k].input \in marked => Exists(DetDone(Queue), k - 1)
    BY <1>2, AllLinked
  <2> QED BY <1>4, <1>6, <1>7, <2>1
<1>11. current' < Len(mem')
  <2>1. Len(todo) <= 3
    BY <1>5
  <2> QED BY <1>1, <1>4, <2>1 DEF ImportingOrder
<1>12. DOMAIN todo' = {}
  BY <1>5
<1> QED BY <1>8, <1>9, <1>10, <1>11, <1>12 DEF FuzzingOrder

(* A session dies before it fuzzes. *)
LEMMA KillImportingOrder ==
    ASSUME Typed, Tree, Always, Importing, ImportingOrder, Kill, Steady
    PROVE  Always' /\ Rest' /\ Restores(Source)'
<1>1. UNCHANGED <<files, dirs, marked, stale, finds>> /\ mem' = << >>
      /\ atRisk' = atRisk \cup Trimmed \cup IF Nuking THEN Nuked ELSE {}
  BY DEF Kill, disk, Ends
<1>2. Typed' /\ Tree' /\ Rest'
  BY KillImporting
<1>3. Always'
  <2>1. InOrder(Queue)' /\ InOrder(Resume)'
    BY <1>1 DEF Always, InOrder, Full, In
  <2> QED BY <1>1, <2>1 DEF Always, Steady
<1>4. /\ DOMAIN todo = 1 .. Len(todo) /\ Len(todo) \in Nat /\ N \in Nat /\ N >= 1 /\ inPlace \in BOOLEAN
      /\ Links0 \in Int /\ Rests \in Nat /\ Rests >= 6 /\ Len(todo) = Links0 + Rests
      /\ Rests = (IF inPlace THEN N + 2 ELSE 0) + 6
  BY ImportingHead
<1>5. CitedInMemory /\ MarksNoted /\ InMemory /\ mem # << >>
  BY DEF ImportingOrder, Importing
<1>6. (Trusted' => Trusted) /\ (Counted' => Counted)
  BY <1>1 DEF Trusted, Counted, Steady
(* Dead with what was to be restored still there. *)
<1>7. ASSUME Restores(Source) PROVE Restores(Source)'
  <2>1. atRisk \subseteq atRisk'
    BY <1>1
  <2> QED BY <1>1, <1>7, <2>1, SourceStill DEF Steady
<1>8. Links0 > 0 \/ Links0 <= 0
  <2> HIDE DEF Links0
  <2> QED BY <1>4
<1>9. CASE ~inPlace
  <2>1. marked = {} /\ (Len(todo) >= 2 => cited = Empty) /\ (~stale => Resume \notin dirs)
    BY <1>9 DEF ImportingOrder, Importing
  <2>2. Trusted => Source = Queue
    <3> SUFFICES ASSUME ~stale PROVE Free(Resume)
      BY DEF Source, Trusted
    <3>1. In(Resume) = {}
      BY <2>1, FilesAt
    <3>2. State(Resume) \notin dirs
      BY <2>1, Zenon DEF Tree
    <3> QED BY <3>1, <3>2 DEF Free
  <2>3. CASE Links0 <= 0
    <3>1. Restores(Queue)
      BY <1>5, <2>3, AllLinked, QueueRestores
    <3>2. Restores(Source)
      <4>1. CASE Trusted
        BY <2>2, <3>1, <4>1
      <4>2. CASE ~Trusted
        BY <4>2 DEF Restores, Counted
      <4> QED BY <4>1, <4>2
    <3> QED BY <1>2, <1>3, <1>7, <3>2
  <2>4. CASE Links0 > 0
    <3>1. cited = Empty
      <4>1. Len(todo) >= 2
        <5> HIDE DEF Links0, Rests
        <5> QED BY <1>4, <2>4
      <4> QED BY <2>1, <4>1
    <3>2. \A d : Marking(d) /\ Citing(d)
      BY <2>1, <3>1 DEF Marking, Citing
    <3>3. Numbered(Queue)
      <4>1. Inputs = {Seed}
        BY <1>9 DEF Importing, ImportingKept
      <4>2. \A k \in DOMAIN mem : mem[k].input = Seed
        BY <4>1 DEF Inputs
      <4>3. ASSUME NEW j \in DOMAIN mem, NEW k \in DOMAIN mem PROVE j = k
        BY <4>2, Ascending
      <4>4. DOMAIN mem = 1 .. Len(mem) /\ Len(mem) \in Nat
        BY MemEntries
      <4> SUFFICES ASSUME NEW f \in Full(Queue), NEW i \in 0 .. f.id PROVE \E g \in Full(Queue) : g.id = i
        BY DEF Numbered
      <4>5. f.id \in Nat /\ f.id + 1 \in DOMAIN mem
        <5>1. f \in In(Queue)
          BY FullAt
        <5> HIDE DEF In
        <5> QED BY <1>5, <5>1, FullTypes, Two DEF InMemory
      <4>6. 1 \in DOMAIN mem
        BY <4>4, <4>5
      <4>7. f.id + 1 = 1
        BY <4>3, <4>5, <4>6
      <4>8. f.id = i
        BY <4>5, <4>7
      <4> QED BY <4>8
    <3>4. Restores(Source)
      <4>1. Counted => Numbered(Source)
        BY <2>2, <3>3 DEF Counted
      <4> QED BY <3>2, <4>1 DEF Restores
    <3> QED BY <1>2, <1>3, <1>7, <3>4
  <2> QED BY <1>8, <2>3, <2>4
<1>10. CASE inPlace /\ Links0 > 0
  <2>1. Inputs = Holds(Resume) \ {Empty}
    BY <1>10, Zenon DEF Importing, ImportingKept
  <2>2. /\ Counted => \A g \in Full(Resume) : g.id + 1 \in DOMAIN mem /\ mem[g.id + 1].input = g.input
        /\ \A g \in Full(Resume) : g.input \in Inputs
        /\ \A g \in Full(Resume), k \in DOMAIN mem :
                mem[k].input = g.input /\ mem[k].passedDet => Exists(DetDone(Resume), g.id)
        /\ Trusted => \A k \in DOMAIN mem : mem[k].input \in marked => mem[k].passedDet
    BY <1>10 DEF ImportingOrder
  <2>3. Trusted => Marking(Resume)
    <3> SUFFICES ASSUME Trusted, NEW g \in Full(Resume), g.input \in marked PROVE Exists(DetDone(Resume), g.id)
      BY DEF Marking
    <3>1. PICK k \in DOMAIN mem : mem[k].input = g.input
      BY <2>2 DEF Inputs
    <3>2. mem[k].passedDet
      BY <2>2, <3>1
    <3> QED BY <2>2, <3>1, <3>2
  <2>4. Inputs \subseteq Holds(Resume)
    BY <2>1
  <2>5. ~Free(Resume) /\ Restores(Resume)
    BY <1>5, <2>2, <2>3, <2>4, ResumeRestored
  <2>6. Restores(Source)
    BY <2>5 DEF Source
  <2> QED BY <1>2, <1>3, <1>7, <2>6
<1>11. CASE inPlace /\ Links0 <= 0
  <2>1. Restores(Queue)
    BY <1>5, <1>11, AllLinked, QueueRestores
  <2>2. CASE Nuking
    <3>1. Trusted' => Trusted /\ Nuked = {}
      BY <1>1, <1>6, <2>2 DEF Trusted
    <3>2. CASE Nuked # {}
      BY <1>2, <1>3, <3>1, <3>2 DEF Restores, Counted, Trusted
    <3>3. CASE Nuked = {}
      <4>1. Holds(Queue) \subseteq Holds(Resume)
        BY <3>3 DEF Nuked
      <4>2. Marking(Resume)
        <5> SUFFICES ASSUME NEW g \in Full(Resume), g.input \in marked PROVE Exists(DetDone(Resume), g.id)
          BY DEF Marking
        <5>1. g \in In(Resume)
          BY FullAt
        <5>2. Exists(DetDone(Resume), g.id) \/ g.input \in Nuked
          <6> HIDE DEF Exists, In
          <6> QED BY <5>1 DEF Nuked
        <5> QED BY <3>3, <5>2
      <4>3. Inputs \subseteq Holds(Queue)
        <5> SUFFICES ASSUME NEW k \in DOMAIN mem PROVE mem[k].input \in Holds(Queue)
          BY DEF Inputs
        <5>1. File(Queue, k - 1, mem[k].input) \in files
          BY <1>11, AllLinked
        <5> QED BY <5>1, HoldsAt, FileParts
      <4>4. Counted => \A g \in Full(Resume) : g.id + 1 \in DOMAIN mem /\ mem[g.id + 1].input = g.input
        BY <1>11 DEF ImportingOrder
      <4>5. Inputs \subseteq Holds(Resume)
        BY <4>1, <4>3
      <4>6. ~Free(Resume) /\ Restores(Resume)
        BY <1>5, <4>2, <4>4, <4>5, ResumeRestored
      <4>7. Restores(Source)
        BY <4>6 DEF Source
      <4> QED BY <1>2, <1>3, <1>7, <4>7
    <3> QED BY <3>2, <3>3
  <2>3. CASE ~Nuking
    <3>1. 0 - Links0 >= N + 2
      <4> SUFFICES ASSUME ~(0 - Links0 >= N + 2) PROVE FALSE
        OBVIOUS
      <4> HIDE DEF Links0, Rests, N
      <4>1. N + 2 + Links0 \in DOMAIN todo /\ N + 2 + Links0 > Links0 /\ (N + 2 + Links0) - Links0 = N + 2
        BY <1>4, <1>11
      <4>2. todo[N + 2 + Links0] = AfterLinks(inPlace)[(N + 2 + Links0) - Links0]
        BY <4>1, Zenon DEF Importing
      <4>3. AfterLinks(inPlace)[N + 2] = Do("clear", Resume)
        <5>1. AfterLinks(TRUE)[N + 2] = Do("clear", Resume)
          BY AfterLinksAt, Zenon
        <5>2. inPlace = TRUE
          BY <1>4, <1>11
        <5> QED BY <5>1, <5>2
      <4> QED BY <2>3, <4>1, <4>2, <4>3 DEF Nuking
    <3>2. Resume \notin dirs
      BY <1>11, <3>1 DEF Importing, EmptyingDirs
    <3>3. Free(Resume)
      <4>1. State(Resume) \notin dirs
        BY <3>2, Zenon DEF Tree
      <4> QED BY <3>2, <4>1, FilesAt DEF Free
    <3>4. Restores(Source)
      BY <2>1, <3>3 DEF Source
    <3> QED BY <1>2, <1>3, <1>7, <3>4
  <2> QED BY <2>2, <2>3
<1> QED BY <1>4, <1>8, <1>9, <1>10, <1>11

-----------------------------------------------------------------------------
(* Fuzzing. *)

(* A command of fuzzing touches one file, or makes a mark, and leaves every  *)
(* entry written or about to be.                                             *)
Touches(d, i) ==
    /\ d \in {Queue, DetDone(Queue), Crashes}
    /\ \A f \in files : f.dir = DetDone(Queue) => f \in files'
    /\ \A f \in files' : f \in files \/ (f.dir = d /\ f.id = i)
    /\ IF d = DetDone(Queue)
       THEN /\ todo[1].path = d /\ todo[1].id = i /\ i + 1 \in DOMAIN mem
            /\ Exists(d, i)' /\ marked' = marked \cup {todo[1].input}
       ELSE marked' = marked
LeavesEntries ==
    \A k \in DOMAIN mem :
        \/ File(Queue, k - 1, mem[k].input) \in files'
        \/ \E p \in DOMAIN todo : p # 1 /\ todo[p].op = "write" /\ todo[p].path = Queue /\ todo[p].id = k - 1

LEMMA CommandOrder ==
    ASSUME Typed, Tree, Always, Fuzzing, FuzzingOrder, todo # << >>, Step,
           UNCHANGED <<dirs, finds, stale, atRisk>>, saved' \subseteq 1 .. finds, filed' \subseteq 1 .. finds,
           Typed', Tree', Fuzzing', NEW d, NEW i, Touches(d, i), LeavesEntries,
           CitedInMemory', current' = current, again' = again, seekTo' \in Nat, statsPos' \in Nat
    PROVE  Always' /\ FuzzingOrder'
<1>0. PICK c : c = todo[1]
  OBVIOUS
<1>a. /\ d \in {Queue, DetDone(Queue), Crashes} /\ (d = DetDone(Queue) => c.path = d /\ c.id = i)
      /\ \A f \in files : f.dir = DetDone(Queue) => f \in files'
      /\ \A f \in files' : f \in files \/ (f.dir = d /\ f.id = i)
      /\ d = DetDone(Queue) => i + 1 \in DOMAIN mem /\ Exists(d, i)'
      /\ marked' = IF d = DetDone(Queue) THEN marked \cup {c.input} ELSE marked
  <2> HIDE DEF Exists
  <2> QED BY <1>0 DEF Touches
<1>1. /\ mem' = mem /\ Len(todo') = Len(todo) - 1
      /\ \A j \in 1 .. Len(todo) - 1 : todo'[j] = todo[j + 1]
      /\ DOMAIN todo' = 1 .. Len(todo) - 1
  BY FuzzingNext
<1>2. DOMAIN todo = 1 .. Len(todo) /\ Len(todo) \in {1, 2, 3}
  BY FuzzingHead
<1>3. \A p \in DOMAIN todo : p # 1 => p - 1 \in DOMAIN todo' /\ todo'[p - 1] = todo[p]
  <2> SUFFICES ASSUME NEW p \in DOMAIN todo, p # 1 PROVE p - 1 \in DOMAIN todo' /\ todo'[p - 1] = todo[p]
    OBVIOUS
  <2>1. p - 1 \in 1 .. Len(todo) - 1 /\ (p - 1) + 1 = p
    BY <1>2
  <2> QED BY <1>1, <2>1, Zenon
<1>4. \A p \in DOMAIN todo' : p + 1 \in DOMAIN todo /\ todo'[p] = todo[p + 1]
  BY <1>1, <1>2
<1>5. Trusted' <=> Trusted
  BY DEF Trusted
<1>6. d = DetDone(Queue) => c.input = mem[i + 1].input /\ c.input \in 0 .. finds
  <2>1. 1 \in DOMAIN todo
    BY <1>2
  <2>2. d = DetDone(Queue) => c.input = mem[i + 1].input
    BY <1>0, <1>a, <2>1 DEF FuzzingOrder
  <2> QED BY <1>a, <2>2, MemEntries
<1>7. Always'
  <2>1. marked' \subseteq 0 .. finds' /\ current' \in Nat /\ again' \in BOOLEAN
    BY <1>a, <1>6 DEF Always
  <2>2. \A j, k \in DOMAIN mem' : j < k => mem'[j].input < mem'[k].input
    BY <1>1 DEF Always
  <2>3. \A f \in files' : f.dir = Resume => f \in files
    BY <1>a, Two
  <2>4. InMemory'
    BY DEF Fuzzing
  <2> QED BY <2>1, <2>2, <2>3, <2>4, AlwaysNext
<1>8. \A k \in DOMAIN mem' :
         \/ File(Queue, k - 1, mem'[k].input) \in files'
         \/ \E p \in DOMAIN todo' : todo'[p].op = "write" /\ todo'[p].path = Queue /\ todo'[p].id = k - 1
  BY <1>1, <1>3 DEF LeavesEntries
<1>9. \A p \in DOMAIN todo' : todo'[p].path = DetDone(Queue) => todo'[p].input = mem'[todo'[p].id + 1].input
  BY <1>1, <1>4 DEF FuzzingOrder
<1>10. MarksNoted'
  <2> SUFFICES ASSUME NEW m \in In(DetDone(Queue))' PROVE mem'[m.id + 1].input \in marked'
    BY DEF MarksNoted
  <2>1. m \in files' /\ m.dir = DetDone(Queue)
    BY InPrimed
  <2>2. CASE m \in files
    <3>1. m \in In(DetDone(Queue))
      BY <2>1, <2>2 DEF In
    <3>2. mem[m.id + 1].input \in marked
      BY <3>1 DEF FuzzingOrder, MarksNoted
    <3> QED BY <1>a, <1>1, <3>2
  <2>3. CASE d = DetDone(Queue) /\ m.id = i
    BY <1>a, <1>1, <1>6, <2>3
  <2> QED BY <1>a, <2>1, <2>2, <2>3
<1>11. ASSUME Trusted', NEW k \in DOMAIN mem', mem'[k].input \in marked' PROVE Exists(DetDone(Queue), k - 1)'
  <2>1. CASE mem[k].input \in marked
    <3>1. Exists(DetDone(Queue), k - 1)
      BY <1>1, <1>5, <1>11, <2>1 DEF FuzzingOrder
    <3>2. PICK m \in files : m.dir = DetDone(Queue) /\ m.id = k - 1
      BY <3>1, FullAt
    <3> QED BY <1>a, <3>2, FullAt
  <2>2. CASE d = DetDone(Queue) /\ mem[k].input = c.input
    <3>1. k = i + 1
      BY <1>a, <1>1, <1>6, <2>2, Ascending
    <3>2. k - 1 = i
      <4>1. todo \in Seq(Command) /\ 1 \in DOMAIN todo
        BY <1>2, FuzzingHead
      <4>2. c \in Command
        <5> HIDE DEF Command
        <5> QED BY <1>0, <4>1, Element
      <4>3. i \in Int
        BY <1>a, <2>2, <4>2 DEF Command
      <4> QED BY <3>1, <4>3
    <3> HIDE DEF Exists
    <3> QED BY <1>a, <2>2, <3>2
  <2> QED BY <1>a, <1>1, <1>11, <2>1, <2>2
<1>12. current' < Len(mem')
  BY <1>1 DEF FuzzingOrder
<1> HIDE DEF MarksNoted, CitedInMemory, Exists, Trusted
<1> QED BY <1>7, <1>8, <1>9, <1>10, <1>11, <1>12 DEF FuzzingOrder

(* An entry, or a crash, written. *)
LEMMA FuzzingWriteOrder ==
    ASSUME Typed, Tree, Always, Fuzzing, FuzzingOrder, Write, Steady, UNCHANGED <<finds, stale>>
    PROVE  Always' /\ FuzzingOrder'
<1>1. Next1.op = "write" /\ todo # << >> /\ Step /\ UNCHANGED <<dirs, marked, atRisk>>
      /\ Written(File(Next1.path, Next1.id, Next1.input))
  BY DEF Write, Does
<1>2. PICK c : c = todo[1]
  OBVIOUS
<1>3. Next1 = c /\ ToWrite /\ Len(todo) = 1 /\ WriteFits(c) /\ DOMAIN todo = 1 .. Len(todo)
  BY <1>1, <1>2, FuzzingHead DEF ToWrite
<1>4. c.path \in {Queue, Crashes} /\ (c.path = Queue => c.id + 1 \in DOMAIN mem /\ c.input = mem[c.id + 1].input)
  BY <1>3, Two DEF WriteFits
<1>5. files' = (files \ {File(c.path, c.id, Empty)}) \cup {File(c.path, c.id, c.input)}
  BY <1>1, <1>3, FileParts DEF Written
<1>6. Typed' /\ Tree' /\ Fuzzing'
  BY FuzzingWrite
<1>7. saved' \subseteq 1 .. finds /\ filed' \subseteq 1 .. finds
  <2> HIDE DEF Command
  <2> QED BY <1>6 DEF Typed
<1>8. ASSUME NEW k \in DOMAIN mem PROVE File(Queue, k - 1, mem[k].input) \in files'
  <2>1. CASE c.path = Queue /\ c.id = k - 1
    <3>1. c.input = mem[k].input
      <4>1. (k - 1) + 1 = k
        BY MemEntries
      <4> QED BY <1>4, <2>1, <4>1
    <3> QED BY <1>5, <2>1, <3>1
  <2>2. CASE ~(c.path = Queue /\ c.id = k - 1)
    <3>1. ~\E p \in DOMAIN todo : todo[p].path = Queue /\ todo[p].id = k - 1
      BY <1>2, <1>3, <2>2
    <3>2. File(Queue, k - 1, mem[k].input) \in files
      BY <3>1 DEF FuzzingOrder
    <3> QED BY <1>5, <2>2, <3>2, FileParts
  <2> QED BY <2>1, <2>2
<1>9. \A f \in files : f.dir = DetDone(Queue) => f \in files'
  BY <1>4, <1>5, FileParts, Two
<1>10. \A f \in files' : f \in files \/ (f.dir = c.path /\ f.id = c.id)
  BY <1>5, FileParts
<1>11. CitedInMemory'
  <2>1. mem' = mem
    BY <1>1 DEF Step, session
  <2> QED BY <1>1, <2>1 DEF Steady, FuzzingOrder, CitedInMemory, Trusted
<1>12. c.path # DetDone(Queue)
  BY <1>4, Two
<1>13. seekTo' \in Nat /\ statsPos' \in Nat
  BY DEF Always, Steady
<1>91. LeavesEntries
  BY <1>8 DEF LeavesEntries
<1>92. Touches(c.path, c.id)
  <2> HIDE DEF Exists
  <2> QED BY <1>1, <1>4, <1>9, <1>10, <1>12 DEF Touches
<1> HIDE DEF CitedInMemory
<1> HIDE DEF LeavesEntries, Touches
<1> QED BY <1>1, <1>6, <1>7, <1>11, <1>13, <1>91, <1>92, CommandOrder DEF Steady

(* A file made for an entry or a crash, or a mark. *)
LEMMA FuzzingCreateOrder ==
    ASSUME Typed, Tree, Always, Fuzzing, FuzzingOrder, Create, Steady, UNCHANGED <<finds, stale>>
    PROVE  Always' /\ FuzzingOrder'
<1>1. Next1.op = "create" /\ todo # << >> /\ UNCHANGED <<dirs, saved, filed, atRisk>>
  BY DEF Create, Does
<1>2. PICK c : c = todo[1]
  OBVIOUS
<1>3. /\ Next1 = c /\ (ToMake \/ ToMark) /\ c.op = "create"
      /\ DOMAIN todo = 1 .. Len(todo) /\ Len(todo) \in {1, 2, 3}
  BY <1>1, <1>2, FuzzingHead
<1>4. /\ c.path \in {Queue, DetDone(Queue), Crashes}
      /\ c.path = DetDone(Queue) => c.id + 1 \in DOMAIN mem /\ c.id \in Int
      /\ c.id # NoId
  <2>0. c \in Command
    <3>1. todo \in Seq(Command) /\ 1 \in DOMAIN todo
      BY <1>1, <1>3, FuzzingHead
    <3> HIDE DEF Command
    <3> QED BY <1>2, <3>1, Element
  <2>1. c.id \in Int
    BY <2>0 DEF Command
  <2>2. CASE ToMake
    <3>1. /\ c.path = todo[2].path /\ c.id = todo[2].id /\ todo[2].path \in {Queue, Crashes}
          /\ todo[2].path = Queue => todo[2].id + 1 \in DOMAIN mem
          /\ todo[2].path = Crashes => crashes > 0 /\ todo[2].id = crashes - 1
      BY <1>2, <2>2, Two DEF ToMake, IsPair, WriteFits
    <3>2. crashes \in Nat /\ DOMAIN mem = 1 .. Len(mem) /\ Len(mem) \in Nat
      BY MemEntries DEF Typed
    <3>3. c.id # NoId
      BY <2>1, <3>1, <3>2 DEF NoId
    <3> QED BY <3>1, <3>3, Two
  <2>3. CASE ToMark
    <3>1. c.path = DetDone(Queue) /\ c.id + 1 \in DOMAIN mem
      BY <1>2, <2>3 DEF ToMark
    <3>2. c.id # NoId
      BY <2>1, <3>1, MemEntries DEF NoId
    <3> QED BY <2>1, <3>1, <3>2
  <2> QED BY <1>3, <2>2, <2>3
<1>5. Typed' /\ Tree' /\ Fuzzing'
  BY FuzzingCreate
<1>6. Runs'
  BY <1>5 DEF Fuzzing
<1>7. /\ Step /\ files' = files \cup {File(c.path, c.id, Empty)}
      /\ marked' = IF c.path = DetDone(Queue) THEN marked \cup {c.input} ELSE marked
  <2>1. ~Fails("create")
    BY <1>6 DEF Runs, Ends, Fails
  <2>2. ~(Len(c.path) = 1 /\ c.id = NoId)
    BY <1>4
  <2>3. PICK f : f = File(c.path, c.id, Empty)
    OBVIOUS
  <2>4. f.dir = c.path /\ f.id = c.id
    BY <2>3, FileParts
  <2>5. /\ Step /\ files' = files \cup {f}
        /\ marked' = IF f.dir = DetDone(Queue) THEN marked \cup {c.input} ELSE marked
    <3> HIDE DEF Step, Fails, Exists
    <3> QED BY <1>3, <2>1, <2>2, <2>3, Zenon DEF Create
  <2> QED BY <2>3, <2>4, <2>5
<1>8. saved' \subseteq 1 .. finds /\ filed' \subseteq 1 .. finds
  <2> HIDE DEF Command
  <2> QED BY <1>5 DEF Typed
<1>9. \A k \in DOMAIN mem :
         \/ File(Queue, k - 1, mem[k].input) \in files'
         \/ \E p \in DOMAIN todo : p # 1 /\ todo[p].op = "write" /\ todo[p].path = Queue /\ todo[p].id = k - 1
  BY <1>2, <1>3, <1>7 DEF FuzzingOrder
<1>10. (\A f \in files : f \in files') /\ \A f \in files' : f \in files \/ (f.dir = c.path /\ f.id = c.id)
  BY <1>7, FileParts
<1>11. Exists(c.path, c.id)'
  BY <1>7, FileParts, FullAt
<1>12. CitedInMemory'
  <2>1. mem' = mem
    BY <1>7 DEF Step, session
  <2> QED BY <1>1, <2>1 DEF Steady, FuzzingOrder, CitedInMemory, Trusted
<1>14. seekTo' \in Nat /\ statsPos' \in Nat
  BY DEF Always, Steady
<1>91. LeavesEntries
  BY <1>9 DEF LeavesEntries
<1>92. Touches(c.path, c.id)
  <2> HIDE DEF Exists
  <2> QED BY <1>2, <1>4, <1>7, <1>10, <1>11 DEF Touches
<1> HIDE DEF CitedInMemory, Exists
<1> HIDE DEF LeavesEntries, Touches
<1> QED BY <1>1, <1>5, <1>7, <1>8, <1>12, <1>14, <1>91, <1>92, CommandOrder DEF Steady

(* trim_case removes the file of an entry that is about to be written. *)
LEMMA FuzzingUnlinkOrder ==
    ASSUME Typed, Tree, Always, Fuzzing, FuzzingOrder, Unlink, Steady, UNCHANGED <<finds, stale>>
    PROVE  Always' /\ FuzzingOrder'
<1>1. Next1.op = "unlink" /\ todo # << >> /\ Step /\ UNCHANGED <<dirs, saved, filed, marked, atRisk>>
      /\ files' = {f \in files : f.dir # Next1.path \/ f.id # Next1.id}
  BY DEF Unlink, Does, history
<1>2. PICK c, w : c = todo[1] /\ w = todo[3]
  OBVIOUS
<1>3. Next1 = c /\ ToReplace /\ DOMAIN todo = 1 .. Len(todo)
  BY <1>1, <1>2, FuzzingHead
<1>4. Len(todo) = 3 /\ w.op = "write" /\ w.path = Queue /\ c.path = Queue /\ c.id = w.id
  BY <1>2, <1>3 DEF ToReplace, WriteFits
<1>5. Typed' /\ Tree' /\ Fuzzing'
  BY FuzzingUnlink
<1>6. saved' \subseteq 1 .. finds /\ filed' \subseteq 1 .. finds
  <2> HIDE DEF Command
  <2> QED BY <1>5 DEF Typed
<1>7. ASSUME NEW k \in DOMAIN mem
      PROVE  \/ File(Queue, k - 1, mem[k].input) \in files'
             \/ \E p \in DOMAIN todo : p # 1 /\ todo[p].op = "write" /\ todo[p].path = Queue /\ todo[p].id = k - 1
  <2>1. 3 \in DOMAIN todo
    BY <1>3, <1>4
  <2>2. CASE w.id = k - 1
    BY <1>2, <1>4, <2>1, <2>2
  <2>3. CASE w.id # k - 1
    <3>1. \/ File(Queue, k - 1, mem[k].input) \in files
          \/ \E p \in DOMAIN todo : todo[p].op = "write" /\ todo[p].path = Queue /\ todo[p].id = k - 1
      BY DEF FuzzingOrder
    <3>2. c.op # "write"
      BY <1>1, <1>3
    <3>3. File(Queue, k - 1, mem[k].input) \in files => File(Queue, k - 1, mem[k].input) \in files'
      BY <1>1, <1>3, <1>4, <2>3, FileParts
    <3> QED BY <1>2, <3>1, <3>2, <3>3
  <2> QED BY <2>2, <2>3
<1>8. /\ \A f \in files : f.dir = DetDone(Queue) => f \in files'
      /\ \A f \in files' : f \in files
  BY <1>1, <1>3, <1>4, Two
<1>9. CitedInMemory'
  <2>1. mem' = mem
    BY <1>1 DEF Step, session
  <2> QED BY <1>1, <2>1 DEF Steady, FuzzingOrder, CitedInMemory, Trusted
<1>10. c.path # DetDone(Queue)
  BY <1>4, Two
<1>11. seekTo' \in Nat /\ statsPos' \in Nat
  BY DEF Always, Steady
<1>91. LeavesEntries
  BY <1>7 DEF LeavesEntries
<1>92. Touches(c.path, c.id)
  <2> HIDE DEF Exists
  <2> QED BY <1>1, <1>4, <1>8, <1>10 DEF Touches
<1> HIDE DEF CitedInMemory
<1> HIDE DEF LeavesEntries, Touches
<1> QED BY <1>1, <1>5, <1>6, <1>9, <1>11, <1>91, <1>92, CommandOrder DEF Steady

(* A report: cur_path names the current entry. *)
LEMMA FuzzingReportOrder ==
    ASSUME Typed, Tree, Always, Fuzzing, FuzzingOrder, WriteStats, again' = again
    PROVE  Always' /\ FuzzingOrder'
<1>1. /\ Next1.op \in {"truncate", "stats"} /\ todo # << >> /\ Step
      /\ UNCHANGED <<dirs, files, finds, saved, filed, marked, atRisk, stale, current, seekTo>>
      /\ \/ UNCHANGED <<statsPos, cited>>
         \/ statsPos' = current /\ cited' = mem[current + 1].input
  BY DEF WriteStats, Does, history
<1>2. PICK c : c = todo[1]
  OBVIOUS
<1>3. Next1 = c /\ ToReport /\ DOMAIN todo = 1 .. Len(todo) /\ Len(todo) \in {1, 2}
  BY <1>1, <1>2, FuzzingHead DEF ToReport
<1>4. Typed' /\ Tree' /\ Fuzzing'
  BY FuzzingReport
<1>5. saved' \subseteq 1 .. finds /\ filed' \subseteq 1 .. finds
  <2> HIDE DEF Command
  <2> QED BY <1>1, <1>4 DEF Typed
<1>6. current + 1 \in DOMAIN mem
  <2>1. current \in Nat /\ current < Len(mem)
    BY DEF Always, FuzzingOrder
  <2> QED BY <2>1, MemEntries
<1>7. CitedInMemory'
  <2>1. mem' = mem
    BY <1>1 DEF Step, session
  <2>2. CASE UNCHANGED <<statsPos, cited>>
    BY <1>1, <2>1, <2>2 DEF FuzzingOrder, CitedInMemory, Trusted
  <2>3. CASE statsPos' = current /\ cited' = mem[current + 1].input
    BY <1>6, <2>1, <2>3 DEF CitedInMemory
  <2> QED BY <1>1, <2>2, <2>3
<1>8. seekTo' \in Nat /\ statsPos' \in Nat
  BY <1>1 DEF Always
<1>9. \A k \in DOMAIN mem :
         \/ File(Queue, k - 1, mem[k].input) \in files'
         \/ \E p \in DOMAIN todo : p # 1 /\ todo[p].op = "write" /\ todo[p].path = Queue /\ todo[p].id = k - 1
  BY <1>1, <1>2, <1>3 DEF FuzzingOrder
<1>11. Queue # DetDone(Queue)
  BY Two
<1>91. LeavesEntries
  BY <1>9 DEF LeavesEntries
<1>92. Touches(Queue, c.id)
  <2> HIDE DEF Exists
  <2> QED BY <1>1, <1>11 DEF Touches
<1> HIDE DEF CitedInMemory
<1> HIDE DEF LeavesEntries, Touches
<1> QED BY <1>1, <1>4, <1>5, <1>7, <1>8, <1>91, <1>92, CommandOrder

(* An action that changes the queue in memory and decides what to write. An  *)
(* entry added is a new find, and about to be written.                       *)
LEMMA ActOrder ==
    ASSUME Typed, Tree, Always, Fuzzing, FuzzingOrder, Idle,
           UNCHANGED <<files, marked, stale, atRisk, seekTo, statsPos, cited, again>>, finds' \in Nat, finds' >= finds,
           current' \in Nat, current' < Len(mem'),
           \A k \in DOMAIN mem : k \in DOMAIN mem' /\ mem'[k].input = mem[k].input,
           \A k \in DOMAIN mem' : k \notin DOMAIN mem =>
               /\ k = Len(mem) + 1 /\ mem'[k].input = finds + 1
               /\ \E p \in DOMAIN todo' : todo'[p].op = "write" /\ todo'[p].path = Queue /\ todo'[p].id = k - 1,
           \A p \in DOMAIN todo' : todo'[p].path = DetDone(Queue) => todo'[p].input = mem'[todo'[p].id + 1].input,
           Typed', Tree', Fuzzing'
    PROVE  Always' /\ FuzzingOrder'
<1>1. /\ finds \in Nat /\ DOMAIN mem = 1 .. Len(mem) /\ Len(mem) \in Nat
      /\ \A k \in DOMAIN mem : mem[k].input \in 0 .. finds
  BY MemEntries
<1>2. todo = << >>
  BY DEF Idle
<1>3. \A k \in DOMAIN mem : File(Queue, k - 1, mem[k].input) \in files
  BY <1>2 DEF FuzzingOrder
<1>4. marked \subseteq 0 .. finds
  BY DEF Always
<1>5. Trusted' <=> Trusted
  BY DEF Trusted
<1>6. \A j, k \in DOMAIN mem' : j < k => mem'[j].input < mem'[k].input
  <2> SUFFICES ASSUME NEW j \in DOMAIN mem', NEW k \in DOMAIN mem', j < k PROVE mem'[j].input < mem'[k].input
    OBVIOUS
  <2>1. CASE j \in DOMAIN mem /\ k \in DOMAIN mem
    BY <2>1 DEF Always
  <2>2. CASE j \in DOMAIN mem /\ k \notin DOMAIN mem
    <3>1. mem'[k].input = finds + 1 /\ mem'[j].input \in 0 .. finds
      BY <1>1, <2>2
    <3> QED BY <1>1, <3>1
  <2>3. j \in DOMAIN mem
    <3> SUFFICES ASSUME j \notin DOMAIN mem PROVE FALSE
      OBVIOUS
    <3>1. j = Len(mem) + 1
      OBVIOUS
    <3>2. k = Len(mem) + 1 \/ k \in 1 .. Len(mem)
      BY <1>1
    <3> QED BY <1>1, <3>1, <3>2
  <2> QED BY <2>1, <2>2, <2>3
<1>7. Always'
  <2>1. marked' \subseteq 0 .. finds'
    BY <1>1, <1>4
  <2>2. seekTo' \in Nat /\ statsPos' \in Nat /\ again' \in BOOLEAN
    BY DEF Always
  <2>3. InMemory' /\ \A f \in files' : f.dir = Resume => f \in files
    BY DEF Fuzzing
  <2> QED BY <1>6, <2>1, <2>2, <2>3, AlwaysNext
<1>8. \A k \in DOMAIN mem' :
         \/ File(Queue, k - 1, mem'[k].input) \in files'
         \/ \E p \in DOMAIN todo' : todo'[p].op = "write" /\ todo'[p].path = Queue /\ todo'[p].id = k - 1
  BY <1>3
<1>9. MarksNoted'
  <2> SUFFICES ASSUME NEW m \in In(DetDone(Queue))' PROVE mem'[m.id + 1].input \in marked'
    BY DEF MarksNoted
  <2>1. m \in files' /\ m.dir = DetDone(Queue)
    BY InPrimed
  <2>2. m \in In(DetDone(Queue))
    BY <2>1 DEF In
  <2>3. m.id + 1 \in DOMAIN mem
    <3> HIDE DEF In
    <3> QED BY <2>2 DEF Fuzzing, InMemory
  <2>4. mem[m.id + 1].input \in marked
    BY <2>2 DEF FuzzingOrder, MarksNoted
  <2> QED BY <2>3, <2>4
<1>10. ASSUME Trusted', NEW k \in DOMAIN mem', mem'[k].input \in marked' PROVE Exists(DetDone(Queue), k - 1)'
  <2>1. k \in DOMAIN mem
    <3> SUFFICES ASSUME k \notin DOMAIN mem PROVE FALSE
      OBVIOUS
    <3>1. finds + 1 \in marked
      BY <1>10
    <3> QED BY <1>1, <1>4, <3>1
  <2>2. Exists(DetDone(Queue), k - 1)
    BY <1>5, <1>10, <2>1 DEF FuzzingOrder
  <2> QED BY <2>2, FullAt
<1>11. CitedInMemory'
  BY <1>5 DEF FuzzingOrder, CitedInMemory
<1> HIDE DEF MarksNoted, CitedInMemory, Exists, Trusted
<1> QED BY <1>7, <1>8, <1>9, <1>10, <1>11 DEF FuzzingOrder

LEMMA OneAndTwo ==
    ASSUME NEW x, NEW y, NEW z, NEW t, t = <<x>> \o <<y, z>>
    PROVE  \A p \in DOMAIN t : t[p] \in {x, y, z}
<1> DEFINE S == {x, y, z}
           a == <<x>>
           b == <<y, z>>
<1>1. a \in Seq(S) /\ b \in Seq(S)
  OBVIOUS
<1> HIDE DEF S, a, b
<1>2. a \o b \in Seq(S)
  BY <1>1
<1>3. t \in Seq(S)
  BY <1>2 DEF a, b
<1>4. \A p \in DOMAIN t : t[p] \in S
  BY <1>3
<1> QED BY <1>4 DEF S

(* The actions that neither add an entry nor mark one. *)
LEMMA CrashOrTrimOrder ==
    ASSUME Typed, Tree, Always, Fuzzing, FuzzingOrder, SaveCrash \/ TrimCase \/ UpdateStats, Steady
    PROVE  Always' /\ FuzzingOrder'
<1>1. /\ Idle /\ UNCHANGED <<disk, mem, history>> /\ (finds' = finds \/ finds' = finds + 1)
  BY DEF SaveCrash, TrimCase, UpdateStats, session
<1>2. UNCHANGED <<files, mem, marked, stale, atRisk>>
  BY <1>1 DEF disk, history
<1>3. Typed' /\ Tree' /\ Fuzzing'
  BY FuzzingSaveCrash, FuzzingTrim, FuzzingUpdate, Zenon
<1>4. \A p \in DOMAIN todo' : todo'[p].path # DetDone(Queue)
  <2>1. CASE SaveCrash
    <3>1. PICK f : f = File(Crashes, crashes, finds + 1)
      OBVIOUS
    <3>2. todo' = <<DoFile("create", f), DoFile("write", f)>>
      BY <2>1, <3>1 DEF SaveCrash, NewFile
    <3>3. \A p \in DOMAIN todo' : todo'[p].path = Crashes
      BY <3>1, <3>2, FileParts DEF DoFile
    <3> QED BY <3>3, Two
  <2>2. CASE TrimCase
    <3>1. PICK k \in DOMAIN mem :
             todo' = <<DoFile("unlink", File(Queue, k - 1, mem[k].input))>> \o NewFile(File(Queue, k - 1, mem[k].input))
      BY <2>2 DEF TrimCase
    <3>2. PICK f : f = File(Queue, k - 1, mem[k].input)
      OBVIOUS
    <3>3. f.dir = Queue
      BY <3>2, FileParts
    <3>4. \A p \in DOMAIN todo' : todo'[p] \in {DoFile("unlink", f), DoFile("create", f), DoFile("write", f)}
      BY <3>1, <3>2, OneAndTwo DEF NewFile
    <3>5. \A p \in DOMAIN todo' : todo'[p].path = Queue
      BY <3>3, <3>4 DEF DoFile
    <3> QED BY <3>5, Two
  <2>3. CASE UpdateStats
    <3>1. todo' = <<Do("truncate", <<"fuzzer_stats">>), Do("stats", <<"fuzzer_stats">>)>>
      BY <2>3 DEF UpdateStats
    <3>2. \A p \in DOMAIN todo' : todo'[p].path = <<"fuzzer_stats">>
      BY <3>1 DEF Do
    <3>3. DetDone(Queue) # <<"fuzzer_stats">>
      BY DEF DetDone, Sub, Queue
    <3> QED BY <3>2, <3>3
  <2> QED BY <2>1, <2>2, <2>3
<1>5. finds' \in Nat /\ finds' >= finds
  BY <1>1, MemEntries
<1>6. current' \in Nat /\ current' < Len(mem')
  BY <1>2 DEF Steady, Always, FuzzingOrder
<1> HIDE DEF Idle
<1> QED BY <1>1, <1>2, <1>3, <1>4, <1>5, <1>6, ActOrder DEF Steady

(* save_if_interesting: the new entry is the last, and the latest find. *)
LEMMA SaveEntryOrder ==
    ASSUME Typed, Tree, Always, Fuzzing, FuzzingOrder, SaveEntry, Steady
    PROVE  Always' /\ FuzzingOrder'
<1>1. /\ Idle /\ finds' = finds + 1 /\ UNCHANGED <<disk, history>>
      /\ mem' = Append(mem, [input |-> finds + 1, passedDet |-> FALSE])
  BY DEF SaveEntry
<1>2. UNCHANGED <<files, marked, stale, atRisk>>
  BY <1>1 DEF disk, history
<1>3. Typed' /\ Tree' /\ Fuzzing'
  BY FuzzingSaveEntry
<1>4. PICK e, n : e = [input |-> finds + 1, passedDet |-> FALSE] /\ n = Len(mem)
  OBVIOUS
<1>5. finds \in Nat /\ mem \in Entries /\ DOMAIN mem = 1 .. n /\ n \in Nat
  BY <1>4, MemEntries
<1>6. /\ Len(mem') = n + 1 /\ DOMAIN mem' = 1 .. n + 1 /\ mem'[n + 1].input = finds + 1
      /\ \A k \in 1 .. n : mem'[k] = mem[k]
  <2>1. e \in [input : Int, passedDet : BOOLEAN] /\ e.input = finds + 1
    BY <1>4, <1>5
  <2>2. /\ Append(mem, e) \in Entries /\ Len(Append(mem, e)) = n + 1
        /\ \A k \in 1 .. n : Append(mem, e)[k] = mem[k]
        /\ Append(mem, e)[n + 1] = e
    BY <1>4, <1>5, <2>1, AppendTo DEF Entries
  <2>3. mem' = Append(mem, e)
    BY <1>1, <1>4
  <2>4. DOMAIN mem' = 1 .. Len(mem')
    BY <2>2, <2>3 DEF Entries
  <2> QED BY <2>1, <2>2, <2>3, <2>4
<1>7. PICK f : f = File(Queue, n, finds + 1)
  OBVIOUS
<1>8. f.dir = Queue /\ f.id = n
  BY <1>7, FileParts
<1>9. todo' = <<DoFile("create", f), DoFile("write", f)>>
  BY <1>4, <1>7 DEF SaveEntry, NewFile
<1>10. /\ \A p \in DOMAIN todo' : todo'[p].path = Queue
       /\ \E p \in DOMAIN todo' : todo'[p].op = "write" /\ todo'[p].path = Queue /\ todo'[p].id = n
  <2>1. DOMAIN todo' = {1, 2} /\ todo'[1].path = Queue /\ todo'[2].path = Queue /\ todo'[2].op = "write" /\ todo'[2].id = n
    BY <1>8, <1>9 DEF DoFile
  <2> QED BY <2>1
<1>11. \A k \in DOMAIN mem : k \in DOMAIN mem' /\ mem'[k].input = mem[k].input
  BY <1>5, <1>6
<1>12. \A k \in DOMAIN mem' : k \notin DOMAIN mem => k = n + 1 /\ k - 1 = n
  BY <1>5, <1>6
<1>13. \A k \in DOMAIN mem' : k \notin DOMAIN mem =>
           /\ k = Len(mem) + 1 /\ mem'[k].input = finds + 1
           /\ \E p \in DOMAIN todo' : todo'[p].op = "write" /\ todo'[p].path = Queue /\ todo'[p].id = k - 1
  BY <1>4, <1>6, <1>10, <1>12
<1>14. current' \in Nat /\ current' < Len(mem')
  <2>1. current \in Nat /\ current < n /\ current' = current
    BY <1>4 DEF Steady, Always, FuzzingOrder
  <2> QED BY <1>5, <1>6, <2>1
<1>15. \A p \in DOMAIN todo' : todo'[p].path # DetDone(Queue)
  BY <1>10, Two
<1>16. finds' \in Nat /\ finds' >= finds
  BY <1>1, <1>5
<1> HIDE DEF Idle
<1> QED BY <1>1, <1>2, <1>3, <1>11, <1>13, <1>14, <1>15, <1>16, ActOrder DEF Steady

(* mark_as_det_done. *)
LEMMA MarkOrder ==
    ASSUME Typed, Tree, Always, Fuzzing, FuzzingOrder, MarkAsDetDone, Steady
    PROVE  Always' /\ FuzzingOrder'
<1>1. Idle /\ finds' = finds /\ UNCHANGED <<disk, history>>
  BY DEF MarkAsDetDone
<1>2. UNCHANGED <<files, marked, stale, atRisk>>
  BY <1>1 DEF disk, history
<1>3. Typed' /\ Tree' /\ Fuzzing'
  BY FuzzingMark
<1>4. finds \in Nat /\ mem \in Entries /\ DOMAIN mem = 1 .. Len(mem) /\ Len(mem) \in Nat
  BY MemEntries
<1>5. PICK k \in DOMAIN mem :
         /\ mem' = [mem EXCEPT ![k].passedDet = TRUE]
         /\ todo' = <<DoFile("create", File(DetDone(Queue), k - 1, mem[k].input))>>
  BY DEF MarkAsDetDone
<1>6. PICK e : e = [mem[k] EXCEPT !.passedDet = TRUE]
  OBVIOUS
<1>7. e.input = mem[k].input
  <2>1. mem[k] \in [input : Int, passedDet : BOOLEAN]
    BY <1>4, Element DEF Entries
  <2> QED BY <1>6, <2>1
<1>8. mem' = [mem EXCEPT ![k] = e]
  BY <1>5, <1>6
<1>9. DOMAIN mem' = DOMAIN mem /\ (\A j \in DOMAIN mem : mem'[j].input = mem[j].input) /\ Len(mem') = Len(mem)
  <2>1. /\ DOMAIN mem' = DOMAIN mem /\ Len(mem') = Len(mem) /\ mem'[k] = e
        /\ \A j \in DOMAIN mem : j # k => mem'[j] = mem[j]
    BY <1>4, <1>8 DEF Entries
  <2> QED BY <1>7, <2>1
<1>10. \A p \in DOMAIN todo' : todo'[p].input = mem[k].input /\ todo'[p].id + 1 = k
  <2>1. PICK f : f = File(DetDone(Queue), k - 1, mem[k].input)
    OBVIOUS
  <2>2. f.id = k - 1 /\ f.input = mem[k].input
    BY <2>1, FileParts
  <2>3. todo' = <<DoFile("create", f)>>
    BY <1>5, <2>1
  <2>4. DOMAIN todo' = {1} /\ todo'[1].input = mem[k].input /\ todo'[1].id = k - 1
    BY <2>2, <2>3 DEF DoFile
  <2> QED BY <1>4, <2>4
<1>11. \A p \in DOMAIN todo' : todo'[p].input = mem'[todo'[p].id + 1].input
  BY <1>9, <1>10
<1>12. current' \in Nat /\ current' < Len(mem')
  BY <1>9 DEF Steady, Always, FuzzingOrder
<1>13. finds' \in Nat /\ finds' >= finds
  BY <1>1, <1>4
<1> HIDE DEF Idle
<1> QED BY <1>1, <1>2, <1>3, <1>9, <1>11, <1>12, <1>13, ActOrder DEF Steady

(* Fuzzing goes on with the next entry. *)
LEMMA AdvanceOrder ==
    ASSUME Typed, Tree, Always, Fuzzing, FuzzingOrder, Advance, again' = again, Typed', Tree', Fuzzing'
    PROVE  Always' /\ FuzzingOrder'
<1>1. /\ Idle /\ UNCHANGED <<disk, todo, session, finds, history, seekTo, statsPos, cited>>
      /\ current' = (current + 1) % Len(mem)
  BY DEF Advance
<1>2. UNCHANGED <<files, mem, marked, stale, atRisk>>
  BY <1>1 DEF disk, history, session
<1>3. current' \in Nat /\ current' < Len(mem')
  <2>1. current \in Nat /\ current < Len(mem) /\ Len(mem) \in Nat
    BY MemEntries DEF Always, FuzzingOrder
  <2> QED BY <1>1, <1>2, <2>1
<1>4. DOMAIN todo' = {}
  BY <1>1 DEF Idle
<1>5. finds' \in Nat /\ finds' >= finds
  BY <1>1, MemEntries
<1> HIDE DEF Idle
<1> QED BY <1>1, <1>2, <1>3, <1>4, <1>5, ActOrder

(* A session dies while it fuzzes: unless an input is endangered, every      *)
(* entry is written, and the queue restores what was in memory.              *)
LEMMA KillFuzzingOrder ==
    ASSUME Typed, Tree, Always, Fuzzing, FuzzingOrder, Kill, Steady
    PROVE  Always' /\ Rest' /\ Restores(Source)'
<1>1. UNCHANGED <<files, dirs, marked, stale, finds>> /\ mem' = << >>
      /\ atRisk' = atRisk \cup Trimmed \cup IF Nuking THEN Nuked ELSE {}
  BY DEF Kill, disk, Ends
<1>2. Rest'
  BY KillFuzzing
<1>3. Always'
  <2>1. InOrder(Queue)' /\ InOrder(Resume)'
    BY <1>1 DEF Always, InOrder, Full, In
  <2> QED BY <1>1, <2>1 DEF Always, Steady
<1>4. CASE ~Trusted'
  BY <1>2, <1>3, <1>4 DEF Restores, Counted
<1>5. CASE Trusted'
  <2>1. Trimmed = {} /\ atRisk = {} /\ ~stale
    BY <1>1, <1>5 DEF Trusted
  <2>2. Free(Resume)
    <3>1. Resume \notin dirs
      BY <2>1 DEF Fuzzing, NoOldQueue
    <3>2. State(Resume) \notin dirs
      BY <3>1, Zenon DEF Tree
    <3> QED BY <3>1, <3>2, FilesAt DEF Free
  <2>3. Holds(Resume) = {}
    BY <2>2 DEF Free, Holds
  <2>4. ~\E p \in DOMAIN todo : todo[p].op = "write" /\ todo[p].path = Queue
    <3> SUFFICES ASSUME NEW p \in DOMAIN todo, todo[p].op = "write", todo[p].path = Queue PROVE FALSE
      OBVIOUS
    <3>1. todo[p].input \in Trimmed
      BY <2>3 DEF Trimmed
    <3> QED BY <2>1, <3>1
  <2>5. \A k \in DOMAIN mem : File(Queue, k - 1, mem[k].input) \in files
    BY <2>4 DEF FuzzingOrder
  <2>6. InMemory /\ CitedInMemory /\ (Trusted => \A k \in DOMAIN mem : mem[k].input \in marked => Exists(DetDone(Queue), k - 1))
    BY DEF Fuzzing, FuzzingOrder
  <2>7. Restores(Queue)
    <3> HIDE DEF InMemory, CitedInMemory
    <3> QED BY <2>5, <2>6, QueueRestores
  <2>8. Restores(Source)
    BY <2>2, <2>7 DEF Source
  <2>9. atRisk \subseteq atRisk'
    BY <1>1
  <2> QED BY <1>1, <1>2, <1>3, <2>8, <2>9, SourceStill DEF Steady
<1> QED BY <1>4, <1>5

-----------------------------------------------------------------------------
(* The second invariant is kept. *)

(* A step that leaves the directory and the program alone, and another       *)
(* instance's.                                                               *)
LEMMA NothingOrder ==
    ASSUME Ordered, UNCHANGED <<disk, todo, session, finds, history, current, seekTo, statsPos, cited, sought, again>>
    PROVE  Ordered'
<1>1. UNCHANGED <<dirs, files, plain, stats, todo, running, inPlace, mem, crashes, fatal, finds,
                  saved, filed, marked, backups, atRisk, stale>>
  BY DEF disk, session, history
<1>2. /\ Typed' /\ Tree'
      /\ (Rest => Rest') /\ (Starting => Starting') /\ (Importing => Importing') /\ (Fuzzing => Fuzzing')
  <2> HIDE DEF Typed, Tree, Rest, Starting, Importing, Fuzzing
  <2> QED BY PhasesStill DEF Ordered
<1>3. /\ \A d : In(d)' = In(d) /\ Full(d)' = Full(d)
      /\ \A d, i : Exists(d, i)' <=> Exists(d, i)
      /\ Done' = Done /\ Links0' = Links0 /\ Inputs' = Inputs
      /\ \A d : Free(d)' <=> Free(d)
  BY <1>1 DEF In, Full, Exists, Done, Total, Links0, Rests, Inputs, Free
<1>4. (Trusted' <=> Trusted) /\ (Counted' <=> Counted)
  BY <1>1 DEF Trusted, Counted
<1> HIDE DEF In, Full, Exists, Done, Links0, Inputs, Free, Trusted, Counted
<1>5. \A d : Restores(d) => Restores(d)'
  BY <1>1, <1>3, <1>4 DEF Restores, Marking, Citing, Numbered
<1>6. Source' = Source
  BY <1>3 DEF Source
<1>7. Restores(Source) => Restores(Source)'
  BY <1>1, SourceStill
<1>8. Always => Always'
  BY <1>1, <1>3 DEF Always, InOrder
<1>9. StartingOrder => StartingOrder'
  <2> HIDE DEF Restores, Source
  <2> QED BY <1>1, <1>3, <1>5, <1>7 DEF StartingOrder
<1>10. (MarksNoted => MarksNoted') /\ (CitedInMemory => CitedInMemory')
  BY <1>1, <1>3, <1>4 DEF MarksNoted, CitedInMemory
<1>11. ImportingOrder => ImportingOrder'
  <2> HIDE DEF MarksNoted, CitedInMemory
  <2> QED BY <1>1, <1>3, <1>4, <1>10 DEF ImportingOrder
<1>12. FuzzingOrder => FuzzingOrder'
  <2> HIDE DEF MarksNoted, CitedInMemory
  <2> QED BY <1>1, <1>3, <1>4, <1>10 DEF FuzzingOrder
<1> HIDE DEF Typed, Tree, Always, Rest, Starting, Importing, Fuzzing, StartingOrder, ImportingOrder, FuzzingOrder, Restores, Source
<1> QED BY <1>2, <1>7, <1>8, <1>9, <1>11, <1>12 DEF Ordered

(* A session begins. *)
LEMMA BeginKeepsOrder ==
    ASSUME Ordered, NEW resume \in BOOLEAN, Begin(resume),
           cited' = (IF ~resume /\ running' THEN Empty ELSE cited), UNCHANGED <<current, seekTo, statsPos, sought>>,
           again' = (again \/ (<< >> \in dirs /\ ~running /\ running' /\ ~inPlace'))
    PROVE  Ordered'
<1>1. ~running
  BY DEF Begin
<1>2. Rest /\ Restores(Source)
  BY <1>1, PhaseOps DEF Ordered
<1> HIDE DEF Typed, Tree, Always, Rest, Starting, Importing, Fuzzing, StartingOrder, ImportingOrder, FuzzingOrder, Restores, Source, Begin
<1>3. Typed /\ Tree /\ Always
  BY DEF Ordered
<1>4. Typed' /\ Tree'
  BY <1>2, <1>3, BeginKeeps
<1>5. Always' /\ Phases'
  BY <1>2, <1>3, BeginOrder
<1> QED BY <1>4, <1>5 DEF Ordered, Phases

(* Or dies. *)
LEMMA KillKeepsOrder ==
    ASSUME Ordered, Kill, Steady
    PROVE  Ordered'
<1>1. running
  BY DEF Kill
<1>2. \/ Starting /\ StartingOrder
      \/ Importing /\ ImportingOrder
      \/ Fuzzing /\ FuzzingOrder
  BY <1>1, PhaseOps DEF Ordered
<1> HIDE DEF Typed, Tree, Always, Rest, Starting, Importing, Fuzzing, StartingOrder, ImportingOrder, FuzzingOrder, Restores, Source, Kill, Steady
<1>3. Typed /\ Tree /\ Always
  BY DEF Ordered
<1>4. Typed' /\ Tree' /\ Rest'
  BY <1>2, <1>3, KillStarting, KillImporting, KillFuzzing
<1>5. Always' /\ Restores(Source)'
  BY <1>2, <1>3, <1>4, KillStartingOrder, KillImportingOrder, KillFuzzingOrder
<1> QED BY <1>4, <1>5 DEF Ordered

(* A command of one of the phases. *)
LEMMA ExecuteKeepsOrder ==
    ASSUME Ordered, Execute, Steady
    PROVE  Ordered'
<1>1. Typed /\ Tree /\ Always
  BY DEF Ordered
<1>2. UNCHANGED <<finds, stale>>
  BY DEF Execute, Clear, Rmdir, Mkdir, RenameQueue, Backup, Unlink, Create, Write, Link, ReadTestcases, history
<1>3. todo # << >>
  BY DEF Execute, Clear, Rmdir, Mkdir, RenameQueue, Backup, Unlink, Create, Write, Link, ReadTestcases, Does
<1>4. \/ Starting /\ StartingOrder
      \/ Importing /\ ImportingOrder
      \/ Fuzzing /\ FuzzingOrder
  BY <1>1, <1>3, PhaseOps DEF Ordered
<1>5. /\ Clear => Next1.op = "clear"
      /\ Rmdir => Next1.op = "rmdir"
      /\ Mkdir => Next1.op = "mkdir"
      /\ RenameQueue => Next1.op = "rename"
      /\ Backup => Next1.op = "backup"
      /\ Unlink => Next1.op = "unlink"
      /\ Create => Next1.op = "create"
      /\ Write => Next1.op = "write"
      /\ Link => Next1.op = "link"
      /\ ReadTestcases => Next1.op = "read"
  BY DEF Clear, Rmdir, Mkdir, RenameQueue, Backup, Unlink, Create, Write, Link, ReadTestcases, Does
<1>6. Clear \/ Rmdir \/ Mkdir \/ RenameQueue \/ Backup \/ Unlink \/ Create \/ Write \/ Link \/ ReadTestcases
  BY Zenon DEF Execute
<1>7. PICK op : op = Next1.op
  OBVIOUS
<1> HIDE DEF Typed, Tree, Always, Rest, Starting, Importing, Fuzzing, StartingOrder, ImportingOrder, FuzzingOrder, Restores, Source, Steady
<1> HIDE DEF Clear, Rmdir, Mkdir, RenameQueue, Backup, Unlink, Create, Write, Link, ReadTestcases
<1>8. CASE Starting /\ StartingOrder
  <2>1. op \in {"rename", "clear", "rmdir", "backup", "unlink", "mkdir", "create", "read"}
    BY <1>1, <1>7, <1>8, PhaseOps
  <2>2. Clear \/ Rmdir \/ Backup \/ Unlink \/ Mkdir \/ Create \/ RenameQueue \/ ReadTestcases
    BY <1>5, <1>6, <1>7, <2>1
  <2>3. CASE Clear \/ Rmdir \/ Backup \/ Unlink \/ Mkdir \/ Create
    <3>1. Typed' /\ Tree' /\ Starting'
      BY <1>1, <1>2, <1>8, <2>3, StartingClear, StartingRmdir, StartingBackup, StartingUnlink, StartingMkdir, StartingCreate
    <3>2. Always' /\ StartingOrder'
      BY <1>1, <1>2, <1>8, <2>3, <3>1, StartingFollows
    <3> QED BY <3>1, <3>2 DEF Ordered
  <2>4. CASE RenameQueue
    <3>1. Typed' /\ Tree' /\ Starting'
      BY <1>1, <1>2, <1>8, <2>4, StartingRename
    <3>2. Always' /\ StartingOrder'
      BY <1>1, <1>2, <1>8, <2>4, <3>1, StartingMoves
    <3> QED BY <3>1, <3>2 DEF Ordered
  <2>5. CASE ReadTestcases
    <3>1. Typed' /\ Tree'
      BY <1>1, <1>8, <2>5, StartingRead
    <3>2. Always' /\ Phases'
      BY <1>1, <1>8, <2>5, ReadOrder
    <3> QED BY <3>1, <3>2 DEF Ordered, Phases
  <2> QED BY <2>2, <2>3, <2>4, <2>5
<1>9. CASE Importing /\ ImportingOrder
  <2>1. op \notin {"mkdir", "rename", "backup", "read"}
    BY <1>1, <1>7, <1>9, PhaseOps
  <2>2. Clear \/ Rmdir \/ Unlink \/ Create \/ Link \/ Write
    BY <1>5, <1>6, <1>7, <2>1
  <2>3. Typed' /\ Tree' /\ Importing'
    BY <1>1, <1>2, <1>9, <2>2, ImportingClear, ImportingRmdir, ImportingUnlink, ImportingCreate, ImportingLink, ImportingWrite
  <2>4. Links0 \in Int
    BY <1>1, <1>9, ImportingHead
  <2>5. Links0 >= 1 \/ Links0 <= 0
    <3> HIDE DEF Links0
    <3> QED BY <2>4
  <2>6. Always' /\ ImportingOrder'
    <3> HIDE DEF Links0
    <3>1. CASE Link \/ Write
      BY <1>1, <1>2, <1>9, <3>1, ImportingLinkOrder
    <3>2. CASE Create /\ Links0 >= 1
      BY <1>1, <1>2, <1>9, <3>2, ImportingCreateOrder
    <3>3. CASE Clear \/ Rmdir \/ Unlink \/ (Create /\ Links0 <= 0)
      BY <1>1, <1>2, <1>9, <3>3, ImportingTakesOrder
    <3> QED BY <2>2, <2>5, <3>1, <3>2, <3>3
  <2> QED BY <2>3, <2>6 DEF Ordered
<1>10. CASE Fuzzing /\ FuzzingOrder
  <2>1. op \in {"write", "create", "unlink", "truncate", "stats"}
    BY <1>1, <1>3, <1>7, <1>10, PhaseOps
  <2>2. Unlink \/ Create \/ Write
    BY <1>5, <1>6, <1>7, <2>1
  <2>3. Typed' /\ Tree' /\ Fuzzing'
    BY <1>1, <1>2, <1>10, <2>2, FuzzingUnlink, FuzzingCreate, FuzzingWrite
  <2>4. Always' /\ FuzzingOrder'
    BY <1>1, <1>2, <1>10, <2>2, FuzzingUnlinkOrder, FuzzingCreateOrder, FuzzingWriteOrder
  <2> QED BY <2>3, <2>4 DEF Ordered
<1> QED BY <1>4, <1>8, <1>9, <1>10

(* An action of fuzzing. *)
LEMMA FuzzKeepsOrder ==
    ASSUME Ordered, (Fuzz /\ Steady) \/ (Advance /\ again' = again)
    PROVE  Ordered'
<1>1. Typed /\ Tree /\ Always
  BY DEF Ordered
<1>2. running /\ todo = << >>
  BY DEF Fuzz, SaveEntry, SaveCrash, TrimCase, MarkAsDetDone, UpdateStats, Advance, Idle
<1>3. Fuzzing /\ FuzzingOrder
  BY <1>1, <1>2, PhaseOps DEF Ordered
<1> HIDE DEF Typed, Tree, Always, Fuzzing, FuzzingOrder, Steady, SaveEntry, SaveCrash, TrimCase, MarkAsDetDone, UpdateStats
<1>4. CASE Fuzz /\ Steady
  <2>1. Typed' /\ Tree' /\ Fuzzing'
    BY <1>1, <1>3, <1>4, FuzzingSaveEntry, FuzzingSaveCrash, FuzzingTrim, FuzzingMark, FuzzingUpdate DEF Fuzz
  <2>2. Always' /\ FuzzingOrder'
    BY <1>1, <1>3, <1>4, SaveEntryOrder, CrashOrTrimOrder, MarkOrder DEF Fuzz
  <2> QED BY <2>1, <2>2 DEF Ordered
<1>5. CASE Advance /\ again' = again
  <2>1. UNCHANGED <<disk, todo, session, finds, history>>
    BY <1>5 DEF Advance
  <2>2. Typed' /\ Tree' /\ Fuzzing'
    BY <1>1, <1>3, <2>1, PhasesStill
  <2>3. Always' /\ FuzzingOrder'
    BY <1>1, <1>3, <1>5, <2>2, AdvanceOrder
  <2> QED BY <2>2, <2>3 DEF Ordered
<1> QED BY <1>4, <1>5

(* The position: found, reported, taken. *)
LEMMA PositionKeepsOrder ==
    ASSUME Ordered, FindStartPosition \/ WriteStats \/ EnterQueue, again' = again
    PROVE  Ordered'
<1>1. Typed /\ Tree /\ Always
  BY DEF Ordered
<1>2. todo # << >> /\ Next1.op \in {"seek", "truncate", "stats", "enter"}
  BY DEF FindStartPosition, WriteStats, EnterQueue, Does
<1>3. ~Rest /\ ~Starting
  BY <1>1, <1>2, PhaseOps
<1>a. /\ FindStartPosition => Next1.op = "seek"
      /\ EnterQueue => Next1.op = "enter"
  BY DEF FindStartPosition, EnterQueue, Does
<1>4. (Importing /\ ImportingOrder) \/ (Fuzzing /\ FuzzingOrder)
  BY <1>3 DEF Ordered
<1> HIDE DEF Typed, Tree, Always, Rest, Starting, Importing, Fuzzing, ImportingOrder, FuzzingOrder, FindStartPosition, WriteStats, EnterQueue
<1>5. CASE Importing /\ ImportingOrder
  <2>1. CASE FindStartPosition \/ WriteStats
    <3>1. Typed' /\ Tree' /\ Importing'
      BY <1>1, <1>5, <2>1, ImportingPosition
    <3>2. Always' /\ ImportingOrder'
      BY <1>1, <1>5, <2>1, ImportingPositionOrder
    <3> QED BY <3>1, <3>2 DEF Ordered
  <2>2. CASE EnterQueue
    <3>1. Typed' /\ Tree' /\ Fuzzing'
      BY <1>1, <1>5, <2>2, ImportingEnter
    <3>2. Always' /\ FuzzingOrder'
      BY <1>1, <1>5, <2>2, EnterOrder
    <3> QED BY <3>1, <3>2 DEF Ordered
  <2> QED BY <2>1, <2>2
<1>6. CASE Fuzzing /\ FuzzingOrder
  <2>1. Next1.op \in {"write", "create", "unlink", "truncate", "stats"}
    BY <1>1, <1>2, <1>6, PhaseOps
  <2>2. WriteStats
    BY <1>a, <2>1
  <2>3. Typed' /\ Tree' /\ Fuzzing'
    BY <1>1, <1>6, <2>2, FuzzingReport
  <2>4. Always' /\ FuzzingOrder'
    BY <1>1, <1>6, <2>2, FuzzingReportOrder
  <2> QED BY <2>3, <2>4 DEF Ordered
<1> QED BY <1>4, <1>5, <1>6

(* The second invariant holds at first, every step keeps it, and it implies  *)
(* the property.                                                             *)
LEMMA OrderedInit ==
    ASSUME Init
    PROVE  Ordered
<1>1. /\ dirs = {} /\ files = {} /\ plain = {} /\ todo = << >>
      /\ running = FALSE /\ mem = << >> /\ fatal = "none" /\ finds = 0
      /\ saved = {} /\ filed = {} /\ marked = {} /\ stale = FALSE
      /\ current = 0 /\ seekTo = 0 /\ statsPos = 0 /\ cited = Empty /\ again = FALSE
  BY DEF Init, DInit
<1>2. Typed /\ Tree
  <2> HIDE DEF Typed, Tree
  <2> QED BY InvInit DEF Inv
<1>3. Rest
  BY <1>1 DEF Rest, CrashesKept
<1>4. \A d : Full(d) = {}
  BY <1>1 DEF Full, In
<1>5. Always
  <2>1. InOrder(Queue) /\ InOrder(Resume)
    BY <1>4 DEF InOrder
  <2>2. DOMAIN mem = {}
    BY <1>1
  <2>3. marked \subseteq 0 .. finds /\ current \in Nat /\ seekTo \in Nat /\ statsPos \in Nat /\ again \in BOOLEAN
    BY <1>1
  <2> QED BY <2>1, <2>2, <2>3 DEF Always
<1>6. Restores(Source)
  BY <1>1, <1>4 DEF Restores, Marking, Citing, Numbered
<1> HIDE DEF Typed, Tree, Always, Rest, Starting, Importing, Fuzzing, Restores, Source
<1> QED BY <1>2, <1>3, <1>5, <1>6 DEF Ordered

LEMMA OrderedStep ==
    ASSUME Ordered, [Next]_svars
    PROVE  Ordered'
<1>1. CASE UNCHANGED <<dvars, again>>
  <2>1. UNCHANGED <<disk, todo, session, finds, history, current, seekTo, statsPos, cited, sought, again>>
    BY <1>1 DEF dvars, position
  <2> QED BY <2>1, NothingOrder
<1>2. CASE DNext /\ again' = (again \/ (<< >> \in dirs /\ ~running /\ running' /\ ~inPlace'))
  <2>a. again \in BOOLEAN
    BY DEF Ordered, Always
  <2>b. running => again' = again
    BY <1>2, <2>a
  <2>c. todo # << >> => running
    BY PhaseOps DEF Ordered
  <2>1. CASE Start /\ cited' = (IF running' THEN Empty ELSE cited) /\ UNCHANGED <<current, seekTo, statsPos, sought>>
    <3>1. Begin(FALSE)
      BY <2>1 DEF Start
    <3> QED BY <1>2, <2>1, <3>1, BeginKeepsOrder
  <2>2. CASE StartInPlace /\ UNCHANGED position
    <3>1. Begin(TRUE) /\ UNCHANGED <<current, seekTo, statsPos, cited, sought>>
      BY <2>2 DEF StartInPlace, position
    <3> QED BY <1>2, <3>1, BeginKeepsOrder
  <2>3. CASE Kill /\ UNCHANGED position
    <3>1. running
      BY <2>3 DEF Kill
    <3>2. Steady
      BY <2>3, <2>b, <3>1 DEF Steady, position
    <3> QED BY <2>3, <3>2, KillKeepsOrder
  <2>4. CASE Execute /\ UNCHANGED position
    <3>1. todo # << >>
      BY <2>4 DEF Execute, Clear, Rmdir, Mkdir, RenameQueue, Backup, Unlink, Create, Write, Link, ReadTestcases, Does
    <3>2. Steady
      BY <2>4, <2>b, <2>c, <3>1 DEF Steady, position
    <3> QED BY <2>4, <3>2, ExecuteKeepsOrder
  <2>5. CASE Fuzz /\ UNCHANGED position
    <3>1. running
      BY <2>5 DEF Fuzz, SaveEntry, SaveCrash, TrimCase, MarkAsDetDone, UpdateStats, Idle
    <3>2. Steady
      BY <2>5, <2>b, <3>1 DEF Steady, position
    <3> QED BY <2>5, <3>2, FuzzKeepsOrder
  <2>6. CASE FindStartPosition \/ WriteStats \/ EnterQueue
    <3>1. todo # << >>
      BY <2>6 DEF FindStartPosition, WriteStats, EnterQueue, Does
    <3> QED BY <2>6, <2>b, <2>c, <3>1, PositionKeepsOrder
  <2>7. CASE Advance
    <3>1. running
      BY <2>7 DEF Advance, Idle
    <3> QED BY <2>7, <2>b, <3>1, FuzzKeepsOrder
  <2> QED BY <1>2, <2>1, <2>2, <2>3, <2>4, <2>5, <2>6, <2>7, Zenon DEF DNext
<1>3. Peer => UNCHANGED <<dvars, again>>
  BY DEF Peer, OpenQueue, ReadEntry, TryCase, CloseQueue, StopPeer
<1>4. Owner => DNext /\ again' = (again \/ (<< >> \in dirs /\ ~running /\ running' /\ ~inPlace'))
  BY Zenon DEF Owner
<1>5. UNCHANGED svars => UNCHANGED <<dvars, again>>
  BY DEF svars
<1> QED BY <1>1, <1>2, <1>3, <1>4, <1>5, Zenon DEF Next

LEMMA OrderedMeans ==
    ASSUME Ordered
    PROVE  ResumeRestores
<1>1. Typed /\ Tree /\ Always
  BY DEF Ordered
<1>2. ASSUME Does("enter"), Trusted, sought # Empty PROVE mem[seekTo + 1].input = sought
  <2>1. todo # << >> /\ Next1.op = "enter"
    BY <1>2 DEF Does
  <2>2. Importing /\ ImportingOrder
    <3> HIDE DEF Typed, Tree, Always, Rest, Starting, Importing, Fuzzing
    <3>1. PICK op : op = Next1.op
      OBVIOUS
    <3> QED BY <1>1, <2>1, <3>1, PhaseOps DEF Ordered
  <2>3. Len(todo) = 1
    BY <1>1, <2>1, <2>2, ImportingOps, LastLength
  <2>4. Len(todo) <= 3
    BY <2>3
  <2> QED BY <1>2, <2>2, <2>4 DEF ImportingOrder
<1>3. ASSUME Idle, Trusted
      PROVE  /\ saved \subseteq Holds(Queue)
             /\ \A f, g \in In(Queue) : f.id < g.id => f.input < g.input
             /\ {f.id : f \in In(Queue)} = 0 .. Len(mem) - 1
             /\ \A f \in In(Queue) : Exists(DetDone(Queue), f.id) <=> f.input \in marked
  <2>1. running /\ todo = << >>
    BY <1>3 DEF Idle
  <2>2. Fuzzing /\ FuzzingOrder
    <3> HIDE DEF Typed, Tree, Always, Rest, Starting, Importing, Fuzzing
    <3> QED BY <1>1, <2>1, PhaseOps DEF Ordered
  <2>3. Pending = {} /\ atRisk = {}
    BY <1>3, <2>1 DEF Pending, Trusted
  <2>4. saved \subseteq Holds(Queue)
    BY <2>2, <2>3 DEF Fuzzing
  <2>5. \A k \in DOMAIN mem : File(Queue, k - 1, mem[k].input) \in files
    BY <2>1, <2>2 DEF FuzzingOrder
  <2>6. DOMAIN mem = 1 .. Len(mem) /\ Len(mem) \in Nat /\ \A k \in DOMAIN mem : mem[k].input \in Nat
    <3>1. \A k \in DOMAIN mem : mem[k].input \in 0 .. finds
      BY <1>1, MemEntries
    <3> QED BY <1>1, <3>1, MemEntries
  <2>7. ASSUME NEW f \in In(Queue)
        PROVE  f.id \in Int /\ f.id + 1 \in DOMAIN mem /\ f.input = mem[f.id + 1].input /\ f \in files
    <3>1. f \in files /\ f.dir = Queue
      BY FilesAt, <1>1
    <3>2. f.id + 1 \in DOMAIN mem
      <4> HIDE DEF In
      <4> QED BY <2>2 DEF Fuzzing, InMemory
    <3>3. f.id \in Int
      <4>1. f.id \in Nat \cup {NoId}
        BY <1>1, <3>1, FilesAt
      <4> QED BY <4>1 DEF NoId
    <3>4. (f.id + 1) - 1 = f.id
      BY <3>3
    <3>5. PICK g : g = File(Queue, f.id, mem[f.id + 1].input)
      OBVIOUS
    <3>6. g \in files
      BY <2>5, <3>2, <3>4, <3>5
    <3>7. g.dir = Queue /\ g.id = f.id /\ g.input = mem[f.id + 1].input
      BY <3>5, FileParts
    <3>8. f = g
      BY <1>1, <3>1, <3>6, <3>7 DEF Tree
    <3> QED BY <3>1, <3>2, <3>3, <3>7, <3>8
  <2>8. ASSUME NEW f \in In(Queue), NEW g \in In(Queue), f.id < g.id PROVE f.input < g.input
    <3>1. /\ f.id \in Int /\ f.id + 1 \in DOMAIN mem /\ f.input = mem[f.id + 1].input
          /\ g.id \in Int /\ g.id + 1 \in DOMAIN mem /\ g.input = mem[g.id + 1].input
      BY <2>7
    <3>2. f.id + 1 < g.id + 1
      BY <2>8, <3>1
    <3> QED BY <1>1, <3>1, <3>2 DEF Always
  <2>9. {f.id : f \in In(Queue)} = 0 .. Len(mem) - 1
    <3>1. ASSUME NEW f \in In(Queue) PROVE f.id \in 0 .. Len(mem) - 1
      <4>1. f.id \in Int /\ f.id + 1 \in 1 .. Len(mem)
        BY <2>6, <2>7
      <4> QED BY <2>6, <4>1
    <3>2. ASSUME NEW i \in 0 .. Len(mem) - 1 PROVE \E f \in In(Queue) : f.id = i
      <4>1. i + 1 \in DOMAIN mem /\ (i + 1) - 1 = i
        BY <2>6
      <4>2. File(Queue, i, mem[i + 1].input) \in files
        BY <2>5, <4>1
      <4> QED BY <4>2, FileParts, FullAt
    <3> HIDE DEF In
    <3> QED BY <3>1, <3>2
  <2>10. ASSUME NEW f \in In(Queue) PROVE Exists(DetDone(Queue), f.id) <=> f.input \in marked
    <3>1. f.id \in Int /\ f.id + 1 \in DOMAIN mem /\ f.input = mem[f.id + 1].input
      BY <2>7
    <3>2. ASSUME Exists(DetDone(Queue), f.id) PROVE f.input \in marked
      <4>1. PICK m \in In(DetDone(Queue)) : m.id = f.id
        BY <3>2 DEF Exists
      <4>2. mem[m.id + 1].input \in marked
        BY <2>2 DEF FuzzingOrder, MarksNoted
      <4> QED BY <3>1, <4>1, <4>2
    <3>3. ASSUME f.input \in marked PROVE Exists(DetDone(Queue), f.id)
      <4>1. (f.id + 1) - 1 = f.id
        BY <3>1
      <4>2. Exists(DetDone(Queue), (f.id + 1) - 1)
        <5> HIDE DEF Exists
        <5> QED BY <1>3, <2>2, <3>1, <3>3 DEF FuzzingOrder
      <4> QED BY <4>1, <4>2
    <3> QED BY <3>2, <3>3
  <2> HIDE DEF In, Exists, Holds
  <2> QED BY <2>4, <2>8, <2>9, <2>10
<1> HIDE DEF In, Exists, Holds, Does, Idle
<1> QED BY <1>2, <1>3 DEF ResumeRestores, Trusted

(* The second invariant: what is on disk is what was in memory, with its     *)
(* numbers, its marks and its position.                                      *)
THEOREM DirectoryOrder == Spec => []Ordered
<1>1. Init => Ordered
  BY OrderedInit
<1>2. Ordered /\ [Next]_svars => Ordered'
  BY OrderedStep
<1> QED BY <1>1, <1>2, PTL DEF Spec

(* After pivot_inputs the queue of a session resumed in place is what it was *)
(* when the last one died, whatever the moment: every find under a number in *)
(* the order of the finds, without a gap, marked in deterministic_done if    *)
(* and only if it was; and find_start_position goes on with the input that   *)
(* fuzzer_stats named.  Except when trim_case or nuke_resume_dir was         *)
(* interrupted with something lost, or a fresh session left a _resume behind. *)
THEOREM DirectoryResumeRestores == Spec => []ResumeRestores
<1>1. Ordered => ResumeRestores
  BY OrderedMeans
<1> QED BY <1>1, DirectoryOrder, PTL
-----------------------------------------------------------------------------
(* The third invariant: what the numbers stand for, and what the peer has    *)
(* done.                                                                     *)

(* Nothing was lost and the owner not started afresh.                        *)
Meaning == Trusted /\ ~again

(* A number and the input it stands for: in queue/ or _resume/, or about to  *)
(* be written.                                                              *)
Coming(i, x) ==
    \E k \in DOMAIN todo : /\ todo[k].op = "write" /\ todo[k].path = Queue
                           /\ todo[k].id = i /\ todo[k].input = x
Bears(i, x) ==
    \/ \E d \in {Queue, Resume} : \E f \in Full(d) : f.id = i /\ f.input = x
    \/ Coming(i, x)

(* What an interrupted resume left in queue/ is also in _resume/. *)
Mirrored ==
    Meaning /\ mem = << >> /\ ~Free(Resume) =>
        \A f \in Full(Queue) : \E g \in Full(Resume) : g.id = f.id /\ g.input = f.input

(* What the peer has done with, in this pass or before. *)
Settled(i) == i \in passedBy \/ \E x \in tried : Bears(i, x)
Handled ==
    /\ minAccept \in Nat /\ nextMinAccept \in Nat /\ case \in Nat \cup {None}
    /\ looked \subseteq Nat
    /\ Meaning => \A i \in Nat : i < minAccept \/ i \in looked \ {case} => Settled(i)

FollowedUp ==
    /\ Ordered
    /\ << >> \notin dirs => Meaning
    /\ Mirrored
    /\ Handled

-----------------------------------------------------------------------------
(* In which phase what is on the way. *)
LEMMA NoWrites ==
    ASSUME Typed, Starting \/ todo = << >> \/ (Importing /\ Links0 <= 0), NEW i, NEW x
    PROVE  ~Coming(i, x)
<1>1. CASE Starting
  <2> SUFFICES ASSUME NEW k \in DOMAIN todo PROVE todo[k].op # "write"
    BY DEF Coming
  <2>1. Done \in Nat /\ Len(todo) \in Nat /\ Total = 2 * N + 17 /\ N \in Nat /\ inPlace \in BOOLEAN /\ DOMAIN todo = 1 .. Len(todo)
    BY <1>1, StartingHead
  <2>2. todo[k] = Program(inPlace)[Done + k] /\ Done = Total - Len(todo)
    BY <1>1 DEF Starting, Done
  <2>3. PICK p \in 1 .. Total : p = Done + k
    BY <2>1, <2>2
  <2>4. todo[k] = Program(inPlace)[p]
    BY <2>2, <2>3
  <2> QED BY <2>1, <2>4, Heads
<1>2. CASE todo = << >>
  BY <1>2 DEF Coming
<1>3. CASE Importing /\ Links0 <= 0
  <2> SUFFICES ASSUME NEW k \in DOMAIN todo PROVE todo[k].op # "write"
    BY DEF Coming
  <2>1. /\ Len(todo) \in Nat /\ DOMAIN todo = 1 .. Len(todo) /\ Links0 \in Int /\ inPlace \in BOOLEAN /\ Rests \in Nat
        /\ Len(todo) = Links0 + Rests /\ Rests = (IF inPlace THEN N + 2 ELSE 0) + 6 /\ N \in Nat
    BY <1>3, ImportingHead
  <2>2. PICK l \in Int : l = Links0
    BY <2>1
  <2>3. k > l
    BY <1>3, <2>1, <2>2
  <2>4. todo[k] = AfterLinks(inPlace)[k - l]
    BY <1>3, <2>2, <2>3 DEF Importing
  <2>5. PICK o \in Nat : o = IF inPlace THEN N + 2 ELSE 0
    BY <2>1
  <2>6. PICK p \in 1 .. o + 6 : p = k - l
    BY <2>1, <2>2, <2>3, <2>5
  <2> QED BY <2>1, <2>4, <2>5, <2>6, LastHeads
<1> QED BY <1>1, <1>2, <1>3

(* While a queue is in memory, each number stands for what is there. *)
LEMMA BearsMemory ==
    ASSUME Typed, Tree, Meaning, (Importing /\ ImportingOrder) \/ Fuzzing, NEW i, NEW x, Bears(i, x)
    PROVE  i + 1 \in DOMAIN mem /\ mem[i + 1].input = x
<1>1. CASE \E f \in Full(Queue) : f.id = i /\ f.input = x
  <2>1. PICK f \in In(Queue) : f.id = i /\ f.input = x /\ f.input # Empty
    BY <1>1, FullAt
  <2>2. InMemory
    BY DEF Importing, Fuzzing
  <2> QED BY <2>1, <2>2 DEF InMemory
<1>2. CASE \E f \in Full(Resume) : f.id = i /\ f.input = x
  <2>1. Resume \in dirs
    BY <1>2, FilesAt, FullAt
  <2>2. Counted /\ ~stale
    BY DEF Meaning, Counted, Trusted
  <2>3. CASE Importing /\ ImportingOrder
    <3>1. inPlace
      BY <2>1, <2>2, <2>3 DEF Importing
    <3> QED BY <1>2, <2>2, <2>3, <3>1 DEF ImportingOrder
  <2>4. CASE Fuzzing
    BY <2>1, <2>2, <2>4 DEF Fuzzing, NoOldQueue
  <2> QED BY <2>3, <2>4
<1>3. CASE Coming(i, x)
  <2>0. PICK k \in DOMAIN todo : todo[k].op = "write" /\ todo[k].path = Queue /\ todo[k].id = i /\ todo[k].input = x
    BY <1>3 DEF Coming
  <2>1. PICK c : c = todo[k] /\ c.op = "write" /\ c.path = Queue /\ c.id = i /\ c.input = x
    BY <2>0
  <2>2. todo # << >>
    BY <2>1
  <2>3. CASE Importing
    <3>1. k \in 1 .. Links0
      <4>1. Len(todo) \in Nat /\ DOMAIN todo = 1 .. Len(todo) /\ Links0 \in Int /\ inPlace \in BOOLEAN /\ Rests \in Nat
            /\ Len(todo) = Links0 + Rests /\ Rests = (IF inPlace THEN N + 2 ELSE 0) + 6 /\ N \in Nat
        BY <2>3, ImportingHead
      <4>2. PICK l \in Int : l = Links0
        BY <4>1
      <4>3. SUFFICES ASSUME k > l PROVE FALSE
        BY <4>1, <4>2
      <4>4. todo[k] = AfterLinks(inPlace)[k - l]
        BY <2>3, <4>2, <4>3 DEF Importing
      <4>5. PICK o \in Nat : o = IF inPlace THEN N + 2 ELSE 0
        BY <4>1
      <4>6. PICK p : p = k - l
        OBVIOUS
      <4>7. p \in 1 .. o + 6
        BY <4>1, <4>2, <4>3, <4>5, <4>6
      <4> QED BY <2>1, <4>1, <4>4, <4>5, <4>6, <4>7, LastHeads
    <3>2. Pivots(k)
      BY <2>3, <3>1 DEF Importing, Linking
    <3> QED BY <2>1, <3>2 DEF Pivots
  <2>4. CASE Fuzzing
    <3>1. Len(todo) \in {1, 2, 3} /\ DOMAIN todo = 1 .. Len(todo)
      BY <2>2, <2>4, FuzzingHead
    <3>2. ToWrite \/ ToMake \/ ToReplace \/ ToMark \/ ToReport
      BY <2>2, <2>4, Zenon DEF Fuzzing
    <3>3. WriteFits(c)
      BY <2>1, <3>1, <3>2, Two DEF ToWrite, ToMake, ToReplace, ToMark, ToReport, IsPair
    <3> QED BY <2>1, <3>3, Two DEF WriteFits
  <2> QED BY <2>3, <2>4
<1> QED BY <1>1, <1>2, <1>3 DEF Bears

(* A number stands for one input. *)
LEMMA OneInput ==
    ASSUME Ordered, Mirrored, Meaning, NEW i, NEW x, NEW y, Bears(i, x), Bears(i, y)
    PROVE  x = y
<1>1. Typed /\ Tree
  BY DEF Ordered
<1>2. CASE (Importing /\ ImportingOrder) \/ Fuzzing
  BY <1>1, <1>2, BearsMemory
<1>3. CASE Rest \/ Starting
  <2>1. mem = << >> /\ (Starting \/ todo = << >>)
    BY <1>3 DEF Rest, Starting
  <2>2. ~Coming(i, x) /\ ~Coming(i, y)
    BY <1>1, <2>1, NoWrites
  <2>3. \A f, g \in files : f.dir = g.dir /\ f.id = g.id => f = g
    BY <1>1, Zenon DEF Tree
  <2>4. CASE Free(Resume)
    <3>1. Full(Resume) = {}
      BY <2>4 DEF Free, Full
    <3> QED BY <2>2, <2>3, <3>1, FullAt DEF Bears
  <2>5. CASE ~Free(Resume)
    <3>1. ASSUME NEW z, Bears(i, z), ~Coming(i, z)
          PROVE  \E g \in Full(Resume) : g.id = i /\ g.input = z
      BY <2>1, <2>5, <3>1 DEF Bears, Mirrored
    <3> QED BY <2>2, <2>3, <3>1, FullAt
  <2> QED BY <2>4, <2>5
<1> QED BY <1>2, <1>3 DEF Ordered

(* A step after which each number stands for what it did. *)
BearsKept == \A i \in Nat : \A x : Bears(i, x) => Bears(i, x)'

LEMMA KeptBy ==
    ASSUME \A d \in {Queue, Resume} : \A f \in Full(d) :
               \/ \E g \in files' : g.dir \in {Queue, Resume} /\ g.id = f.id /\ g.input = f.input
               \/ Coming(f.id, f.input)',
           \A i, x : Coming(i, x) => \/ Coming(i, x)'
                                     \/ x # Empty /\ File(Queue, i, x) \in files'
    PROVE  BearsKept
<1> HIDE DEF Coming
<1> SUFFICES ASSUME NEW i \in Nat, NEW x, Bears(i, x) PROVE Bears(i, x)'
  BY DEF BearsKept
<1>1. ASSUME NEW d \in {Queue, Resume}, NEW f \in Full(d), f.id = i, f.input = x
      PROVE  Bears(i, x)'
  <2>1. x # Empty
    BY <1>1, FullAt
  <2>2. CASE \E g \in files' : g.dir \in {Queue, Resume} /\ g.id = f.id /\ g.input = f.input
    <3>1. PICK g \in files' : g.dir \in {Queue, Resume} /\ g.id = i /\ g.input = x
      BY <1>1, <2>2
    <3>2. g \in Full(g.dir)'
      BY <2>1, <3>1, FullAt
    <3> QED BY <3>1, <3>2 DEF Bears
  <2>3. CASE Coming(f.id, f.input)'
    BY <1>1, <2>3 DEF Bears
  <2> QED BY <1>1, <2>2, <2>3
<1>2. CASE Coming(i, x)
  <2>1. CASE Coming(i, x)'
    BY <2>1 DEF Bears
  <2>2. CASE x # Empty /\ File(Queue, i, x) \in files'
    <3>1. File(Queue, i, x) \in Full(Queue)'
      BY <2>2, FullAt, FileParts
    <3> QED BY <3>1, FileParts DEF Bears
  <2> QED BY <1>2, <2>1, <2>2
<1> QED BY <1>1, <1>2 DEF Bears

(* The next command is done; if it is not a write, what was coming still is. *)
LEMMA TailComing ==
    ASSUME Typed, todo # << >>, todo' = Tail(todo), NEW i, NEW x, Coming(i, x)
    PROVE  \/ Coming(i, x)'
           \/ Next1.op = "write" /\ Next1.path = Queue /\ Next1.id = i /\ Next1.input = x
<1>1. todo \in Seq(Command)
  BY DEF Typed
<1>2. /\ Next1 = todo[1] /\ DOMAIN todo = 1 .. Len(todo) /\ Len(todo) \in Nat
      /\ DOMAIN todo' = 1 .. Len(todo) - 1 /\ \A j \in 1 .. Len(todo) - 1 : todo'[j] = todo[j + 1]
  <2> HIDE DEF Command
  <2> QED BY <1>1 DEF Next1
<1>3. PICK k \in DOMAIN todo : todo[k].op = "write" /\ todo[k].path = Queue /\ todo[k].id = i /\ todo[k].input = x
  BY DEF Coming
<1>4. CASE k = 1
  BY <1>2, <1>3, <1>4
<1>5. CASE k # 1
  <2>1. k - 1 \in DOMAIN todo' /\ todo'[k - 1] = todo[k]
    <3>1. k - 1 \in 1 .. Len(todo) - 1 /\ (k - 1) + 1 = k
      BY <1>2, <1>5
    <3> QED BY <1>2, <3>1
  <2> QED BY <1>3, <2>1 DEF Coming
<1> QED BY <1>4, <1>5

(* A step that changes no file and executes no write. *)
LEMMA KeptStill ==
    ASSUME Typed, files' = files, todo = << >> \/ todo' = todo \/ (todo' = Tail(todo) /\ Next1.op # "write")
    PROVE  BearsKept
<1>1. ASSUME NEW i, NEW x, Coming(i, x) PROVE Coming(i, x)'
  <2>1. todo # << >>
    BY <1>1 DEF Coming
  <2>2. CASE todo' = todo
    BY <1>1, <2>2 DEF Coming
  <2>3. CASE todo' = Tail(todo) /\ Next1.op # "write"
    BY <1>1, <2>1, <2>3, TailComing
  <2> QED BY <2>1, <2>2, <2>3
<1>2. ASSUME NEW d \in {Queue, Resume}, NEW f \in Full(d)
      PROVE  \E g \in files' : g.dir \in {Queue, Resume} /\ g.id = f.id /\ g.input = f.input
  BY FullAt
<1> QED BY <1>1, <1>2, KeptBy

LEMMA MirroredStill ==
    ASSUME Mirrored, Meaning, mem = << >>, files' = files, State(Resume) \in dirs' <=> State(Resume) \in dirs
    PROVE  Mirrored'
<1>1. Free(Resume)' <=> Free(Resume)
  BY FullAt DEF Free
<1>2. \A d, f : f \in Full(d)' <=> f \in Full(d)
  BY FullAt
<1> QED BY <1>1, <1>2 DEF Mirrored

(* A session begins: over nothing, or in place. *)
LEMMA BeginBears ==
    ASSUME Typed, Tree, Rest, Mirrored, Meaning, NEW resume \in BOOLEAN, Begin(resume)
    PROVE  BearsKept /\ Mirrored'
<1>1. todo = << >> /\ mem = << >>
  BY DEF Rest
<1>2. files' = files /\ dirs' = dirs \cup {<< >>}
  BY DEF Begin
<1>3. State(Resume) # << >>
  BY Apart
<1>4. BearsKept
  BY <1>1, <1>2, KeptStill
<1>5. Mirrored'
  BY <1>1, <1>2, <1>3, MirroredStill
<1> QED BY <1>4, <1>5

(* Start-up: what is taken away from queue/ is in _resume/. *)
LEMMA StartingBears ==
    ASSUME Typed, Tree, Starting, StartingOrder, Mirrored, Meaning, Starting',
           Clear \/ Rmdir \/ Backup \/ Unlink \/ Mkdir \/ Create
    PROVE  BearsKept /\ Mirrored'
<1>1. /\ files' \subseteq files
      /\ \A f \in files : f.dir \in {Resume, DetDone(Resume)} => f \in files'
      /\ State(Resume) \in dirs' <=> State(Resume) \in dirs
      /\ inPlace => Done # 0
  BY StartingTakes
<1>2. mem = << >> /\ mem' = << >>
  BY DEF Starting
<1>3. ASSUME NEW f \in Full(Queue)
      PROVE  ~Free(Resume) /\ \E g \in files' : g.dir = Resume /\ g.id = f.id /\ g.input = f.input
  <2>1. In(Queue) # {}
    BY FullAt
  <2>2. ~Free(Resume)
    BY <1>1, <2>1 DEF StartingOrder, Meaning
  <2>3. PICK g \in Full(Resume) : g.id = f.id /\ g.input = f.input
    BY <1>2, <2>2 DEF Mirrored
  <2> QED BY <1>1, <2>2, <2>3, FullAt
<1>4. BearsKept
  <2>1. ASSUME NEW d \in {Queue, Resume}, NEW f \in Full(d)
        PROVE  \E g \in files' : g.dir \in {Queue, Resume} /\ g.id = f.id /\ g.input = f.input
    <3>1. CASE d = Queue
      BY <1>3, <3>1
    <3>2. CASE d = Resume
      BY <1>1, <3>2, FullAt
    <3> QED BY <3>1, <3>2
  <2>2. \A i, x : ~Coming(i, x)
    BY NoWrites
  <2> QED BY <2>1, <2>2, KeptBy
<1>5. Mirrored'
  <2> SUFFICES ASSUME NEW f \in Full(Queue)' PROVE \E g \in Full(Resume)' : g.id = f.id /\ g.input = f.input
    BY DEF Mirrored
  <2>1. f \in Full(Queue) /\ f.input # Empty
    BY <1>1, FullAt
  <2>2. PICK g \in files' : g.dir = Resume /\ g.id = f.id /\ g.input = f.input
    BY <1>3, <2>1
  <2> QED BY <2>1, <2>2, FullAt
<1> QED BY <1>4, <1>5

(* The rename takes the numbers along. *)
LEMMA RenameBears ==
    ASSUME Typed, Tree, Starting, Mirrored, Meaning, RenameQueue
    PROVE  BearsKept /\ Mirrored'
<1>1. Step /\ todo' = Tail(todo) /\ Next1.op = "rename" /\ mem = << >>
  BY DEF RenameQueue, Step, Does, Starting
<1>2. CASE CanRename(Queue, Resume)
  <2>1. files' = {[f EXCEPT !.dir = Moved(Queue, Resume, @)] : f \in files}
    BY <1>2 DEF RenameQueue
  <2>2. In(Resume) = {}
    BY <1>2, FilesAt DEF CanRename, IsEmpty
  <2>3. /\ \A f \in files : f.dir = Queue => File(Resume, f.id, f.input) \in files'
        /\ \A g \in files' : g.dir # Queue
    BY <2>1, <2>2, RenamedFiles
  <2>4. BearsKept
    <3>1. ASSUME NEW d \in {Queue, Resume}, NEW f \in Full(d)
          PROVE  \E g \in files' : g.dir \in {Queue, Resume} /\ g.id = f.id /\ g.input = f.input
      <4>1. f \in files /\ f.dir = Queue
        BY <2>2, FullAt
      <4> QED BY <2>3, <4>1, FileParts
    <3>2. \A i, x : ~Coming(i, x)
      BY NoWrites
    <3> QED BY <3>1, <3>2, KeptBy
  <2>5. Mirrored'
    <3>1. \A f : f \notin Full(Queue)'
      BY <2>3, FullAt
    <3> QED BY <3>1 DEF Mirrored
  <2> QED BY <2>4, <2>5
<1>3. CASE ~CanRename(Queue, Resume)
  <2>1. UNCHANGED <<dirs, files>>
    BY <1>3 DEF RenameQueue
  <2> QED BY <1>1, <2>1, KeptStill, MirroredStill
<1> QED BY <1>2, <1>3

(* The inputs are read. *)
LEMMA ReadBears ==
    ASSUME Typed, Starting, Mirrored, Meaning, ReadTestcases
    PROVE  BearsKept /\ Mirrored'
<1>1. UNCHANGED <<files, dirs>> /\ mem = << >>
  BY DEF ReadTestcases, disk, Starting
<1>2. \A i, x : ~Coming(i, x)
  BY NoWrites
<1>3. BearsKept
  <2>1. ASSUME NEW d \in {Queue, Resume}, NEW f \in Full(d)
        PROVE  \E g \in files' : g.dir \in {Queue, Resume} /\ g.id = f.id /\ g.input = f.input
    BY <1>1, FullAt
  <2> QED BY <1>2, <2>1, KeptBy
<1>4. Mirrored'
  BY <1>1, MirroredStill
<1> QED BY <1>3, <1>4

(* While there is something in memory that is no fresh session's before its  *)
(* links are made, every entry is borne.                                     *)
Loaded ==
    \/ Importing /\ ImportingOrder /\ (inPlace \/ Links0 <= 0)
    \/ Fuzzing /\ FuzzingOrder
Grounded == Typed /\ Tree /\ Always /\ Meaning /\ Loaded
Borne == \A k \in DOMAIN mem : Bears(k - 1, mem[k].input)

LEMMA ResumeBears ==
    ASSUME Typed, Tree, Always, Meaning, Importing, ImportingOrder, inPlace, Links0 > 0, NEW k \in DOMAIN mem
    PROVE  \E g \in Full(Resume) : g.id = k - 1 /\ g.input = mem[k].input
<1>1. Inputs = Holds(Resume) \ {Empty}
  BY Zenon DEF Importing, ImportingKept
<1>2. mem[k].input \in Holds(Resume) /\ mem[k].input # Empty
  BY <1>1 DEF Inputs
<1>3. PICK g \in Full(Resume) : g.input = mem[k].input
  BY <1>2, HoldsAt, FullAt
<1>4. Counted
  BY DEF Meaning, Counted
<1>5. g.id + 1 \in DOMAIN mem /\ mem[g.id + 1].input = g.input
  BY <1>4 DEF ImportingOrder
<1>6. g.id + 1 = k
  BY <1>3, <1>5, Ascending
<1>7. g.id \in Nat /\ k \in Nat
  BY FullTypes, Two, MemEntries
<1> QED BY <1>3, <1>6, <1>7

LEMMA MemoryBorne == Grounded => Borne
<1> SUFFICES ASSUME Grounded, NEW k \in DOMAIN mem PROVE Bears(k - 1, mem[k].input)
  BY DEF Borne
<1>0. Typed /\ Tree /\ Always /\ Meaning
  BY DEF Grounded
<1>1. mem[k].input # Empty /\ k \in Nat /\ (k - 1) + 1 = k
  BY <1>0, MemEntries DEF Empty
<1>2. ASSUME File(Queue, k - 1, mem[k].input) \in files PROVE Bears(k - 1, mem[k].input)
  <2>1. File(Queue, k - 1, mem[k].input) \in Full(Queue)
    BY <1>1, <1>2, FileParts, FullAt
  <2> QED BY <2>1, FileParts DEF Bears
<1>3. CASE Importing /\ ImportingOrder /\ Links0 <= 0
  BY <1>0, <1>2, <1>3, AllLinked
<1>4. CASE Importing /\ ImportingOrder /\ inPlace /\ Links0 > 0
  <2>1. \E g \in Full(Resume) : g.id = k - 1 /\ g.input = mem[k].input
    BY <1>0, <1>4, ResumeBears
  <2> QED BY <2>1 DEF Bears
<1>5. CASE Fuzzing /\ FuzzingOrder
  <2>1. CASE File(Queue, k - 1, mem[k].input) \in files
    BY <1>2, <2>1
  <2>2. CASE \E p \in DOMAIN todo : todo[p].op = "write" /\ todo[p].path = Queue /\ todo[p].id = k - 1
    <3>1. PICK p \in DOMAIN todo : todo[p].op = "write" /\ todo[p].path = Queue /\ todo[p].id = k - 1
      BY <2>2
    <3>2. PICK c : c = todo[p]
      OBVIOUS
    <3>3. todo # << >>
      BY <3>1
    <3>4. Len(todo) \in {1, 2, 3} /\ DOMAIN todo = 1 .. Len(todo)
      BY <1>0, <1>5, <3>3, FuzzingHead
    <3>5. ToWrite \/ ToMake \/ ToReplace \/ ToMark \/ ToReport
      BY <1>5, <3>3, Zenon DEF Fuzzing
    <3>6. WriteFits(c)
      BY <3>1, <3>2, <3>4, <3>5, Two DEF ToWrite, ToMake, ToReplace, ToMark, ToReport, IsPair
    <3>7. c.input = mem[c.id + 1].input
      BY <3>1, <3>2, <3>6, Two DEF WriteFits
    <3>8. todo[p].input = mem[k].input
      BY <1>1, <3>1, <3>2, <3>7
    <3>9. Coming(k - 1, mem[k].input)
      BY <3>1, <3>8 DEF Coming
    <3> QED BY <3>9 DEF Bears
  <2> QED BY <1>5, <2>1, <2>2 DEF FuzzingOrder
<1>6. Importing => Links0 <= 0 \/ Links0 > 0
  <2>1. Importing => Links0 \in Int
    BY <1>0, ImportingHead
  <2> HIDE DEF Links0
  <2> QED BY <2>1
<1> HIDE DEF Links0, Importing, ImportingOrder, Fuzzing, FuzzingOrder, Bears
<1> QED BY <1>3, <1>4, <1>5, <1>6 DEF Grounded, Loaded

LEMMA MemoryBorneNext == Grounded' => Borne'
BY MemoryBorne, PTL

(* A step within these phases that leaves the entries in memory. *)
LEMMA Carried ==
    ASSUME Typed, Tree, Meaning, (Importing /\ ImportingOrder) \/ Fuzzing, Grounded',
           \A k \in DOMAIN mem : k \in DOMAIN mem' /\ mem'[k].input = mem[k].input
    PROVE  BearsKept
<1> SUFFICES ASSUME NEW i \in Nat, NEW x, Bears(i, x) PROVE Bears(i, x)'
  BY DEF BearsKept
<1>1. i + 1 \in DOMAIN mem /\ mem[i + 1].input = x
  BY BearsMemory
<1>2. PICK k : k = i + 1
  OBVIOUS
<1>3. k - 1 = i /\ k \in DOMAIN mem' /\ mem'[k].input = x
  BY <1>1, <1>2
<1>4. Borne'
  BY MemoryBorneNext
<1>5. Bears(k - 1, mem[k].input)'
  <2> HIDE DEF Bears
  <2> QED BY <1>3, <1>4 DEF Borne
<1> HIDE DEF Bears
<1> QED BY <1>3, <1>5

(* The one entry of a fresh session: linked, or copied. *)
LEMMA FreshLinkBears ==
    ASSUME Typed, Tree, Always, Meaning, Importing, ImportingOrder, ~inPlace, Links0 >= 1,
           Link \/ Write \/ Create, running', todo' # << >>
    PROVE  BearsKept
<1>0. PICK c : c = Next1
  OBVIOUS
<1>1. Pivots(1) /\ c = todo[1] /\ c \in Command
  BY <1>0, ImportingHead
<1>2. /\ c.id + 1 \in DOMAIN mem /\ c.input = mem[c.id + 1].input
      /\ c.path = Queue \/ (c.path = DetDone(Queue) /\ c.op = "create" /\ mem[c.id + 1].passedDet)
      /\ c.op = "create" /\ c.path = Queue => Links0 >= 2 /\ IsPair(c, todo[2])
  <2> HIDE DEF Exists, In, IsPair
  <2> QED BY <1>1, Two DEF Pivots
<1>3. c.path = Queue
  BY <1>2 DEF ImportingOrder
<1>4. c.id \in Int /\ c.input # Empty
  BY <1>1, <1>2, MemEntries DEF Command, Empty
<1>5. ASSUME NEW j \in DOMAIN mem, NEW k \in DOMAIN mem PROVE j = k
  <2>1. Inputs = {Seed}
    BY DEF Importing, ImportingKept
  <2>2. \A l \in DOMAIN mem : mem[l].input = Seed
    BY <2>1 DEF Inputs
  <2> QED BY <2>2, Ascending
<1>6. SUFFICES Bears(c.id, c.input)'
  <2> SUFFICES ASSUME NEW i \in Nat, NEW x, Bears(i, x) PROVE Bears(i, x)'
    BY DEF BearsKept
  <2>1. i + 1 \in DOMAIN mem /\ mem[i + 1].input = x
    BY BearsMemory
  <2>2. i + 1 = c.id + 1
    BY <1>2, <1>5, <2>1
  <2>3. i = c.id /\ x = c.input
    BY <1>2, <1>4, <2>1, <2>2
  <2> HIDE DEF Bears
  <2> QED BY <1>6, <2>3
<1>7. \A why : ~Fails(why)
  BY DEF Fails, Ends
<1>8. PICK f : f = File(c.path, c.id, c.input)
  OBVIOUS
<1>9. f.dir = Queue /\ f.id = c.id /\ f.input = c.input
  BY <1>3, <1>8, FileParts
<1>10. todo \in Seq(Command) /\ Len(todo) \in Nat /\ Links0 \in Int /\ Rests \in Nat /\ Rests >= 6 /\ Len(todo) = Links0 + Rests
  BY ImportingHead DEF Typed
<1>11. CASE Written(f)
  <2>1. f \in Full(Queue)'
    BY <1>4, <1>9, <1>11, FullAt DEF Written
  <2> QED BY <1>9, <2>1 DEF Bears
<1>12. CASE todo' = <<DoFile("create", f), DoFile("write", f)>> \o Tail(todo)
  <2>1. PICK a, b : a = DoFile("create", f) /\ b = DoFile("write", f)
    OBVIOUS
  <2>2. b.op = "write" /\ b.path = Queue /\ b.id = c.id /\ b.input = c.input
    BY <1>9, <2>1 DEF DoFile
  <2>3. 2 \in DOMAIN todo' /\ todo'[2] = b
    <3>1. PICK t : t = Tail(todo)
      OBVIOUS
    <3>2. t \in Seq(Command)
      <4> HIDE DEF Command
      <4>1. todo # << >>
        BY ImportingHead
      <4> QED BY <1>10, <3>1, <4>1
    <3>3. todo' = <<a, b>> \o t
      BY <1>12, <2>1, <3>1
    <3>4. <<a, b>> \in Seq({a, b}) /\ Len(<<a, b>>) = 2 /\ <<a, b>>[2] = b
      BY Double
    <3>5. PICK S : S = {a, b} \cup Command
      OBVIOUS
    <3>6. <<a, b>> \in Seq(S) /\ t \in Seq(S)
      <4>1. a \in S /\ b \in S
        BY <3>5
      <4>2. <<a, b>> \in Seq(S)
        BY <4>1
      <4>3. Command \subseteq S
        BY <3>5
      <4>4. t \in Seq(S)
        <5> HIDE DEF Command
        <5> QED BY <3>2, <4>3
      <4> QED BY <4>2, <4>4
    <3>7. PICK u : u = <<a, b>>
      OBVIOUS
    <3>8. /\ u \o t \in Seq(S) /\ Len(u \o t) = Len(u) + Len(t)
          /\ \A i \in 1 .. Len(u) : (u \o t)[i] = u[i]
      BY <3>6, <3>7, CatMore
    <3>9. Len(u) = 2 /\ u[2] = b /\ todo' = u \o t /\ Len(t) \in Nat
      BY <3>2, <3>3, <3>4, <3>7
    <3> QED BY <3>8, <3>9
  <2>4. Coming(c.id, c.input)'
    BY <2>2, <2>3 DEF Coming
  <2> QED BY <2>4 DEF Bears
<1>13. CASE Create
  <2>1. c.op = "create" /\ Links0 >= 2 /\ IsPair(c, todo[2])
    BY <1>0, <1>2, <1>3, <1>13 DEF Create, Does
  <2>2. c.id # NoId
    BY <1>2, <1>4, MemEntries DEF NoId
  <2>3. Step
    <3> HIDE DEF Exists, Step, Fails
    <3> QED BY <1>0, <1>7, <1>13, <2>2, Zenon DEF Create
  <2>4. 1 \in DOMAIN todo' /\ todo'[1] = todo[2]
    <3>1. todo' = Tail(todo)
      BY <2>3 DEF Step
    <3>2. Len(todo) >= 2
      BY <1>10, <2>1
    <3> HIDE DEF Command
    <3> QED BY <1>10, <3>1, <3>2
  <2>5. todo'[1].op = "write" /\ todo'[1].path = Queue /\ todo'[1].id = c.id /\ todo'[1].input = c.input
    BY <1>3, <2>1, <2>4 DEF IsPair
  <2>6. Coming(c.id, c.input)'
    BY <2>4, <2>5 DEF Coming
  <2> QED BY <2>6 DEF Bears
<1>14. CASE Link
  <2>1. Written(f) \/ todo' = <<DoFile("create", f), DoFile("write", f)>> \o Tail(todo)
    <3> HIDE DEF Written, Step, Noted, Exists, Fails
    <3> QED BY <1>0, <1>7, <1>8, <1>14 DEF Link
  <2> QED BY <1>11, <1>12, <2>1
<1>15. CASE Write
  BY <1>0, <1>8, <1>11, <1>15 DEF Write
<1> QED BY <1>13, <1>14, <1>15

(* What a step of the owner does: the numbers keep their meaning only if     *)
(* they had it, and then each stands for what it did.                        *)
Follows ==
    /\ Meaning' => Meaning /\ BearsKept
    /\ Mirrored'
    /\ << >> \notin dirs' => Meaning'

LEMMA RunningDirs == Ordered /\ running => << >> \in dirs
<1> SUFFICES ASSUME Ordered, running PROVE << >> \in dirs
  OBVIOUS
<1>1. Typed /\ Tree
  BY DEF Ordered
<1>2. Starting \/ Importing \/ Fuzzing
  BY <1>1, PhaseOps DEF Ordered
<1>3. CASE Starting
  BY <1>3, Zenon DEF Starting, StartingDirs
<1>4. CASE Importing \/ Fuzzing
  <2>1. Queue \in dirs
    BY <1>4 DEF Importing, Fuzzing, InMemory
  <2> QED BY <1>1, <2>1, Zenon DEF Tree
<1> QED BY <1>2, <1>3, <1>4

LEMMA RunningDirsNext == (Ordered /\ running => << >> \in dirs)'
BY RunningDirs, PTL

LEMMA CommandsLeft == Typed /\ Importing => todo # << >>
BY PhaseOps

LEMMA CommandsLeftNext == (Typed /\ Importing => todo # << >>)'
BY CommandsLeft, PTL

(* A step within the phases with a queue in memory. *)
LEMMA LoadedFollows ==
    ASSUME Ordered, Ordered', Loaded', (Importing /\ ImportingOrder) \/ Fuzzing, UNCHANGED <<atRisk, stale, again>>,
           \A k \in DOMAIN mem : k \in DOMAIN mem' /\ mem'[k].input = mem[k].input
    PROVE  Follows
<1>1. Meaning' <=> Meaning
  BY DEF Meaning, Trusted
<1>2. Typed /\ Tree /\ (Typed /\ Tree /\ Always)'
  BY DEF Ordered
<1>3. ASSUME Meaning' PROVE BearsKept
  <2>1. Grounded'
    BY <1>2, <1>3 DEF Grounded
  <2> HIDE DEF Grounded, Meaning, Importing, ImportingOrder, Fuzzing
  <2> QED BY <1>1, <1>2, <1>3, <2>1, Carried
<1>4. mem' # << >> /\ running'
  BY DEF Loaded, Importing, Fuzzing, Runs
<1>5. Mirrored'
  BY <1>4 DEF Mirrored
<1>6. << >> \in dirs'
  BY <1>4, RunningDirsNext
<1> HIDE DEF Mirrored, Meaning
<1> QED BY <1>1, <1>3, <1>5, <1>6 DEF Follows

LEMMA BeginFollows ==
    ASSUME FollowedUp, NEW resume \in BOOLEAN, Begin(resume),
           again' = (again \/ (<< >> \in dirs /\ ~running /\ running' /\ ~inPlace'))
    PROVE  Follows
<1>1. ~running
  BY DEF Begin
<1>2. Typed /\ Tree /\ Rest /\ again \in BOOLEAN
  BY <1>1, PhaseOps DEF FollowedUp, Ordered, Always
<1>3. \/ UNCHANGED history /\ ~running'
      \/ /\ running' /\ inPlace' = resume
         /\ resume => atRisk \subseteq atRisk' /\ stale' = stale
  BY DEF Begin, Ends
<1>4. Meaning' => Meaning
  <2>1. CASE << >> \notin dirs
    BY <2>1 DEF FollowedUp
  <2>2. CASE << >> \in dirs
    <3>1. CASE UNCHANGED history /\ ~running'
      BY <1>2, <3>1 DEF Meaning, Trusted, history
    <3>2. CASE running' /\ resume /\ atRisk \subseteq atRisk' /\ stale' = stale
      BY <1>2, <3>2 DEF Meaning, Trusted
    <3>3. CASE running' /\ ~resume /\ inPlace' = resume
      BY <1>1, <2>2, <3>3 DEF Meaning
    <3> QED BY <1>3, <3>1, <3>2, <3>3
  <2> QED BY <2>1, <2>2
<1>5. << >> \in dirs'
  BY DEF Begin
<1>6. CASE Meaning
  <2>1. BearsKept /\ Mirrored'
    <3> HIDE DEF Meaning, Mirrored, BearsKept, Begin, Typed, Tree, Rest
    <3> QED BY <1>2, <1>6, BeginBears DEF FollowedUp
  <2> QED BY <1>4, <1>5, <2>1 DEF Follows
<1>7. CASE ~Meaning
  BY <1>4, <1>5, <1>7 DEF Follows, Mirrored
<1> QED BY <1>6, <1>7

LEMMA KillFollows ==
    ASSUME FollowedUp, Kill, Steady
    PROVE  Follows
<1>1. UNCHANGED <<files, dirs, stale>> /\ mem' = << >> /\ todo' = << >> /\ again' = again
      /\ atRisk' = atRisk \cup Trimmed \cup (IF Nuking THEN Nuked ELSE {}) /\ running
  BY DEF Kill, disk, Ends, Steady
<1>2. Ordered /\ Mirrored
  BY DEF FollowedUp
<1>3. Typed /\ Tree /\ Always
  BY <1>2 DEF Ordered
<1>4. << >> \in dirs'
  BY <1>1, <1>2, RunningDirs
<1>5. CASE ~Meaning'
  BY <1>4, <1>5 DEF Follows, Mirrored
<1>6. CASE Meaning'
  <2>1. Meaning /\ Trimmed = {} /\ (Nuking => Nuked = {})
    BY <1>1, <1>6 DEF Meaning, Trusted
  <2>2. \A d, f : f \in Full(d)' <=> f \in Full(d)
    BY <1>1, FullAt
  <2>3. Free(Resume)' <=> Free(Resume)
    BY <1>1, FullAt DEF Free
  <2>4. ASSUME \A i, x : ~Coming(i, x) PROVE BearsKept
    <3>1. ASSUME NEW d \in {Queue, Resume}, NEW f \in Full(d)
          PROVE  \E g \in files' : g.dir \in {Queue, Resume} /\ g.id = f.id /\ g.input = f.input
      BY <1>1, FullAt
    <3> QED BY <2>4, <3>1, KeptBy
  <2>5. ASSUME Free(Resume) PROVE Mirrored'
    BY <2>3, <2>5 DEF Mirrored
  <2>6. ASSUME Resume \notin dirs PROVE BearsKept /\ Mirrored'
    <3>1. Free(Resume)
      <4>1. State(Resume) \notin dirs
        BY <1>3, <2>6, Zenon DEF Tree
      <4> QED BY <1>3, <2>6, <4>1, FilesAt DEF Free
    <3>2. Holds(Resume) = {}
      BY <3>1 DEF Free, Holds
    <3>3. ASSUME NEW i, NEW x, Coming(i, x) PROVE FALSE
      <4>1. x \in Trimmed
        BY <3>2, <3>3 DEF Coming, Trimmed
      <4> QED BY <2>1, <4>1
    <3> QED BY <2>4, <2>5, <3>1, <3>3
  <2> SUFFICES BearsKept /\ Mirrored'
    BY <1>4, <2>1 DEF Follows
  <2>7. CASE Starting
    <3>1. mem = << >> /\ \A i, x : ~Coming(i, x)
      BY <1>3, <2>7, NoWrites DEF Starting
    <3>2. Mirrored'
      <4> HIDE DEF Mirrored, Meaning
      <4> QED BY <1>1, <1>2, <2>1, <3>1, MirroredStill
    <3> QED BY <2>4, <3>1, <3>2
  <2>8. CASE Fuzzing
    <3>1. Resume \notin dirs
      BY <2>1, <2>8 DEF Fuzzing, NoOldQueue, Meaning, Trusted
    <3> QED BY <2>6, <3>1
  <2>9. CASE Importing /\ ~inPlace
    <3>1. Resume \notin dirs
      BY <2>1, <2>9 DEF Importing, Meaning, Trusted
    <3> QED BY <2>6, <3>1
  <2>10. ASSUME Importing, NEW f \in Full(Queue)
         PROVE  f.id \in Nat /\ f.id + 1 \in DOMAIN mem /\ mem[f.id + 1].input = f.input
    <3>1. f \in In(Queue) /\ f.input # Empty /\ f.id \in Nat
      BY <1>3, FullAt, FullTypes, Two
    <3>2. InMemory
      BY <2>10 DEF Importing
    <3> QED BY <3>1, <3>2 DEF InMemory
  <2>11. CASE Importing /\ ImportingOrder /\ inPlace /\ Links0 > 0
    <3>1. ASSUME NEW k \in DOMAIN mem PROVE \E g \in Full(Resume) : g.id = k - 1 /\ g.input = mem[k].input
      <4> HIDE DEF Meaning
      <4> QED BY <1>3, <2>1, <2>11, ResumeBears
    <3>2. BearsKept
      <4> SUFFICES ASSUME NEW i \in Nat, NEW x, Bears(i, x) PROVE Bears(i, x)'
        BY DEF BearsKept
      <4>1. i + 1 \in DOMAIN mem /\ mem[i + 1].input = x
        <5> HIDE DEF Meaning, Bears
        <5> QED BY <1>3, <2>1, <2>11, BearsMemory
      <4>2. PICK k : k = i + 1
        OBVIOUS
      <4>3. PICK g \in Full(Resume) : g.id = k - 1 /\ g.input = mem[k].input
        BY <3>1, <4>1, <4>2
      <4>4. g \in Full(Resume)' /\ g.id = i /\ g.input = x
        BY <2>2, <4>1, <4>2, <4>3
      <4> QED BY <4>4 DEF Bears
    <3>3. Mirrored'
      <4> SUFFICES ASSUME NEW f \in Full(Queue)' PROVE \E g \in Full(Resume)' : g.id = f.id /\ g.input = f.input
        BY DEF Mirrored
      <4>1. f.id \in Nat /\ f.id + 1 \in DOMAIN mem /\ mem[f.id + 1].input = f.input
        BY <2>2, <2>10, <2>11
      <4>2. PICK k : k = f.id + 1
        OBVIOUS
      <4>3. PICK g \in Full(Resume) : g.id = k - 1 /\ g.input = mem[k].input
        BY <3>1, <4>1, <4>2
      <4>4. g \in Full(Resume)' /\ g.id = f.id /\ g.input = f.input
        BY <2>2, <4>1, <4>2, <4>3
      <4> QED BY <4>4
    <3> QED BY <3>2, <3>3
  <2>12. CASE Importing /\ ImportingOrder /\ inPlace /\ Links0 <= 0
    <3>1. BearsKept
      BY <1>3, <2>4, <2>12, NoWrites
    <3>2. CASE Nuking
      <4>1. Holds(Queue) \subseteq Holds(Resume)
        BY <2>1, <3>2 DEF Nuked
      <4>2. Counted
        BY <2>1 DEF Meaning, Counted
      <4>3. Mirrored'
        <5> SUFFICES ASSUME NEW f \in Full(Queue)' PROVE \E g \in Full(Resume)' : g.id = f.id /\ g.input = f.input
          BY DEF Mirrored
        <5>1. f \in Full(Queue) /\ f.id \in Nat /\ f.id + 1 \in DOMAIN mem /\ mem[f.id + 1].input = f.input
          BY <2>2, <2>10, <2>12
        <5>2. f.input \in Holds(Resume) /\ f.input # Empty
          BY <4>1, <5>1, FullAt, HoldsAt
        <5>3. PICK g \in Full(Resume) : g.input = f.input
          BY <5>2, FullAt, HoldsAt
        <5>4. g.id \in Nat /\ g.id + 1 \in DOMAIN mem /\ mem[g.id + 1].input = g.input
          <6>1. g.id \in Nat
            BY <1>3, FullTypes, Two
          <6> QED BY <2>12, <4>2, <6>1 DEF ImportingOrder
        <5>5. g.id + 1 = f.id + 1
          BY <1>3, <5>1, <5>3, <5>4, Ascending
        <5>6. g.id = f.id
          BY <5>1, <5>4, <5>5
        <5> QED BY <2>2, <5>3, <5>6
      <4> QED BY <3>1, <4>3
    <3>3. CASE ~Nuking
      <4>1. /\ DOMAIN todo = 1 .. Len(todo) /\ Len(todo) \in Nat /\ N \in Nat /\ N >= 1 /\ inPlace \in BOOLEAN
            /\ Links0 \in Int /\ Rests \in Nat /\ Rests >= 6 /\ Len(todo) = Links0 + Rests
            /\ Rests = (IF inPlace THEN N + 2 ELSE 0) + 6
        BY <1>3, <2>12, ImportingHead
      <4>2. 0 - Links0 >= N + 2
        <5> SUFFICES ASSUME ~(0 - Links0 >= N + 2) PROVE FALSE
          OBVIOUS
        <5> HIDE DEF Links0, Rests, N
        <5>1. N + 2 + Links0 \in DOMAIN todo /\ N + 2 + Links0 > Links0 /\ (N + 2 + Links0) - Links0 = N + 2
          BY <2>12, <4>1
        <5>2. todo[N + 2 + Links0] = AfterLinks(inPlace)[(N + 2 + Links0) - Links0]
          BY <2>12, <5>1, Zenon DEF Importing
        <5>3. AfterLinks(inPlace)[N + 2] = Do("clear", Resume)
          <6>1. AfterLinks(TRUE)[N + 2] = Do("clear", Resume)
            BY AfterLinksAt, Zenon
          <6>2. inPlace = TRUE
            BY <2>12, <4>1
          <6> QED BY <6>1, <6>2
        <5> QED BY <3>3, <5>1, <5>2, <5>3 DEF Nuking
      <4>3. Resume \notin dirs
        BY <2>12, <4>2 DEF Importing, EmptyingDirs
      <4> QED BY <2>6, <4>3
    <3> QED BY <3>2, <3>3
  <2>13. Starting \/ (Importing /\ ImportingOrder) \/ Fuzzing
    BY <1>1, <1>2, <1>3, PhaseOps DEF Ordered
  <2>14. Importing => Links0 <= 0 \/ Links0 > 0
    <3>1. Importing => Links0 \in Int
      BY <1>3, ImportingHead
    <3> HIDE DEF Links0, Importing
    <3> QED BY <3>1
  <2> HIDE DEF Links0, Importing, ImportingOrder, Fuzzing, Starting, BearsKept, Mirrored
  <2> QED BY <2>7, <2>8, <2>9, <2>11, <2>12, <2>13, <2>14
<1> QED BY <1>5, <1>6

(* How far the links have got does not increase. *)
LEMMA LinksLeft ==
    ASSUME Typed, todo # << >>, todo' = todo \/ todo' = Tail(todo), inPlace' = inPlace, Links0 <= 0
    PROVE  Links0' <= 0
<1>1. todo \in Seq(Command)
  BY DEF Typed
<1>2. Len(todo) \in Nat /\ (Len(todo') = Len(todo) \/ Len(todo') = Len(todo) - 1)
  <2> HIDE DEF Command
  <2> QED BY <1>1
<1>3. Rests' = Rests /\ Rests \in Nat
  BY StateNames DEF Rests, N
<1> QED BY <1>2, <1>3 DEF Links0

LEMMA ExecuteFollows ==
    ASSUME FollowedUp, Ordered', Execute, Steady
    PROVE  Follows
<1>0. Ordered /\ Mirrored
  BY DEF FollowedUp
<1>1. Typed /\ Tree /\ Always
  BY <1>0 DEF Ordered
<1>2. UNCHANGED <<finds, stale, atRisk, again>>
  BY DEF Execute, Clear, Rmdir, Mkdir, RenameQueue, Backup, Unlink, Create, Write, Link, ReadTestcases, history, Steady
<1>3. todo # << >>
  BY DEF Execute, Clear, Rmdir, Mkdir, RenameQueue, Backup, Unlink, Create, Write, Link, ReadTestcases, Does
<1>4. \/ Starting /\ StartingOrder
      \/ Importing /\ ImportingOrder
      \/ Fuzzing /\ FuzzingOrder
  BY <1>0, <1>1, <1>3, PhaseOps DEF Ordered
<1>5. /\ Clear => Next1.op = "clear"
      /\ Rmdir => Next1.op = "rmdir"
      /\ Mkdir => Next1.op = "mkdir"
      /\ RenameQueue => Next1.op = "rename"
      /\ Backup => Next1.op = "backup"
      /\ Unlink => Next1.op = "unlink"
      /\ Create => Next1.op = "create"
      /\ Write => Next1.op = "write"
      /\ Link => Next1.op = "link"
      /\ ReadTestcases => Next1.op = "read"
  BY DEF Clear, Rmdir, Mkdir, RenameQueue, Backup, Unlink, Create, Write, Link, ReadTestcases, Does
<1>6. Clear \/ Rmdir \/ Mkdir \/ RenameQueue \/ Backup \/ Unlink \/ Create \/ Write \/ Link \/ ReadTestcases
  BY Zenon DEF Execute
<1>7. PICK op : op = Next1.op
  OBVIOUS
<1>8. Meaning' <=> Meaning
  BY <1>2 DEF Meaning, Trusted
<1>9. ASSUME running', ~ReadTestcases
      PROVE  /\ UNCHANGED session
             /\ ~Link => todo' = todo \/ todo' = Tail(todo)
  <2>1. \A why : ~Fails(why)
    BY <1>9 DEF Fails, Ends
  <2> HIDE DEF Fails, session, In, IsEmpty, Exists, Written, Noted
  <2> QED BY <1>6, <1>9, <2>1 DEF Clear, Rmdir, Mkdir, RenameQueue, Backup, Unlink, Create, Write, Link, Step
<1>10. ASSUME running' PROVE << >> \in dirs'
  BY <1>10, RunningDirsNext
<1> HIDE DEF Typed, Tree, Always, Rest, Starting, Importing, Fuzzing, StartingOrder, ImportingOrder, FuzzingOrder, Restores, Source, Steady
<1> HIDE DEF Clear, Rmdir, Mkdir, RenameQueue, Backup, Unlink, Create, Write, Link, ReadTestcases
<1> HIDE DEF Meaning, Ordered, BearsKept, Links0
<1>11. CASE Starting /\ StartingOrder
  <2>1. op \in {"rename", "clear", "rmdir", "backup", "unlink", "mkdir", "create", "read"}
    BY <1>1, <1>7, <1>11, PhaseOps
  <2>2. Clear \/ Rmdir \/ Backup \/ Unlink \/ Mkdir \/ Create \/ RenameQueue \/ ReadTestcases
    BY <1>5, <1>6, <1>7, <2>1
  <2>3. CASE Clear \/ Rmdir \/ Backup \/ Unlink \/ Mkdir \/ Create
    <3>1. Starting'
      BY <1>1, <1>2, <1>11, <2>3, StartingClear, StartingRmdir, StartingBackup, StartingUnlink, StartingMkdir, StartingCreate
    <3>2. Meaning => BearsKept /\ Mirrored'
      <4> HIDE DEF Mirrored
      <4> QED BY <1>0, <1>1, <1>11, <2>3, <3>1, StartingBears
    <3>3. << >> \in dirs'
      BY <1>10, <3>1 DEF Starting, Runs
    <3> QED BY <1>8, <3>2, <3>3 DEF Follows, Mirrored
  <2>4. CASE RenameQueue
    <3>1. Starting'
      BY <1>1, <1>2, <1>11, <2>4, StartingRename
    <3>2. Meaning => BearsKept /\ Mirrored'
      <4> HIDE DEF Mirrored
      <4> QED BY <1>0, <1>1, <1>11, <2>4, RenameBears
    <3>3. << >> \in dirs'
      BY <1>10, <3>1 DEF Starting, Runs
    <3> QED BY <1>8, <3>2, <3>3 DEF Follows, Mirrored
  <2>5. CASE ReadTestcases
    <3>1. Meaning => BearsKept /\ Mirrored'
      <4> HIDE DEF Mirrored
      <4> QED BY <1>0, <1>1, <1>11, <2>5, ReadBears
    <3>2. << >> \in dirs'
      <4>1. dirs' = dirs
        BY <2>5 DEF ReadTestcases, disk
      <4>2. running
        BY <1>11 DEF Starting, Runs
      <4> QED BY <1>0, <4>1, <4>2, RunningDirs
    <3> QED BY <1>8, <3>1, <3>2 DEF Follows, Mirrored
  <2> QED BY <2>2, <2>3, <2>4, <2>5
<1>12. CASE Importing /\ ImportingOrder
  <2>1. op \notin {"mkdir", "rename", "backup", "read"}
    BY <1>1, <1>7, <1>12, PhaseOps
  <2>2. (Clear \/ Rmdir \/ Unlink \/ Create \/ Link \/ Write) /\ ~ReadTestcases
    BY <1>5, <1>6, <1>7, <2>1
  <2>3. Importing'
    BY <1>1, <1>2, <1>12, <2>2, ImportingClear, ImportingRmdir, ImportingUnlink, ImportingCreate, ImportingLink, ImportingWrite
  <2>4. Links0 \in Int /\ (Clear \/ Rmdir \/ Unlink => Links0 <= 0)
    <3>1. Clear \/ Rmdir \/ Unlink => Next1.op \notin {"link", "create", "write"}
      BY <1>5
    <3> QED BY <1>1, <1>12, <3>1, ImportingOps
  <2>5. Links0 >= 1 \/ Links0 <= 0
    BY <2>4
  <2>6. ImportingOrder'
    <3>1. CASE Link \/ Write
      BY <1>1, <1>2, <1>12, <3>1, ImportingLinkOrder
    <3>2. CASE Create /\ Links0 >= 1
      BY <1>1, <1>2, <1>12, <3>2, ImportingCreateOrder
    <3>3. CASE Clear \/ Rmdir \/ Unlink \/ (Create /\ Links0 <= 0)
      BY <1>1, <1>2, <1>12, <3>3, ImportingTakesOrder
    <3> QED BY <2>2, <2>5, <3>1, <3>2, <3>3
  <2>7. running' /\ todo' # << >> /\ mem' # << >>
    <3>1. running' /\ mem' # << >>
      BY <2>3 DEF Importing, Runs
    <3>2. Typed'
      BY DEF Ordered
    <3> QED BY <2>3, <3>1, <3>2, CommandsLeftNext
  <2>8. mem' = mem /\ inPlace' = inPlace
    BY <1>9, <2>2, <2>7 DEF session
  <2>9. CASE inPlace \/ Links0' <= 0
    <3>1. Loaded'
      BY <2>3, <2>6, <2>8, <2>9 DEF Loaded
    <3> QED BY <1>0, <1>2, <1>12, <2>8, <3>1, LoadedFollows
  <2>10. CASE ~inPlace /\ ~(Links0' <= 0)
    <3>1. Links0 >= 1
      <4> SUFFICES ASSUME Links0 <= 0 PROVE FALSE
        BY <2>5
      <4>1. ~Link
        BY <1>1, <1>5, <1>12, ImportingOps
      <4>2. todo' = todo \/ todo' = Tail(todo)
        BY <1>9, <2>2, <2>7, <4>1
      <4>3. Links0' <= 0
        BY <1>1, <1>3, <2>8, <4>2, LinksLeft
      <4> QED BY <2>10, <4>3
    <3>2. Link \/ Write \/ Create
      <4>1. ~(Links0 <= 0)
        BY <2>4, <3>1
      <4> QED BY <2>2, <2>4, <4>1
    <3>3. Meaning => BearsKept
      BY <1>1, <1>12, <2>7, <2>10, <3>1, <3>2, FreshLinkBears
    <3>4. Mirrored'
      BY <2>7 DEF Mirrored
    <3> HIDE DEF Mirrored
    <3> QED BY <1>8, <1>10, <2>7, <3>3, <3>4 DEF Follows
  <2> QED BY <2>9, <2>10
<1>13. CASE Fuzzing /\ FuzzingOrder
  <2>1. op \in {"write", "create", "unlink", "truncate", "stats"}
    BY <1>1, <1>3, <1>7, <1>13, PhaseOps
  <2>2. (Unlink \/ Create \/ Write) /\ ~ReadTestcases
    BY <1>5, <1>6, <1>7, <2>1
  <2>3. Fuzzing'
    BY <1>1, <1>2, <1>13, <2>2, FuzzingUnlink, FuzzingCreate, FuzzingWrite
  <2>4. FuzzingOrder'
    BY <1>1, <1>2, <1>13, <2>2, FuzzingUnlinkOrder, FuzzingCreateOrder, FuzzingWriteOrder
  <2>5. running'
    BY <2>3 DEF Fuzzing, Runs
  <2>6. mem' = mem
    BY <1>9, <2>2, <2>5 DEF session
  <2>7. Loaded'
    BY <2>3, <2>4 DEF Loaded
  <2> QED BY <1>0, <1>2, <1>13, <2>6, <2>7, LoadedFollows
<1> QED BY <1>4, <1>11, <1>12, <1>13

(* An action of fuzzing: entries are added to the queue in memory, or stay.  *)
LEMMA FuzzFollows ==
    ASSUME FollowedUp, Ordered', (Fuzz /\ Steady) \/ (Advance /\ again' = again)
    PROVE  Follows
<1>1. Ordered /\ Typed /\ Tree /\ Always
  BY DEF FollowedUp, Ordered
<1>2. running /\ todo = << >>
  BY DEF Fuzz, SaveEntry, SaveCrash, TrimCase, MarkAsDetDone, UpdateStats, Advance, Idle
<1>3. Fuzzing /\ FuzzingOrder
  BY <1>1, <1>2, PhaseOps DEF Ordered
<1>4. UNCHANGED <<atRisk, stale, again>>
  BY DEF Fuzz, SaveEntry, SaveCrash, TrimCase, MarkAsDetDone, UpdateStats, Advance, history, Steady
<1>5. ASSUME NEW k \in DOMAIN mem PROVE k \in DOMAIN mem' /\ mem'[k].input = mem[k].input
  <2>1. mem \in Entries /\ DOMAIN mem = 1 .. Len(mem) /\ Len(mem) \in Nat /\ finds \in Nat
    BY <1>1, MemEntries
  <2>2. CASE SaveEntry
    <3>1. PICK e : e = [input |-> finds + 1, passedDet |-> FALSE]
      OBVIOUS
    <3>2. mem' = Append(mem, e) /\ e \in [input : Int, passedDet : BOOLEAN]
      BY <2>1, <2>2, <3>1 DEF SaveEntry
    <3>3. DOMAIN mem' = 1 .. Len(mem) + 1 /\ \A j \in 1 .. Len(mem) : mem'[j] = mem[j]
      BY <2>1, <3>2 DEF Entries
    <3> QED BY <2>1, <3>3
  <2>3. CASE MarkAsDetDone
    <3>1. PICK l \in DOMAIN mem : mem' = [mem EXCEPT ![l].passedDet = TRUE]
      BY <2>3 DEF MarkAsDetDone
    <3>2. PICK e : e = [mem[l] EXCEPT !.passedDet = TRUE]
      OBVIOUS
    <3>3. e.input = mem[l].input
      <4>1. mem[l] \in [input : Int, passedDet : BOOLEAN]
        BY <2>1, Element DEF Entries
      <4> QED BY <3>2, <4>1
    <3>4. mem' = [mem EXCEPT ![l] = e]
      BY <3>1, <3>2
    <3>5. DOMAIN mem' = DOMAIN mem /\ mem'[l] = e /\ \A j \in DOMAIN mem : j # l => mem'[j] = mem[j]
      BY <2>1, <3>4 DEF Entries
    <3> QED BY <3>3, <3>5
  <2>4. CASE SaveCrash \/ TrimCase \/ UpdateStats \/ Advance
    BY <2>4 DEF SaveCrash, TrimCase, UpdateStats, Advance, session
  <2> QED BY <2>2, <2>3, <2>4 DEF Fuzz
<1> HIDE DEF Typed, Tree, Always, Fuzzing, FuzzingOrder, Steady, SaveEntry, SaveCrash, TrimCase, MarkAsDetDone, UpdateStats
<1>6. SUFFICES Loaded'
  BY <1>1, <1>3, <1>4, <1>5, LoadedFollows
<1>7. CASE Fuzz /\ Steady
  <2>1. Fuzzing'
    BY <1>1, <1>3, <1>7, FuzzingSaveEntry, FuzzingSaveCrash, FuzzingTrim, FuzzingMark, FuzzingUpdate DEF Fuzz
  <2>2. FuzzingOrder'
    BY <1>1, <1>3, <1>7, SaveEntryOrder, CrashOrTrimOrder, MarkOrder DEF Fuzz
  <2> QED BY <2>1, <2>2 DEF Loaded
<1>8. CASE Advance /\ again' = again
  <2>1. UNCHANGED <<disk, todo, session, finds, history>>
    BY <1>8 DEF Advance
  <2>2. Typed' /\ Tree' /\ Fuzzing'
    BY <1>1, <1>3, <2>1, PhasesStill
  <2>3. FuzzingOrder'
    BY <1>1, <1>3, <1>8, <2>2, AdvanceOrder
  <2> QED BY <2>2, <2>3 DEF Loaded
<1> QED BY <1>7, <1>8

(* The position: found, reported, taken. *)
LEMMA PositionFollows ==
    ASSUME FollowedUp, Ordered', FindStartPosition \/ WriteStats \/ EnterQueue, again' = again
    PROVE  Follows
<1>1. Ordered /\ Typed /\ Tree /\ Always
  BY DEF FollowedUp, Ordered
<1>2. /\ todo # << >> /\ Next1.op \in {"seek", "truncate", "stats", "enter"} /\ Step
      /\ UNCHANGED <<atRisk, stale>>
  BY DEF FindStartPosition, WriteStats, EnterQueue, Does, history
<1>3. UNCHANGED <<mem, inPlace>> /\ todo' = Tail(todo)
  BY <1>2 DEF Step, session
<1>4. ~Rest /\ ~Starting
  BY <1>1, <1>2, PhaseOps
<1>5. /\ FindStartPosition => Next1.op = "seek"
      /\ EnterQueue => Next1.op = "enter"
  BY DEF FindStartPosition, EnterQueue, Does
<1>6. (Importing /\ ImportingOrder) \/ (Fuzzing /\ FuzzingOrder)
  BY <1>1, <1>4 DEF Ordered
<1> HIDE DEF Typed, Tree, Always, Rest, Starting, Importing, Fuzzing, ImportingOrder, FuzzingOrder, FindStartPosition, WriteStats, EnterQueue, Links0
<1>7. SUFFICES Loaded'
  BY <1>1, <1>2, <1>3, <1>6, LoadedFollows
<1>8. CASE Importing /\ ImportingOrder
  <2>1. CASE FindStartPosition \/ WriteStats
    <3>1. Importing'
      BY <1>1, <1>8, <2>1, ImportingPosition
    <3>2. ImportingOrder'
      BY <1>1, <1>8, <2>1, ImportingPositionOrder
    <3>3. Links0 <= 0
      <4>1. Next1.op \notin {"link", "create", "write"}
        BY <1>2
      <4> QED BY <1>1, <1>8, <4>1, ImportingOps
    <3>4. Links0' <= 0
      BY <1>1, <1>2, <1>3, <3>3, LinksLeft
    <3> QED BY <3>1, <3>2, <3>4 DEF Loaded
  <2>2. CASE EnterQueue
    <3>1. Fuzzing'
      BY <1>1, <1>8, <2>2, ImportingEnter
    <3>2. FuzzingOrder'
      BY <1>1, <1>8, <2>2, EnterOrder
    <3> QED BY <3>1, <3>2 DEF Loaded
  <2> QED BY <2>1, <2>2
<1>9. CASE Fuzzing /\ FuzzingOrder
  <2>1. Next1.op \in {"write", "create", "unlink", "truncate", "stats"}
    BY <1>1, <1>2, <1>9, PhaseOps
  <2>2. WriteStats
    BY <1>5, <2>1
  <2>3. Fuzzing'
    BY <1>1, <1>9, <2>2, FuzzingReport
  <2>4. FuzzingOrder'
    BY <1>1, <1>9, <2>2, FuzzingReportOrder
  <2> QED BY <2>3, <2>4 DEF Loaded
<1> QED BY <1>6, <1>8, <1>9

(* Whatever the owner does. *)
LEMMA OwnerFollows ==
    ASSUME FollowedUp, Ordered', DNext,
           again' = (again \/ (<< >> \in dirs /\ ~running /\ running' /\ ~inPlace'))
    PROVE  Follows
<1>1. Ordered /\ again \in BOOLEAN
  BY DEF FollowedUp, Ordered, Always
<1>2. running => again' = again
  BY <1>1
<1>3. todo # << >> => running
  BY <1>1, PhaseOps DEF Ordered
<1>4. CASE Start
  <2>1. Begin(FALSE)
    BY <1>4 DEF Start
  <2> QED BY <2>1, BeginFollows
<1>5. CASE StartInPlace
  <2>1. Begin(TRUE)
    BY <1>5 DEF StartInPlace
  <2> QED BY <2>1, BeginFollows
<1>6. CASE Kill /\ UNCHANGED position
  <2>1. running
    BY <1>6 DEF Kill
  <2>2. Steady
    BY <1>2, <1>6, <2>1 DEF Steady, position
  <2> QED BY <1>6, <2>2, KillFollows
<1>7. CASE Execute /\ UNCHANGED position
  <2>1. todo # << >>
    BY <1>7 DEF Execute, Clear, Rmdir, Mkdir, RenameQueue, Backup, Unlink, Create, Write, Link, ReadTestcases, Does
  <2>2. Steady
    BY <1>2, <1>3, <1>7, <2>1 DEF Steady, position
  <2> QED BY <1>7, <2>2, ExecuteFollows
<1>8. CASE Fuzz /\ UNCHANGED position
  <2>1. running
    BY <1>8 DEF Fuzz, SaveEntry, SaveCrash, TrimCase, MarkAsDetDone, UpdateStats, Idle
  <2>2. Steady
    BY <1>2, <1>8, <2>1 DEF Steady, position
  <2> QED BY <1>8, <2>2, FuzzFollows
<1>9. CASE FindStartPosition \/ WriteStats \/ EnterQueue
  <2>1. todo # << >>
    BY <1>9 DEF FindStartPosition, WriteStats, EnterQueue, Does
  <2> QED BY <1>2, <1>3, <1>9, <2>1, PositionFollows
<1>10. CASE Advance
  <2>1. running
    BY <1>10 DEF Advance, Idle
  <2> QED BY <1>2, <1>10, <2>1, FuzzFollows
<1> QED BY <1>4, <1>5, <1>6, <1>7, <1>8, <1>9, <1>10, Zenon DEF DNext

(* What the peer has done with stays done with. *)
LEMMA OwnerHandled ==
    ASSUME Handled, Follows, UNCHANGED <<minAccept, nextMinAccept, looked, case, tried, passedBy>>
    PROVE  Handled'
<1>1. ASSUME Meaning', NEW i \in Nat, i < minAccept \/ i \in looked \ {case} PROVE Settled(i)'
  <2>1. Meaning /\ BearsKept
    BY <1>1 DEF Follows
  <2>2. Settled(i)
    BY <1>1, <2>1 DEF Handled
  <2>3. CASE i \in passedBy
    BY <2>3 DEF Settled
  <2>4. CASE \E x \in tried : Bears(i, x)
    <3>1. PICK x \in tried : Bears(i, x)
      BY <2>4
    <3>2. Bears(i, x)'
      BY <2>1, <3>1 DEF BearsKept
    <3> HIDE DEF Bears
    <3> QED BY <3>1, <3>2 DEF Settled
  <2> HIDE DEF Bears
  <2> QED BY <2>2, <2>3, <2>4 DEF Settled
<1> HIDE DEF Meaning, Settled
<1> QED BY <1>1 DEF Handled

LEMMA PeerStill ==
    ASSUME UNCHANGED <<dvars, again>>
    PROVE  /\ \A i, x : Bears(i, x)' <=> Bears(i, x)
           /\ Meaning' <=> Meaning
           /\ Mirrored => Mirrored'
           /\ dirs' = dirs
<1>1. UNCHANGED <<files, dirs, todo, mem, atRisk, stale, again>>
  BY DEF dvars, disk, session, history
<1>2. \A i, x : Bears(i, x)' <=> Bears(i, x)
  BY <1>1 DEF Bears, Coming, Full, In
<1>3. Meaning' <=> Meaning
  BY <1>1 DEF Meaning, Trusted
<1>4. Mirrored => Mirrored'
  BY <1>1, <1>3 DEF Mirrored, Free, Full, In
<1> QED BY <1>1, <1>2, <1>3, <1>4

(* Settled stays settled while the directory does not change. *)
LEMMA SettledStill ==
    ASSUME UNCHANGED <<dvars, again>>, tried \subseteq tried', passedBy \subseteq passedBy', NEW i, Settled(i)
    PROVE  Settled(i)'
<1>1. CASE i \in passedBy
  BY <1>1 DEF Settled
<1>2. CASE \E x \in tried : Bears(i, x)
  <2>1. PICK x \in tried : Bears(i, x)
    BY <1>2
  <2>2. Bears(i, x)'
    <3> HIDE DEF Bears
    <3> QED BY <2>1, PeerStill
  <2> HIDE DEF Bears
  <2> QED BY <2>1, <2>2 DEF Settled
<1> HIDE DEF Bears
<1> QED BY <1>1, <1>2 DEF Settled

(* Each step of the peer. *)
LEMMA OpenHandled ==
    ASSUME Handled, OpenQueue
    PROVE  Handled'
<1>1. UNCHANGED <<dvars, again, minAccept, case, tried, passedBy>> /\ nextMinAccept' = minAccept /\ looked' = {}
  BY DEF OpenQueue
<1>2. Meaning' <=> Meaning
  BY <1>1, PeerStill
<1>3. ASSUME Meaning, NEW i \in Nat, i < minAccept PROVE Settled(i)'
  <2>1. Settled(i)
    BY <1>3 DEF Handled
  <2> QED BY <1>1, <2>1, SettledStill
<1> HIDE DEF Meaning, Settled
<1> QED BY <1>1, <1>2, <1>3 DEF Handled

LEMMA ReadHandled ==
    ASSUME Handled, Tree, ReadEntry
    PROVE  Handled'
<1>1. UNCHANGED <<dvars, again, minAccept, tried, passedBy>> /\ case = None
  BY DEF ReadEntry
<1>2. PICK id \in Contents :
         /\ looked' = looked \cup {id}
         /\ IF Accepted(id)
            THEN case' = id /\ nextMinAccept' = Larger(nextMinAccept, id + 1)
            ELSE UNCHANGED <<case, nextMinAccept>>
  BY DEF ReadEntry
<1>3. id \in Nat
  <2>1. ASSUME NEW d PROVE Numbers(d) \subseteq Nat
    <3>1. \A f \in In(d) : f.id \in Nat \cup {NoId}
      BY FilesAt
    <3> QED BY <3>1 DEF Numbers
  <2> HIDE DEF Numbers
  <2> QED BY <2>1 DEF Contents
<1>4. minAccept \in Nat /\ nextMinAccept \in Nat /\ looked \subseteq Nat /\ None \notin Nat
  BY DEF Handled, None
<1>5. case' \in Nat \cup {None} /\ nextMinAccept' \in Nat /\ looked' \subseteq Nat
  BY <1>1, <1>2, <1>3, <1>4 DEF Larger
<1>6. Meaning' <=> Meaning
  BY <1>1, PeerStill
<1>7. ASSUME Meaning, NEW i \in Nat, i < minAccept \/ i \in looked' \ {case'} PROVE Settled(i)'
  <2>1. i < minAccept \/ i \in looked \ {case}
    <3>1. CASE Accepted(id)
      BY <1>1, <1>2, <1>4, <1>7, <3>1
    <3>2. CASE ~Accepted(id)
      BY <1>1, <1>2, <1>3, <1>4, <1>7, <3>2 DEF Accepted
    <3> QED BY <3>1, <3>2
  <2>2. Settled(i)
    BY <1>7, <2>1 DEF Handled
  <2> QED BY <1>1, <2>2, SettledStill
<1> HIDE DEF Meaning, Settled
<1> QED BY <1>1, <1>4, <1>5, <1>6, <1>7 DEF Handled

LEMMA TryHandled ==
    ASSUME Handled, TryCase
    PROVE  Handled'
<1>1. UNCHANGED <<dvars, again, minAccept, nextMinAccept, looked>> /\ case # None /\ case' = None
  BY DEF TryCase
<1>2. PICK found : found = {f \in In(Queue) : f.id = case /\ f.input # Empty}
  OBVIOUS
<1>3. /\ tried' = tried \cup {f.input : f \in found}
      /\ passedBy' = IF found = {} THEN passedBy \cup {case} ELSE passedBy
  <2> HIDE DEF In
  <2> QED BY <1>2 DEF TryCase
<1>c. PICK c : c = case
  OBVIOUS
<1>4. Meaning' <=> Meaning
  BY <1>1, PeerStill
<1>5. Settled(c)'
  <2>1. CASE found = {}
    BY <1>3, <1>c, <2>1 DEF Settled
  <2>2. CASE found # {}
    <3>1. PICK f \in found : TRUE
      BY <2>2
    <3>2. f \in Full(Queue) /\ f.id = c /\ f.input \in tried'
      BY <1>2, <1>3, <1>c, <3>1, FullAt
    <3>3. Bears(c, f.input)
      BY <3>2 DEF Bears
    <3>4. Bears(c, f.input)'
      <4> HIDE DEF Bears
      <4> QED BY <1>1, <3>3, PeerStill
    <3> HIDE DEF Bears
    <3> QED BY <3>2, <3>4 DEF Settled
  <2> QED BY <2>1, <2>2
<1>6. ASSUME Meaning, NEW i \in Nat, i < minAccept \/ i \in looked PROVE Settled(i)'
  <2>1. CASE i = c
    BY <1>5, <2>1
  <2>2. CASE i # c
    <3>1. Settled(i)
      BY <1>6, <1>c, <2>2 DEF Handled
    <3>2. tried \subseteq tried' /\ passedBy \subseteq passedBy'
      BY <1>3
    <3> QED BY <1>1, <3>1, <3>2, SettledStill
  <2> QED BY <2>1, <2>2
<1> HIDE DEF Meaning, Settled
<1> QED BY <1>1, <1>4, <1>6 DEF Handled

LEMMA CloseHandled ==
    ASSUME Handled, CloseQueue
    PROVE  Handled'
<1>1. /\ UNCHANGED <<dvars, again, case, tried>> /\ case = None /\ due \subseteq looked
      /\ minAccept' = nextMinAccept /\ passedBy' = passedBy \cup Overlooked
      /\ looked' = {} /\ nextMinAccept' = 0
  BY DEF CloseQueue, Closes
<1>2. minAccept \in Nat /\ nextMinAccept \in Nat /\ None \notin Nat
  BY DEF Handled, None
<1>3. Meaning' <=> Meaning
  BY <1>1, PeerStill
<1>4. ASSUME Meaning, NEW i \in Nat, i < nextMinAccept PROVE Settled(i)'
  <2>1. CASE i < minAccept \/ i \in looked
    <3>1. Settled(i)
      BY <1>1, <1>2, <1>4, <2>1 DEF Handled
    <3> QED BY <1>1, <3>1, SettledStill
  <2>2. CASE ~(i < minAccept \/ i \in looked)
    <3>1. i \in minAccept .. nextMinAccept - 1 /\ i \notin looked /\ i \notin due
      BY <1>1, <1>2, <1>4, <2>2
    <3>2. i \in Overlooked
      BY <3>1 DEF Overlooked
    <3> QED BY <1>1, <3>2 DEF Settled
  <2> QED BY <2>1, <2>2
<1> HIDE DEF Meaning, Settled
<1> QED BY <1>1, <1>2, <1>3, <1>4 DEF Handled

LEMMA StopHandled ==
    ASSUME Handled, StopPeer
    PROVE  Handled'
<1>1. UNCHANGED <<dvars, again, minAccept, tried, passedBy>> /\ nextMinAccept' = 0 /\ looked' = {} /\ case' = None
  BY DEF StopPeer, Closes
<1>2. Meaning' <=> Meaning
  BY <1>1, PeerStill
<1>3. ASSUME Meaning, NEW i \in Nat, i < minAccept PROVE Settled(i)'
  <2>1. Settled(i)
    BY <1>3 DEF Handled
  <2> QED BY <1>1, <2>1, SettledStill
<1> HIDE DEF Meaning, Settled
<1> QED BY <1>1, <1>2, <1>3 DEF Handled

(* The third invariant holds at first, every step keeps it, and it implies   *)
(* the property.                                                             *)
LEMMA FollowedUpInit ==
    ASSUME Init
    PROVE  FollowedUp
<1>1. /\ files = {} /\ atRisk = {} /\ stale = FALSE /\ again = FALSE
      /\ minAccept = 0 /\ nextMinAccept = 0 /\ looked = {} /\ case = None
  BY DEF Init, DInit
<1>2. Ordered
  BY OrderedInit
<1>3. Meaning
  BY <1>1 DEF Meaning, Trusted
<1>4. Mirrored
  <2>1. Full(Queue) = {}
    BY <1>1 DEF Full, In
  <2> QED BY <2>1 DEF Mirrored
<1>5. Handled
  BY <1>1 DEF Handled
<1> QED BY <1>2, <1>3, <1>4, <1>5 DEF FollowedUp

LEMMA FollowedUpStep ==
    ASSUME FollowedUp, [Next]_svars
    PROVE  FollowedUp'
<1>1. Ordered /\ Mirrored /\ Handled /\ (<< >> \notin dirs => Meaning) /\ Tree
  BY DEF FollowedUp, Ordered
<1>2. Ordered'
  BY <1>1, OrderedStep
<1> HIDE DEF Ordered, Mirrored, Handled, Meaning, Tree
<1>3. CASE Owner
  <2>1. /\ DNext /\ again' = (again \/ (<< >> \in dirs /\ ~running /\ running' /\ ~inPlace'))
        /\ UNCHANGED <<minAccept, nextMinAccept, looked, case, tried, passedBy>>
    BY <1>3, Zenon DEF Owner
  <2>2. Follows
    BY <1>2, <2>1, OwnerFollows
  <2>3. Handled'
    BY <1>1, <2>1, <2>2, OwnerHandled
  <2> QED BY <1>2, <2>2, <2>3 DEF Follows, FollowedUp
<1>4. ASSUME UNCHANGED <<dvars, again>>, Handled' PROVE FollowedUp'
  <2>1. (Meaning' <=> Meaning) /\ Mirrored' /\ dirs' = dirs
    BY <1>1, <1>4, PeerStill
  <2> QED BY <1>1, <1>2, <1>4, <2>1 DEF FollowedUp
<1>5. CASE Peer
  <2>1. UNCHANGED <<dvars, again>>
    BY <1>5 DEF Peer, OpenQueue, ReadEntry, TryCase, CloseQueue, StopPeer
  <2>2. Handled'
    BY <1>1, <1>5, OpenHandled, ReadHandled, TryHandled, CloseHandled, StopHandled, Zenon DEF Peer
  <2> QED BY <1>4, <2>1, <2>2
<1>6. CASE UNCHANGED svars
  <2>1. UNCHANGED <<dvars, again, minAccept, nextMinAccept, looked, case, tried, passedBy>>
    BY <1>6 DEF svars, pass
  <2>2. ASSUME NEW i, Settled(i) PROVE Settled(i)'
    <3>1. tried \subseteq tried' /\ passedBy \subseteq passedBy'
      BY <2>1
    <3> QED BY <2>1, <2>2, <3>1, SettledStill
  <2>3. Meaning' <=> Meaning
    BY <2>1, PeerStill
  <2>4. Handled'
    <3> HIDE DEF Settled
    <3> QED BY <1>1, <2>1, <2>2, <2>3 DEF Handled
  <2> QED BY <1>4, <2>1, <2>4
<1> QED BY <1>3, <1>5, <1>6, Zenon DEF Next

LEMMA FollowedUpMeans ==
    ASSUME FollowedUp
    PROVE  SyncMissesNothing
<1>1. Ordered /\ Mirrored /\ Handled /\ Typed /\ Tree
  BY DEF FollowedUp, Ordered
<1> SUFFICES ASSUME Meaning, NEW f \in In(Queue), f.id < minAccept, f.input # Empty
             PROVE  f.input \in tried \/ f.id \in passedBy
  BY DEF SyncMissesNothing, Meaning, Trusted
<1>2. f \in Full(Queue) /\ f.dir = Queue
  BY FullAt, FilesAt, <1>1
<1>3. f.id \in Nat
  BY <1>1, <1>2, FullTypes, Two
<1>4. PICK i, y : i = f.id /\ y = f.input
  OBVIOUS
<1>5. Bears(i, y)
  BY <1>2, <1>4 DEF Bears
<1>6. Settled(i)
  BY <1>1, <1>3, <1>4 DEF Handled
<1>7. ASSUME NEW x \in tried, Bears(i, x) PROVE y \in tried
  <2>1. x = y
    <3> HIDE DEF Bears, Ordered, Mirrored, Meaning
    <3> QED BY <1>1, <1>5, <1>7, OneInput
  <2> QED BY <2>1
<1> HIDE DEF Bears
<1> QED BY <1>4, <1>6, <1>7 DEF Settled

(* The third invariant: what the peer has done with a number it has done     *)
(* with the input that the number stands for.                                *)
THEOREM FollowedUpAlways == Spec => []FollowedUp
<1>1. Init => FollowedUp
  BY FollowedUpInit
<1>2. FollowedUp /\ [Next]_svars => FollowedUp'
  BY FollowedUpStep
<1> QED BY <1>1, <1>2, PTL DEF Spec

(* sync_fuzzers, in the peer, passes over every number below the one its file *)
(* names.  Whatever the owner does meanwhile, dies at any moment and is      *)
(* resumed with its queue renamed and linked anew, and whenever the peer is   *)
(* stopped: an input of the owner's queue below that number was run by the    *)
(* peer, or passed by because its file could not be opened, was empty or     *)
(* came while the directory was read; unless an input was endangered or the  *)
(* owner started afresh over old work.                                       *)
THEOREM PeerMissesNothing == Spec => []SyncMissesNothing
<1>1. FollowedUp => SyncMissesNothing
  BY FollowedUpMeans
<1> QED BY <1>1, FollowedUpAlways, PTL

=============================================================================
