------------------------ MODULE OutputDirectory_proofs ------------------------
(***************************************************************************)
(* What TLAPS proves about OutputDirectory as the owner's part of          *)
(* Synchronisation: the directory is never left in a state a later start    *)
(* cannot clean up and rebuild, or that a resume finds no inputs in, but at *)
(* the moments named (StartsAgain); no find written to queue/ and no crash  *)
(* is lost but at the two moments named (OnlyKnownLosses).                  *)
(*                                                                         *)
(* A session is in one of four phases: none runs (Rest); the commands of    *)
(* CleanUp and MakeDirs up to the reading of the inputs (Starting); the     *)
(* commands of Import (Importing); fuzzing, with what is left of one action *)
(* (Fuzzing).  In the first two of a running session the place in the       *)
(* straight-line program, Done, determines what is in the directory.        *)
(* The theorems hold for any list of distinct directories below .state,     *)
(* any scenario, and any number of sessions, finds and crashes.             *)
(***************************************************************************)
EXTENDS Synchronisation, NaturalSets, SequenceTheorems

-----------------------------------------------------------------------------
(* The invariant. *)

(* The directories and files a session knows. *)
N == Len(StateDirs)
Family(d) == {d, State(d)} \cup {Sub(d, s) : s \in Range(StateDirs)}
KnownDirs == {<< >>, Synced, Crashes, Hangs} \cup Family(Queue) \cup Family(Resume)
FileDirs == {Queue, Resume, DetDone(Queue), DetDone(Resume), Crashes}
CurInput == <<".cur_input">>
PlotData == <<"plot_data">>

(* The commands. *)
Ops == {"rename", "clear", "rmdir", "mkdir", "backup", "unlink", "create", "write", "link", "read",
        "seek", "truncate", "stats", "enter"}
Paths == KnownDirs \cup {CurInput, PlotData, <<"fuzz_bitmap">>, <<"fuzzer_stats">>}
Command == [op : Ops, path : Paths, id : Int, input : Int]

(* The types of what the other parts speak of. *)
Typed ==
    /\ finds \in Nat /\ crashes \in Nat
    /\ running \in BOOLEAN /\ inPlace \in BOOLEAN /\ stale \in BOOLEAN
    /\ saved \subseteq 1 .. finds /\ filed \subseteq 1 .. finds
    /\ todo \in Seq(Command)
    /\ mem \in Seq([input : 0 .. finds, passedDet : BOOLEAN])

(* The directories form a tree, every numbered file is in one that exists,   *)
(* and no two files of a directory have one number.                          *)
Tree ==
    /\ dirs \subseteq KnownDirs
    /\ dirs # {} => << >> \in dirs
    /\ \A d \in {Queue, Resume} :
         /\ State(d) \in dirs => d \in dirs
         /\ \A s \in Range(StateDirs) : Sub(d, s) \in dirs => State(d) \in dirs
    /\ files \subseteq [dir : FileDirs, id : Nat \cup {NoId}, input : {Empty} \cup 0 .. finds]
    /\ \A f \in files : f.dir \in dirs /\ (f.id = NoId => f.dir = Crashes)
    /\ \A f, g \in files : f.dir = g.dir /\ f.id = g.id => f = g
    /\ IsFiniteSet(files)
    /\ plain \subseteq {CurInput, PlotData}
    /\ << >> \notin dirs => plain = {}

(* A crash is where it was filed, or in a directory set aside. *)
CrashesKept == filed \subseteq Holds(Crashes) \cup backups

(* Nothing in d keeps queue from being renamed to it: rename fails if d is   *)
(* not empty.                                                                *)
Free(d) == In(d) = {} /\ State(d) \notin dirs

(* No session runs.  A find is endangered, in _resume, or in a queue that    *)
(* the next resume can move to _resume or has to give up knowingly.          *)
Rest ==
    /\ ~running /\ todo = << >> /\ mem = << >>
    /\ fatal \notin {"clean-up", "mkdir", "create"}
    /\ \A i \in saved : \/ i \in atRisk \/ i \in Holds(Resume)
                        \/ i \in Holds(Queue) /\ (stale \/ Free(Resume))
    /\ CrashesKept

(* A session runs and nothing has failed; the queue that the next resume     *)
(* takes is not an older one.                                                *)
Runs == running /\ fatal = "none"
NoOldQueue == (inPlace \/ ~stale) => Resume \notin dirs

(* The whole program of start-up, its length with something to clean up,     *)
(* and how many of its commands are done.  A fresh directory has no clean-   *)
(* up: then the first commands count as done.                                *)
Program(resume) ==
    CleanUp(resume) \o MakeDirs \o <<Do("read", IF resume THEN Resume ELSE << >>)>>
Total == 2 * N + 17
Done == Total - Len(todo)

(* A path that exists, or does not, from one place of the program to         *)
(* another.                                                                  *)
Present(path, first, last) == (first <= Done /\ Done < last) => path \in dirs
Absent(path, first, last) == (first <= Done /\ Done < last) => path \notin dirs

(* Where the program stands tells which directories exist: each is gone      *)
(* after the command that removes it, and there after the one that makes     *)
(* it.                                                                       *)
StartingDirs ==
    /\ << >> \in dirs
    /\ Absent(Queue, N + 3, N + 11) /\ Present(Queue, N + 11, Total)
    /\ Absent(State(Queue), N + 2, N + 12) /\ Present(State(Queue), N + 12, Total)
    /\ \A j \in 1 .. N : Absent(Sub(Queue, StateDirs[j]), 1 + j, N + 12 + j)
                         /\ Present(Sub(Queue, StateDirs[j]), N + 12 + j, Total)
    /\ ~inPlace => Absent(Synced, 1, 2 * N + 13)
    /\ Absent(Crashes, IF inPlace THEN N + 4 ELSE N + 5, 2 * N + 14) /\ Present(Crashes, 2 * N + 14, Total)
    /\ Absent(Hangs, IF inPlace THEN N + 7 ELSE N + 6, 2 * N + 15)
    /\ N + 3 <= Done => In(Queue) = {} /\ In(DetDone(Queue)) = {}
    /\ N + 4 <= Done => ~Exists(Crashes, NoId)
    /\ N + 5 <= Done => In(Crashes) = {}
    /\ N + 10 <= Done /\ Done < 2 * N + 16 => PlotData \notin plain

(* The finds are in _resume once the rename is done (or has failed because   *)
(* an older _resume is in use); the crashes are set aside once the           *)
(* directory is moved.                                                       *)
StartingKept ==
    /\ ~inPlace => saved = {} /\ filed = {} /\ (~stale => Resume \notin dirs)
    /\ inPlace => saved \subseteq atRisk \cup Holds(Resume)
                     \cup (IF Done = 0 /\ Free(Resume) THEN Holds(Queue) ELSE {})
    /\ IF inPlace /\ N + 4 <= Done THEN filed \subseteq backups ELSE CrashesKept

(* The clean-up and the making of directories. *)
Starting ==
    /\ Runs
    /\ mem = << >> /\ crashes = 0
    /\ Len(todo) \in 1 .. Total
    /\ \A j \in DOMAIN todo : todo[j] = Program(inPlace)[Done + j]
    /\ StartingDirs
    /\ StartingKept

(* The commands that follow the links of Import, how many they are, and how  *)
(* many commands come before them.  It is negative when some of the former   *)
(* are done.                                                                 *)
AfterLinks(resume) == If(resume, EmptyQueue(Resume)) \o FirstOutput
Rests == IF inPlace THEN N + 8 ELSE 6
Links0 == Len(todo) - Rests                   \* commands of Links left

(* The queue in the directory is the one in memory. *)
InMemory ==
    /\ \A f \in In(Queue) : f.id + 1 \in DOMAIN mem /\ f.input \in {Empty, mem[f.id + 1].input}
    /\ \A f \in In(DetDone(Queue)) : f.id + 1 \in DOMAIN mem /\ mem[f.id + 1].passedDet
    /\ \A f \in In(Crashes) : f.id < crashes
    /\ crashes = 0 => In(Crashes) = {}
    /\ {Queue, DetDone(Queue), Crashes} \subseteq dirs

(* The two halves of a copied file. *)
IsPair(a, b) == a.op = "create" /\ b.op = "write" /\ a.path = b.path /\ a.id = b.id /\ a.input = b.input

(* A command of Links still to be executed: it links an entry of the queue   *)
(* in memory, or is a half of the copy of one, or marks one.                 *)
Pivots(p) ==
    LET c == todo[p] IN
    /\ c.id + 1 \in DOMAIN mem
    /\ c.input = mem[c.id + 1].input
    /\ \/ c.path = Queue /\ c.op = "link"
       \/ c.path = Queue /\ c.op = "create" /\ p = 1 /\ Links0 >= 2 /\ IsPair(c, todo[2])
       \/ c.path = Queue /\ c.op = "write" /\ p = 1
       \/ c.path = Queue /\ c.op = "write" /\ p = 2 /\ IsPair(todo[1], c)
       \/ c.path = DetDone(Queue) /\ c.op = "create" /\ mem[c.id + 1].passedDet
    /\ c.op # "write" => ~Exists(c.path, c.id)
    /\ c.op = "write" => \A f \in In(Queue) : f.id = c.id => f.input = Empty

(* Every entry is linked or will be, and nothing twice. *)
Linking ==
    /\ \A p \in 1 .. Links0 : Pivots(p)
    /\ \A p, q \in 1 .. Links0 :
         p < q /\ todo[p].path = todo[q].path /\ todo[p].id = todo[q].id =>
            p = 1 /\ q = 2 /\ IsPair(todo[1], todo[2])
    /\ \A k \in DOMAIN mem :
         \/ File(Queue, k - 1, mem[k].input) \in files
         \/ \E p \in 1 .. Links0 : todo[p].path = Queue /\ todo[p].id = k - 1

(* How far nuke_resume_dir has got. *)
EmptyingDirs ==
    LET e == 0 - Links0 IN
    /\ \A j \in 1 .. N : e >= j => Sub(Resume, StateDirs[j]) \notin dirs
    /\ e >= N + 1 => State(Resume) \notin dirs
    /\ e >= N + 2 => Resume \notin dirs

(* What the queue in memory stands for. *)
Inputs == {mem[k].input : k \in DOMAIN mem}

(* The finds are in _resume until everything is linked, then in queue. *)
ImportingKept ==
    /\ inPlace /\ Links0 > 0 => /\ saved \subseteq atRisk \cup Holds(Resume)
                                /\ Inputs = Holds(Resume) \ {Empty}
    /\ Links0 <= 0 => saved \subseteq atRisk \cup Holds(Queue)
    /\ ~inPlace => saved = {} /\ Inputs = {Seed}
    /\ CrashesKept

(* The commands of Import. *)
Importing ==
    /\ Runs
    /\ mem # << >> /\ crashes = 0
    /\ Len(todo) >= 1
    /\ \A j \in DOMAIN todo : j > Links0 => todo[j] = AfterLinks(inPlace)[j - Links0]
    /\ Linking
    /\ InMemory
    /\ inPlace => EmptyingDirs
    /\ ~inPlace => (~stale => Resume \notin dirs)
    /\ Len(todo) = 5 => CurInput \notin plain
    /\ ImportingKept

(* The files a command is about; a write of an entry in memory, or of the    *)
(* latest crash.                                                             *)
Others(c) == {f \in files : f.dir = c.path /\ f.id = c.id}
WriteFits(c) ==
    /\ c.op = "write"
    /\ \/ c.path = Queue /\ c.id + 1 \in DOMAIN mem /\ c.input = mem[c.id + 1].input
       \/ c.path = Crashes /\ crashes > 0 /\ c.id = crashes - 1 /\ c.input \in 1 .. finds

(* What is left of an action of fuzzing: a file to write, to make and        *)
(* write, to replace; a mark; a report.                                      *)
ToWrite == Len(todo) = 1 /\ WriteFits(todo[1]) /\ \A f \in Others(todo[1]) : f.input = Empty
ToMake == Len(todo) = 2 /\ WriteFits(todo[2]) /\ IsPair(todo[1], todo[2]) /\ Others(todo[2]) = {}
ToReplace ==
    /\ Len(todo) = 3 /\ WriteFits(todo[3]) /\ IsPair(todo[2], todo[3]) /\ todo[3].path = Queue
    /\ todo[1].op = "unlink" /\ todo[1].path = Queue /\ todo[1].id = todo[3].id
ToMark ==
    /\ Len(todo) = 1 /\ todo[1].op = "create" /\ todo[1].path = DetDone(Queue)
    /\ todo[1].id + 1 \in DOMAIN mem /\ mem[todo[1].id + 1].passedDet
    /\ Others(todo[1]) = {}
ToReport ==
    /\ Len(todo) \in {1, 2} /\ todo[Len(todo)].op = "stats"
    /\ Len(todo) = 2 => todo[1].op = "truncate"

(* The entries that are about to be written. *)
Pending == {todo[k].input : k \in {j \in DOMAIN todo : todo[j].op = "write" /\ todo[j].path = Queue}}

(* Fuzzing. *)
Fuzzing ==
    /\ Runs
    /\ mem # << >>
    /\ InMemory
    /\ NoOldQueue
    /\ todo = << >> \/ ToWrite \/ ToMake \/ ToReplace \/ ToMark \/ ToReport
    /\ saved \subseteq atRisk \cup Holds(Queue) \cup Pending
    /\ CrashesKept

(* The inductive invariant. *)
Inv == Typed /\ Tree /\ (Rest \/ Starting \/ Importing \/ Fuzzing)

-----------------------------------------------------------------------------
(* Paths. *)

Bases == {Queue, Resume}
Leaves == {Synced, Crashes, Hangs}
Names == {"queue", "_resume", ".synced", "crashes", "hangs", ".state"} \cup Range(StateDirs)

(* Short sequences. *)
LEMMA Single ==
    ASSUME NEW S, NEW m \in S
    PROVE  <<m>> \in Seq(S) /\ Len(<<m>>) = 1 /\ <<m>>[1] = m
OBVIOUS

LEMMA Double ==
    ASSUME NEW S, NEW m \in S, NEW n \in S
    PROVE  <<m, n>> \in Seq(S) /\ Len(<<m, n>>) = 2 /\ <<m, n>>[1] = m /\ <<m, n>>[2] = n
OBVIOUS

LEMMA AppendTo ==
    ASSUME NEW S, NEW d \in Seq(S), NEW a \in S, NEW n \in Nat, Len(d) = n
    PROVE  /\ Append(d, a) \in Seq(S) /\ Len(Append(d, a)) = n + 1
           /\ \A i \in 1 .. n : Append(d, a)[i] = d[i]
           /\ Append(d, a)[n + 1] = a
<1>1. Append(d, a) \in Seq(S)
  OBVIOUS
<1>2. Len(Append(d, a)) = n + 1
  OBVIOUS
<1>3. \A i \in 1 .. n : Append(d, a)[i] = d[i]
  OBVIOUS
<1>4. Append(d, a)[n + 1] = a
  OBVIOUS
<1> QED BY <1>1, <1>2, <1>3, <1>4, Zenon

LEMMA ConcatTo ==
    ASSUME NEW S, NEW d \in Seq(S), NEW a \in S, NEW b \in S, Len(d) = 1
    PROVE  /\ d \o <<a, b>> \in Seq(S) /\ Len(d \o <<a, b>>) = 3
           /\ (d \o <<a, b>>)[1] = d[1] /\ (d \o <<a, b>>)[2] = a /\ (d \o <<a, b>>)[3] = b
<1>1. <<a, b>> \in Seq(S) /\ Len(<<a, b>>) = 2 /\ <<a, b>>[1] = a /\ <<a, b>>[2] = b
  BY Double
<1> DEFINE ab == <<a, b>>
<1> HIDE DEF ab
<1>2. /\ d \o ab \in Seq(S) /\ Len(d \o ab) = Len(d) + Len(ab)
      /\ \A i \in 1 .. Len(d) + Len(ab) : (d \o ab)[i] = IF i <= Len(d) THEN d[i] ELSE ab[i - Len(d)]
  BY <1>1, ConcatProperties, Zenon DEF ab
<1> DEFINE e == d \o ab
<1> HIDE DEF e
<1>3. e \in Seq(S) /\ Len(e) = 3 /\ e[1] = d[1] /\ e[2] = ab[1] /\ e[3] = ab[2]
  BY <1>1, <1>2 DEF e, ab
<1> QED BY <1>1, <1>3 DEF e, ab

LEMMA FrontOf ==
    ASSUME NEW S, NEW d \in Seq(S), Len(d) >= 1
    PROVE  Front(d) \in Seq(S) /\ Len(Front(d)) = Len(d) - 1 /\ \A i \in 1 .. Len(d) - 1 : Front(d)[i] = d[i]
<1>1. \A i \in 1 .. Len(d) - 1 : d[i] \in S
  OBVIOUS
<1>2. Len(d) \in Nat /\ Len(d) - 1 \in Int /\ 1 \in Int
  OBVIOUS
<1> DEFINE n == Len(d) - 1
           e == SubSeq(d, 1, n)
<1> HIDE DEF n
<1>3. e \in Seq(S) /\ Len(e) = (IF 1 <= n THEN n - 1 + 1 ELSE 0) /\ \A i \in 1 .. n - 1 + 1 : e[i] = d[1 + i - 1]
  BY <1>1, <1>2, SubSeqProperties DEF n
<1> HIDE DEF e
<1>4. n \in Nat
  BY <1>2 DEF n
<1>5. Len(e) = n
  BY <1>3, <1>4
<1>6. \A i \in 1 .. n : e[i] = d[i]
  BY <1>3, <1>4
<1>7. Front(d) = e
  BY DEF Front, e, n
<1> QED BY <1>3, <1>5, <1>6, <1>7, Zenon DEF n

(* The paths as sequences of names. *)
LEMMA TopPath ==
    /\ Queue \in Seq(Names) /\ Len(Queue) = 1 /\ Queue[1] = "queue"
    /\ Resume \in Seq(Names) /\ Len(Resume) = 1 /\ Resume[1] = "_resume"
    /\ Synced \in Seq(Names) /\ Len(Synced) = 1 /\ Synced[1] = ".synced"
    /\ Crashes \in Seq(Names) /\ Len(Crashes) = 1 /\ Crashes[1] = "crashes"
    /\ Hangs \in Seq(Names) /\ Len(Hangs) = 1 /\ Hangs[1] = "hangs"
<1>1. "queue" \in Names /\ "_resume" \in Names /\ ".synced" \in Names /\ "crashes" \in Names /\ "hangs" \in Names
  BY DEF Names
<1>2. \A m \in Names : <<m>> \in Seq(Names) /\ Len(<<m>>) = 1 /\ <<m>>[1] = m
  BY Single
<1> QED BY <1>1, <1>2, Zenon DEF Queue, Resume, Synced, Crashes, Hangs

LEMMA StateNames ==
    /\ N \in Nat /\ N >= 1 /\ \A j \in 1 .. N : StateDirs[j] \in Range(StateDirs)
    /\ \A s \in Range(StateDirs) : \E j \in 1 .. N : s = StateDirs[j]
    /\ \A j, k \in 1 .. N : StateDirs[j] = StateDirs[k] => j = k
    /\ "deterministic_done" \in Range(StateDirs)
<1>1. Len(StateDirs) \in Nat /\ DOMAIN StateDirs = 1 .. Len(StateDirs)
  BY StateDirsTyped
<1>2. "deterministic_done" \in Range(StateDirs)
  BY StateDirsTyped
<1>3. /\ \A j \in 1 .. N : StateDirs[j] \in Range(StateDirs)
      /\ \A s \in Range(StateDirs) : \E j \in 1 .. N : s = StateDirs[j]
  BY <1>1 DEF N, Range
<1>4. N >= 1
  BY <1>1, <1>2, <1>3 DEF N
<1>5. \A j, k \in 1 .. N : StateDirs[j] = StateDirs[k] => j = k
  BY <1>1, StateDirsTyped DEF N
<1> QED BY <1>1, <1>2, <1>3, <1>4, <1>5 DEF N

LEMMA StatePath ==
    ASSUME NEW d \in Bases
    PROVE  /\ d \in Seq(Names) /\ Len(d) = 1
           /\ State(d) \in Seq(Names) /\ Len(State(d)) = 2 /\ State(d)[1] = d[1] /\ State(d)[2] = ".state"
<1> DEFINE a == ".state"
           n == Len(d)
<1>1. a \in Names /\ d \in Seq(Names) /\ Len(d) = 1
  BY TopPath DEF Bases, Names
<1>2. n \in Nat /\ Len(d) = n
  BY <1>1
<1> HIDE DEF a, n
<1>3. /\ Append(d, a) \in Seq(Names) /\ Len(Append(d, a)) = n + 1
      /\ \A i \in 1 .. n : Append(d, a)[i] = d[i]
      /\ Append(d, a)[n + 1] = a
  BY <1>1, <1>2, AppendTo
<1> DEFINE e == Append(d, a)
<1> HIDE DEF e
<1>4. e \in Seq(Names) /\ Len(e) = 2 /\ e[1] = d[1] /\ e[2] = a
  BY <1>1, <1>3 DEF e, n
<1> QED BY <1>1, <1>4 DEF State, a, e

LEMMA SubPath ==
    ASSUME NEW d \in Bases, NEW s \in Range(StateDirs)
    PROVE  /\ Sub(d, s) \in Seq(Names) /\ Len(Sub(d, s)) = 3
           /\ Sub(d, s)[1] = d[1] /\ Sub(d, s)[2] = ".state" /\ Sub(d, s)[3] = s
<1>1. ".state" \in Names /\ s \in Names /\ d \in Seq(Names) /\ Len(d) = 1
  BY TopPath DEF Bases, Names
<1> DEFINE a == ".state"
<1> HIDE DEF a
<1>2. a \in Names
  BY <1>1 DEF a
<1>3. /\ d \o <<a, s>> \in Seq(Names) /\ Len(d \o <<a, s>>) = 3
      /\ (d \o <<a, s>>)[1] = d[1] /\ (d \o <<a, s>>)[2] = a /\ (d \o <<a, s>>)[3] = s
  BY <1>1, <1>2, ConcatTo
<1> QED BY <1>3 DEF Sub, a

(* Where a directory lies. *)
LEMMA Fronts ==
    /\ \A d \in Bases \cup Leaves : Front(d) = << >>
    /\ \A d \in Bases : Front(State(d)) = d /\ \A s \in Range(StateDirs) : Front(Sub(d, s)) = State(d)
<1>1. ASSUME NEW d \in Bases \cup Leaves PROVE Front(d) = << >>
  <2>1. d \in Seq(Names) /\ Len(d) = 1
    BY TopPath DEF Bases, Leaves
  <2>2. Len(d) >= 1
    BY <2>1
  <2>3. Front(d) \in Seq(Names) /\ Len(Front(d)) = Len(d) - 1
    BY <2>1, <2>2, FrontOf, Zenon
  <2> DEFINE f == Front(d)
  <2> HIDE DEF f
  <2>4. f = << >>
    BY <2>1, <2>3 DEF f
  <2> QED BY <2>4 DEF f
<1>2. ASSUME NEW d \in Bases PROVE Front(State(d)) = d
  <2>1. State(d) \in Seq(Names) /\ Len(State(d)) = 2 /\ State(d)[1] = d[1] /\ d \in Seq(Names) /\ Len(d) = 1
    BY StatePath
  <2>a. Len(State(d)) >= 1
    BY <2>1
  <2>2. Front(State(d)) \in Seq(Names) /\ Len(Front(State(d))) = Len(State(d)) - 1
        /\ \A i \in 1 .. Len(State(d)) - 1 : Front(State(d))[i] = State(d)[i]
    BY <2>1, <2>a, FrontOf, Zenon
  <2> DEFINE e == Front(State(d))
             c == State(d)
  <2> HIDE DEF e, c
  <2>3. e \in Seq(Names) /\ Len(e) = Len(d) /\ \A i \in 1 .. Len(e) : e[i] = d[i]
    BY <2>1, <2>2 DEF e, c
  <2>4. e = d
    BY <2>1, <2>3, SeqEqual
  <2> QED BY <2>4 DEF e
<1>3. ASSUME NEW d \in Bases, NEW s \in Range(StateDirs) PROVE Front(Sub(d, s)) = State(d)
  <2> DEFINE p == Sub(d, s)
             e == Front(p)
             c == State(d)
  <2>1. c \in Seq(Names) /\ Len(c) = 2 /\ c[1] = d[1] /\ c[2] = ".state"
    BY StatePath
  <2>2. p \in Seq(Names) /\ Len(p) = 3 /\ p[1] = d[1] /\ p[2] = ".state"
    BY SubPath
  <2> HIDE DEF p, c
  <2>a. Len(p) >= 1
    BY <2>2
  <2>3. e \in Seq(Names) /\ Len(e) = Len(p) - 1 /\ \A i \in 1 .. Len(p) - 1 : e[i] = p[i]
    BY <2>2, <2>a, FrontOf, Zenon
  <2> HIDE DEF e
  <2>4. Len(e) = Len(c) /\ \A i \in 1 .. Len(e) : e[i] = c[i]
    BY <2>1, <2>2, <2>3
  <2>5. e = c
    BY <2>1, <2>3, <2>4, SeqEqual
  <2> QED BY <2>5 DEF e, c, p
<1> QED BY <1>1, <1>2, <1>3

(* No two paths that the proofs tell apart are equal. *)
LEMMA PathsDiffer ==
    /\ Queue # Resume /\ Queue # Synced /\ Queue # Crashes /\ Queue # Hangs
    /\ Resume # Synced /\ Resume # Crashes /\ Resume # Hangs
    /\ Synced # Crashes /\ Synced # Hangs /\ Crashes # Hangs
    /\ \A d \in Bases \cup Leaves : d # << >>
    /\ \A d \in Bases : State(d) \notin Bases \cup Leaves \cup {<< >>}
    /\ State(Queue) # State(Resume)
    /\ \A d \in Bases, s \in Range(StateDirs) :
         /\ Sub(d, s) \notin Bases \cup Leaves \cup {<< >>}
         /\ \A e \in Bases : Sub(d, s) # State(e) /\ (\A t \in Range(StateDirs) : Sub(d, s) = Sub(e, t) => d = e /\ s = t)
<1>0. Queue[1] # Resume[1]
  BY TopPath
<1>a. /\ Queue # Resume /\ Queue # Synced /\ Queue # Crashes /\ Queue # Hangs
      /\ Resume # Synced /\ Resume # Crashes /\ Resume # Hangs
      /\ Synced # Crashes /\ Synced # Hangs /\ Crashes # Hangs
  BY TopPath
<1>b. \A d \in Bases \cup Leaves : d # << >> /\ Len(d) = 1
  BY TopPath DEF Bases, Leaves
<1>c. \A d \in Bases \cup Leaves \cup {<< >>} : Len(d) = 1 \/ Len(d) = 0
  BY <1>b
<1>1. \A d \in Bases : State(d) \notin Bases \cup Leaves \cup {<< >>}
  BY StatePath, <1>c
<1>2. State(Queue) # State(Resume)
  BY <1>0, StatePath DEF Bases
<1>4. ASSUME NEW d \in Bases, NEW s \in Range(StateDirs)
      PROVE  /\ Sub(d, s) \notin Bases \cup Leaves \cup {<< >>}
             /\ \A e \in Bases : Sub(d, s) # State(e) /\ (\A t \in Range(StateDirs) : Sub(d, s) = Sub(e, t) => d = e /\ s = t)
  <2>1. Len(Sub(d, s)) = 3 /\ Sub(d, s)[1] = d[1] /\ Sub(d, s)[3] = s
    BY SubPath
  <2>2. ASSUME NEW e \in Bases, NEW t \in Range(StateDirs), Sub(d, s) = Sub(e, t)
        PROVE  d = e /\ s = t
    <3>1. Sub(e, t)[1] = e[1] /\ Sub(e, t)[3] = t
      BY SubPath
    <3>2. d[1] = e[1] /\ s = t
      BY <2>1, <2>2, <3>1, Zenon
    <3> QED BY <3>2, <1>0 DEF Bases
  <2>3. \A e \in Bases : Sub(d, s) # State(e)
    BY <2>1, StatePath
  <2>4. Sub(d, s) \notin Bases \cup Leaves \cup {<< >>}
    BY <2>1, <1>c
  <2> QED BY <2>2, <2>3, <2>4
<1> QED BY <1>a, <1>b, <1>1, <1>2, <1>4

(* What lies below a directory. *)
LEMMA Longer ==
    ASSUME NEW S, NEW p \in Seq(S), NEW q \in Seq(S), IsStrictPrefix(p, q)
    PROVE  Len(p) < Len(q) /\ (Len(p) >= 1 => p[1] = q[1])
<1>1. Len(p) <= Len(q) /\ p # q /\ SubSeq(p, 1, Len(p)) = SubSeq(q, 1, Len(p))
  BY DEF IsStrictPrefix, IsPrefix
<1>2. Len(p) \in Nat /\ Len(q) \in Nat /\ 1 \in Int /\ Len(p) \in Int
      /\ (\A i \in 1 .. Len(p) : p[i] \in S) /\ (\A i \in 1 .. Len(p) : q[i] \in S)
  BY <1>1
<1> DEFINE n == Len(p)
           a == SubSeq(p, 1, n)
           b == SubSeq(q, 1, n)
<1> HIDE DEF n
<1>3. (\A i \in 1 .. n - 1 + 1 : a[i] = p[1 + i - 1]) /\ (\A i \in 1 .. n - 1 + 1 : b[i] = q[1 + i - 1])
  BY <1>2, SubSeqProperties DEF n
<1>4. a = b
  BY <1>1 DEF n
<1> HIDE DEF a, b
<1>5. \A i \in 1 .. n : p[i] = q[i]
  BY <1>2, <1>3, <1>4 DEF n
<1>6. Len(p) # Len(q)
  <2> SUFFICES ASSUME Len(p) = Len(q) PROVE FALSE
    OBVIOUS
  <2>1. p = q
    BY <1>5, SeqEqual DEF n
  <2> QED BY <2>1, <1>1
<1> QED BY <1>1, <1>2, <1>5, <1>6 DEF n

LEMMA Below ==
    ASSUME NEW e \in KnownDirs
    PROVE  /\ \A d \in Bases : IsStrictPrefix(d, e) => (e = State(d) \/ \E s \in Range(StateDirs) : e = Sub(d, s))
           /\ \A d \in Bases : IsStrictPrefix(State(d), e) => \E s \in Range(StateDirs) : e = Sub(d, s)
           /\ \A d \in Bases, s \in Range(StateDirs) : ~IsStrictPrefix(Sub(d, s), e)
           /\ \A d \in Leaves : ~IsStrictPrefix(d, e)
<1>0. Queue[1] # Resume[1] /\ \A d \in Bases, t \in Leaves : t[1] # d[1]
  BY TopPath DEF Bases, Leaves
<1>3. \A d \in Bases \cup Leaves : d \in Seq(Names) /\ Len(d) = 1
  BY TopPath DEF Bases, Leaves
<1>2. e \in Seq(Names)
  <2>1. CASE e \in Leaves
    BY <2>1, <1>3
  <2>2. CASE e = << >>
    BY <2>2
  <2>3. ASSUME NEW d \in Bases, e \in Family(d) PROVE e \in Seq(Names)
    BY <2>3, StatePath, SubPath DEF Family
  <2> QED BY <2>1, <2>2, <2>3 DEF KnownDirs, Bases, Leaves
<1> DEFINE n == Len(e)
<1>a. n \in Nat
  BY <1>2
<1>b. n > 1 => \E d \in Bases : e \in Family(d)
  <2>1. e = << >> => n = 0
    OBVIOUS
  <2>2. e \in Leaves => n = 1
    BY <1>3
  <2>3. e = << >> \/ e \in Leaves \/ \E d \in Bases : e \in Family(d)
    BY DEF KnownDirs, Bases, Leaves
  <2> HIDE DEF n
  <2>4. n > 1 => n # 0 /\ n # 1
    OBVIOUS
  <2> QED BY <2>1, <2>2, <2>3, <2>4, Zenon
<1>4. ASSUME NEW d \in Bases, e \in Family(d)
      PROVE  \/ e = d /\ n = 1
             \/ e = State(d) /\ n = 2 /\ e[1] = d[1]
             \/ \E s \in Range(StateDirs) : e = Sub(d, s) /\ n = 3 /\ e[1] = d[1]
  <2>1. e = d => n = 1
    BY StatePath
  <2>2. e = State(d) => n = 2 /\ e[1] = d[1]
    BY StatePath
  <2>3. \A s \in Range(StateDirs) : e = Sub(d, s) => n = 3 /\ e[1] = d[1]
    BY SubPath
  <2> HIDE DEF n
  <2> QED BY <1>4, <2>1, <2>2, <2>3, Zenon DEF Family
<1>c. ASSUME NEW p \in Seq(Names), IsStrictPrefix(p, e)
      PROVE  Len(p) < n /\ (Len(p) >= 1 => p[1] = e[1])
  <2>1. Len(p) < Len(e)
    BY <1>2, <1>c, Longer
  <2>2. Len(p) >= 1 => p[1] = e[1]
    BY <1>2, <1>c, Longer
  <2> QED BY <2>1, <2>2, Zenon
<1> HIDE DEF n
<1>d. ASSUME NEW d \in Bases, n > 1, e[1] = d[1]
      PROVE  \/ e = State(d) /\ n = 2
             \/ \E s \in Range(StateDirs) : e = Sub(d, s) /\ n = 3
  <2>1. PICK b \in Bases : e \in Family(b)
    BY <1>d, <1>b
  <2>2. n # 1
    BY <1>a, <1>d
  <2>3. e[1] = b[1]
    BY <1>4, <2>1, <2>2, Zenon
  <2>4. b = d
    <3>1. b[1] = d[1]
      BY <1>d, <2>3
    <3> QED BY <3>1, <1>0 DEF Bases
  <2>5. e \in Family(d)
    BY <2>1, <2>4
  <2> QED BY <1>4, <2>2, <2>5, Zenon
<1>5. ASSUME NEW d \in Bases, IsStrictPrefix(d, e)
      PROVE  e = State(d) \/ \E s \in Range(StateDirs) : e = Sub(d, s)
  <2>1. d \in Seq(Names) /\ Len(d) = 1
    BY <1>3
  <2>2. Len(d) < n /\ (Len(d) >= 1 => d[1] = e[1])
    BY <1>c, <1>5, <2>1, Zenon
  <2>3. n > 1 /\ e[1] = d[1]
    BY <2>1, <2>2
  <2> QED BY <1>d, <2>3, Zenon
<1>6. ASSUME NEW d \in Bases, IsStrictPrefix(State(d), e)
      PROVE  \E s \in Range(StateDirs) : e = Sub(d, s)
  <2>1. State(d) \in Seq(Names) /\ Len(State(d)) = 2 /\ State(d)[1] = d[1]
    BY StatePath
  <2>2. Len(State(d)) < n /\ (Len(State(d)) >= 1 => State(d)[1] = e[1])
    BY <1>c, <1>6, <2>1, Zenon
  <2>3. n > 1 /\ n # 2 /\ e[1] = d[1]
    BY <2>1, <2>2, <1>a
  <2> QED BY <1>d, <2>3, Zenon
<1>7. ASSUME NEW d \in Bases, NEW s \in Range(StateDirs), IsStrictPrefix(Sub(d, s), e)
      PROVE  FALSE
  <2>1. Sub(d, s) \in Seq(Names) /\ Len(Sub(d, s)) = 3
    BY SubPath
  <2>2. Len(Sub(d, s)) < n
    BY <1>c, <1>7, <2>1, Zenon
  <2>3. n > 1 /\ n # 1 /\ n # 2 /\ n # 3
    BY <2>1, <2>2, <1>a
  <2>4. PICK b \in Bases : e \in Family(b)
    BY <2>3, <1>b
  <2> QED BY <1>4, <2>3, <2>4, Zenon
<1>8. ASSUME NEW d \in Leaves, IsStrictPrefix(d, e)
      PROVE  FALSE
  <2>1. d \in Seq(Names) /\ Len(d) = 1
    BY <1>3
  <2>2. Len(d) < n /\ (Len(d) >= 1 => d[1] = e[1])
    BY <1>c, <1>8, <2>1, Zenon
  <2>3. n > 1 /\ n # 1 /\ e[1] = d[1]
    BY <2>1, <2>2, <1>a
  <2>4. PICK b \in Bases : e \in Family(b)
    BY <2>3, <1>b
  <2>5. e[1] = b[1]
    BY <1>4, <2>3, <2>4, Zenon
  <2> QED BY <2>3, <2>5, <1>0
<1> QED BY <1>5, <1>6, <1>7, <1>8

(* The directories a rename of queue takes along. *)
LEMMA MovedTo ==
    /\ \A e \in {<< >>} \cup Leaves \cup Family(Resume) : Moved(Queue, Resume, e) = e
    /\ Moved(Queue, Resume, Queue) = Resume
    /\ Moved(Queue, Resume, State(Queue)) = State(Resume)
    /\ \A s \in Range(StateDirs) : Moved(Queue, Resume, Sub(Queue, s)) = Sub(Resume, s)
<1>0. Queue[1] # Resume[1] /\ (\A t \in Leaves : t[1] # Queue[1]) /\ Len(Queue) = 1 /\ Queue \in Seq(Names)
      /\ Len(Resume) = 1 /\ Resume \in Seq(Names)
  BY TopPath DEF Leaves
<1>1. ASSUME NEW e \in Seq(Names), Len(e) >= 1
      PROVE  IsPrefix(Queue, e) <=> e[1] = Queue[1]
  <2> DEFINE a == SubSeq(Queue, 1, 1)
             b == SubSeq(e, 1, 1)
  <2>0. (\A i \in 1 .. 1 : Queue[i] \in Names) /\ (\A i \in 1 .. 1 : e[i] \in Names) /\ 1 \in Int
    BY <1>0, <1>1
  <2>1. /\ a \in Seq(Names) /\ Len(a) = (IF 1 <= 1 THEN 1 - 1 + 1 ELSE 0) /\ \A i \in 1 .. 1 - 1 + 1 : a[i] = Queue[1 + i - 1]
    BY <2>0, SubSeqProperties
  <2>2. /\ b \in Seq(Names) /\ Len(b) = (IF 1 <= 1 THEN 1 - 1 + 1 ELSE 0) /\ \A i \in 1 .. 1 - 1 + 1 : b[i] = e[1 + i - 1]
    BY <2>0, SubSeqProperties
  <2>3. IsPrefix(Queue, e) <=> a = b
    BY <1>0, <1>1 DEF IsPrefix
  <2> HIDE DEF a, b
  <2>4. a \in Seq(Names) /\ Len(a) = 1 /\ a[1] = Queue[1] /\ b \in Seq(Names) /\ Len(b) = 1 /\ b[1] = e[1]
    BY <2>1, <2>2
  <2>5. a[1] = b[1] => a = b
    BY <2>4, SeqEqual
  <2> QED BY <2>3, <2>4, <2>5
<1>2. ASSUME NEW e \in {<< >>} \cup Leaves \cup Family(Resume)
      PROVE  Moved(Queue, Resume, e) = e
  <2>1. e = << >> \/ (e \in Seq(Names) /\ Len(e) >= 1 /\ e[1] # Queue[1])
    BY TopPath, StatePath, SubPath, <1>0 DEF Leaves, Family, Bases
  <2>2. ~IsPrefix(Queue, e)
    <3>1. CASE e = << >>
      BY <3>1, <1>0 DEF IsPrefix
    <3> QED BY <3>1, <2>1, <1>1
  <2> QED BY <2>2 DEF Moved
<1>3. ASSUME NEW e \in Seq(Names), NEW f \in Seq(Names), Len(e) >= 1, Len(e) = Len(f), e[1] = Queue[1], f[1] = Resume[1],
             \A i \in 2 .. Len(e) : e[i] = f[i]
      PROVE  Moved(Queue, Resume, e) = f
  <2> DEFINE n == Len(e)
             r == SubSeq(e, 2, n)
             m == Resume \o r
  <2>1. n \in Nat /\ 2 \in Int /\ n \in Int /\ \A i \in 2 .. n : e[i] \in Names
    OBVIOUS
  <2>2. IsPrefix(Queue, e)
    BY <1>1, <1>3
  <2>3. Len(Queue) + 1 = 2
    BY <1>0
  <2>4. Moved(Queue, Resume, e) = m
    BY <2>2, <2>3 DEF Moved
  <2> HIDE DEF n
  <2>5. r \in Seq(Names) /\ Len(r) = (IF 2 <= n THEN n - 2 + 1 ELSE 0) /\ \A i \in 1 .. n - 2 + 1 : r[i] = e[2 + i - 1]
    BY <2>1, SubSeqProperties
  <2> HIDE DEF r
  <2>6. n >= 1
    BY <1>3 DEF n
  <2>7. Len(r) = n - 1 /\ \A i \in 1 .. n - 1 : r[i] = e[i + 1]
    BY <2>1, <2>5, <2>6
  <2>8. /\ m \in Seq(Names) /\ Len(m) = Len(Resume) + Len(r)
        /\ \A i \in 1 .. Len(Resume) + Len(r) : m[i] = IF i <= Len(Resume) THEN Resume[i] ELSE r[i - Len(Resume)]
    BY <1>0, <2>5, ConcatProperties, Zenon
  <2> HIDE DEF m
  <2>9. Len(m) = n /\ m[1] = Resume[1] /\ \A i \in 2 .. n : m[i] = r[i - 1]
    BY <1>0, <2>1, <2>6, <2>7, <2>8
  <2>10. \A i \in 2 .. n : m[i] = e[i]
    BY <2>1, <2>7, <2>9
  <2>11. \A i \in 1 .. Len(m) : m[i] = f[i]
    BY <1>3, <2>1, <2>9, <2>10 DEF n
  <2>12. m = f
    BY <1>3, <2>8, <2>9, <2>11, SeqEqual DEF n
  <2> QED BY <2>4, <2>12
<1>4. Moved(Queue, Resume, Queue) = Resume
  BY <1>0, <1>3
<1>5. Moved(Queue, Resume, State(Queue)) = State(Resume)
  <2> DEFINE e == State(Queue)
             f == State(Resume)
  <2>1. e \in Seq(Names) /\ f \in Seq(Names) /\ Len(e) = 2 /\ Len(f) = 2
        /\ e[1] = Queue[1] /\ f[1] = Resume[1] /\ e[2] = f[2]
    BY StatePath DEF Bases
  <2> HIDE DEF e, f
  <2>2. \A i \in 2 .. Len(e) : e[i] = f[i]
    BY <2>1
  <2>3. Moved(Queue, Resume, e) = f
    BY <2>1, <2>2, <1>3
  <2> QED BY <2>3 DEF e, f
<1>6. ASSUME NEW s \in Range(StateDirs) PROVE Moved(Queue, Resume, Sub(Queue, s)) = Sub(Resume, s)
  <2> DEFINE e == Sub(Queue, s)
             f == Sub(Resume, s)
  <2>1. e \in Seq(Names) /\ f \in Seq(Names) /\ Len(e) = 3 /\ Len(f) = 3
        /\ e[1] = Queue[1] /\ f[1] = Resume[1] /\ e[2] = f[2] /\ e[3] = f[3]
    BY SubPath DEF Bases
  <2> HIDE DEF e, f
  <2>2. \A i \in 2 .. Len(e) : e[i] = f[i]
    BY <2>1
  <2>3. Moved(Queue, Resume, e) = f
    BY <2>1, <2>2, <1>3
  <2> QED BY <2>3 DEF e, f
<1> QED BY <1>2, <1>4, <1>5, <1>6

-----------------------------------------------------------------------------
(* The commands of CleanUp, MakeDirs and EmptyQueue, one by one. *)

LEMMA CatMore ==
    ASSUME NEW S, NEW s \in Seq(S), NEW t \in Seq(S)
    PROVE  /\ s \o t \in Seq(S) /\ Len(s \o t) = Len(s) + Len(t)
           /\ \A i \in 1 .. Len(s) : (s \o t)[i] = s[i]
           /\ \A i \in 1 .. Len(t) : (s \o t)[Len(s) + i] = t[i]
<1>1. /\ s \o t \in Seq(S) /\ Len(s \o t) = Len(s) + Len(t)
      /\ \A i \in 1 .. Len(s) + Len(t) : (s \o t)[i] = IF i <= Len(s) THEN s[i] ELSE t[i - Len(s)]
  BY ConcatProperties, Zenon
<1> DEFINE e == s \o t
           n == Len(s)
           m == Len(t)
<1>2. n \in Nat /\ m \in Nat
  OBVIOUS
<1> HIDE DEF e, n, m
<1>3. e \in Seq(S) /\ Len(e) = n + m
  BY <1>1 DEF e, n, m
<1>4. \A i \in 1 .. n + m : e[i] = IF i <= n THEN s[i] ELSE t[i - n]
  BY <1>1, Zenon DEF e, n, m
<1>5. \A i \in 1 .. n : e[i] = s[i]
  BY <1>2, <1>4
<1>6. ASSUME NEW i \in 1 .. m PROVE e[n + i] = t[i]
  <2>1. n + i \in 1 .. n + m /\ ~(n + i <= n) /\ (n + i) - n = i
    BY <1>2
  <2> QED BY <1>4, <2>1
<1> QED BY <1>3, <1>5, <1>6, Zenon DEF e, n, m

LEMMA CatOne ==
    ASSUME NEW S, NEW s \in Seq(S), NEW c \in S
    PROVE  /\ s \o <<c>> \in Seq(S) /\ Len(s \o <<c>>) = Len(s) + 1
           /\ \A i \in 1 .. Len(s) : (s \o <<c>>)[i] = s[i]
           /\ (s \o <<c>>)[Len(s) + 1] = c
<1> DEFINE t == <<c>>
<1>1. t \in Seq(S) /\ Len(t) = 1 /\ t[1] = c /\ 1 \in 1 .. 1
  BY Single
<1> HIDE DEF t
<1>2. /\ s \o t \in Seq(S) /\ Len(s \o t) = Len(s) + Len(t)
      /\ \A i \in 1 .. Len(s) : (s \o t)[i] = s[i]
      /\ \A i \in 1 .. Len(t) : (s \o t)[Len(s) + i] = t[i]
  BY <1>1, CatMore
<1>3. (s \o t)[Len(s) + 1] = c
  BY <1>1, <1>2
<1> QED BY <1>1, <1>2, <1>3, Zenon DEF t

(* Every command on a known path is a command. *)
LEMMA CommandType ==
    /\ \A op \in Ops, path \in Paths : Do(op, path) \in Command
    /\ \A op \in Ops, path \in Paths, id \in Int, input \in Int : DoFile(op, File(path, id, input)) \in Command
<1>1. NoId \in Int /\ Empty \in Int
  BY DEF NoId, Empty
<1>2. ASSUME NEW op \in Ops, NEW path \in Paths, NEW id \in Int, NEW input \in Int
      PROVE  DoFile(op, File(path, id, input)) \in Command
  BY DEF DoFile, File, Command
<1>3. ASSUME NEW op \in Ops, NEW path \in Paths
      PROVE  Do(op, path) \in Command
  BY <1>1 DEF Do, Command
<1> QED BY <1>2, <1>3

LEMMA KnownPaths ==
    /\ << >> \in KnownDirs /\ Synced \in KnownDirs /\ Crashes \in KnownDirs /\ Hangs \in KnownDirs
    /\ \A d \in Bases : d \in KnownDirs /\ State(d) \in KnownDirs /\ \A s \in Range(StateDirs) : Sub(d, s) \in KnownDirs
    /\ KnownDirs \subseteq Paths
    /\ CurInput \in Paths /\ PlotData \in Paths /\ <<"fuzz_bitmap">> \in Paths /\ <<"fuzzer_stats">> \in Paths
BY DEF KnownDirs, Paths, Family, Bases

(* The commands of All, StateSubs, EmptyQueue and MakeDirs by their places. *)
LEMMA AllAt ==
    ASSUME NEW op \in Ops, NEW paths \in Seq(Paths), NEW n \in Nat, Len(paths) = n
    PROVE  /\ All(op, paths) \in Seq(Command) /\ Len(All(op, paths)) = n
           /\ \A k \in 1 .. n : All(op, paths)[k] = Do(op, paths[k])
<1>1. DOMAIN paths = 1 .. n /\ \A k \in 1 .. n : paths[k] \in Paths
  OBVIOUS
<1>2. All(op, paths) = [k \in 1 .. n |-> Do(op, paths[k])]
  BY <1>1 DEF All
<1>3. \A k \in 1 .. n : Do(op, paths[k]) \in Command
  BY <1>1, CommandType
<1> DEFINE e == [k \in 1 .. n |-> Do(op, paths[k])]
<1>4. e \in Seq(Command) /\ Len(e) = n /\ \A k \in 1 .. n : e[k] = Do(op, paths[k])
  BY <1>3
<1> QED BY <1>2, <1>4

LEMMA StateSubsAt ==
    ASSUME NEW d \in Bases
    PROVE  StateSubs(d) \in Seq(Paths) /\ Len(StateSubs(d)) = N /\ \A k \in 1 .. N : StateSubs(d)[k] = Sub(d, StateDirs[k])
<1>1. DOMAIN StateDirs = 1 .. N /\ N \in Nat
  BY StateDirsTyped DEF N
<1>2. \A k \in 1 .. N : Sub(d, StateDirs[k]) \in Paths
  BY StateNames, KnownPaths
<1>3. StateSubs(d) = [k \in 1 .. N |-> Sub(d, StateDirs[k])]
  BY <1>1 DEF StateSubs
<1> DEFINE e == [k \in 1 .. N |-> Sub(d, StateDirs[k])]
<1>4. e \in Seq(Paths) /\ Len(e) = N /\ \A k \in 1 .. N : e[k] = Sub(d, StateDirs[k])
  BY <1>1, <1>2
<1> QED BY <1>3, <1>4

LEMMA EmptyQueueAt ==
    ASSUME NEW d \in Bases
    PROVE  /\ EmptyQueue(d) \in Seq(Command) /\ Len(EmptyQueue(d)) = N + 2
           /\ \A j \in 1 .. N : EmptyQueue(d)[j] = Do("clear", Sub(d, StateDirs[j]))
           /\ EmptyQueue(d)[N + 1] = Do("rmdir", State(d))
           /\ EmptyQueue(d)[N + 2] = Do("clear", d)
<1> DEFINE a == All("clear", StateSubs(d))
           c1 == Do("rmdir", State(d))
           c2 == Do("clear", d)
           t == <<c1, c2>>
<1>1. N \in Nat /\ "clear" \in Ops /\ "rmdir" \in Ops
  BY StateNames DEF Ops
<1>2. a \in Seq(Command) /\ Len(a) = N /\ \A k \in 1 .. N : a[k] = Do("clear", StateSubs(d)[k])
  BY <1>1, StateSubsAt, AllAt
<1>3. c1 \in Command /\ c2 \in Command
  BY <1>1, CommandType, KnownPaths
<1> HIDE DEF c1, c2
<1>4. t \in Seq(Command) /\ Len(t) = 2 /\ t[1] = c1 /\ t[2] = c2
  BY <1>3, Double
<1>5. EmptyQueue(d) = a \o t
  BY DEF EmptyQueue, c1, c2
<1> HIDE DEF a, t
<1> DEFINE m == 2
<1>6. m \in Nat /\ Len(t) = m /\ m = 2
  BY <1>4
<1> HIDE DEF m
<1>7. /\ a \o t \in Seq(Command) /\ Len(a \o t) = N + m
      /\ \A i \in 1 .. N : (a \o t)[i] = a[i]
      /\ \A i \in 1 .. m : (a \o t)[N + i] = t[i]
  <2>1. /\ a \o t \in Seq(Command) /\ Len(a \o t) = Len(a) + Len(t)
        /\ \A i \in 1 .. Len(a) : (a \o t)[i] = a[i]
        /\ \A i \in 1 .. Len(t) : (a \o t)[Len(a) + i] = t[i]
    <3>1. a \in Seq(Command) /\ t \in Seq(Command)
      BY <1>2, <1>4
    <3> QED BY <3>1, CatMore
  <2> QED BY <2>1, <1>2, <1>6, Zenon
<1> DEFINE e == a \o t
<1> HIDE DEF e
<1>8. e \in Seq(Command) /\ Len(e) = N + 2 /\ e[N + 1] = c1 /\ e[N + 2] = c2
  <2>1. 1 \in 1 .. m /\ 2 \in 1 .. m
    BY <1>6
  <2>2. e[N + 1] = t[1] /\ e[N + 2] = t[2]
    BY <1>7, <2>1 DEF e
  <2> QED BY <1>4, <1>6, <1>7, <2>2 DEF e
<1>9. \A j \in 1 .. N : e[j] = Do("clear", Sub(d, StateDirs[j]))
  BY <1>2, <1>7, StateSubsAt DEF e
<1> QED BY <1>5, <1>8, <1>9 DEF e, c1, c2

LEMMA MakeDirsAt ==
    /\ MakeDirs \in Seq(Command) /\ Len(MakeDirs) = N + 6
    /\ MakeDirs[1] = Do("mkdir", Queue) /\ MakeDirs[2] = Do("mkdir", State(Queue))
    /\ \A j \in 1 .. N : MakeDirs[2 + j] = Do("mkdir", Sub(Queue, StateDirs[j]))
    /\ MakeDirs[N + 3] = Do("mkdir", Synced) /\ MakeDirs[N + 4] = Do("mkdir", Crashes)
    /\ MakeDirs[N + 5] = Do("mkdir", Hangs) /\ MakeDirs[N + 6] = Do("create", PlotData)
<1> DEFINE p1 == <<Queue, State(Queue)>>
           p2 == StateSubs(Queue)
           p3 == <<Synced, Crashes, Hangs>>
           p12 == p1 \o p2
           p == p12 \o p3
           a == All("mkdir", p)
           c == Do("create", PlotData)
           two == 2
           three == 3
<1>0. N \in Nat /\ "mkdir" \in Ops /\ "create" \in Ops /\ Queue \in Bases /\ two \in Nat /\ three \in Nat
  BY StateNames DEF Ops, Bases
<1>1. p1 \in Seq(Paths) /\ Len(p1) = 2 /\ p1[1] = Queue /\ p1[2] = State(Queue)
  BY <1>0, KnownPaths, Double
<1>2. p2 \in Seq(Paths) /\ Len(p2) = N /\ \A k \in 1 .. N : p2[k] = Sub(Queue, StateDirs[k])
  BY <1>0, StateSubsAt
<1>3. p3 \in Seq(Paths) /\ Len(p3) = 3 /\ p3[1] = Synced /\ p3[2] = Crashes /\ p3[3] = Hangs
  <2>1. \A x, y, z \in Paths : <<x, y, z>> \in Seq(Paths) /\ Len(<<x, y, z>>) = 3
          /\ <<x, y, z>>[1] = x /\ <<x, y, z>>[2] = y /\ <<x, y, z>>[3] = z
    OBVIOUS
  <2> QED BY <2>1, KnownPaths, Zenon
<1>4. MakeDirs = a \o <<c>>
  BY DEF MakeDirs, PlotData
<1>5. Len(p1) = two /\ Len(p3) = three /\ two = 2 /\ three = 3
  BY <1>1, <1>3
<1> HIDE DEF p1, p2, p3, c, two, three
<1>6. /\ p12 \in Seq(Paths) /\ Len(p12) = two + N
      /\ \A i \in 1 .. two : p12[i] = p1[i]
      /\ \A i \in 1 .. N : p12[two + i] = p2[i]
  <2>1. /\ p12 \in Seq(Paths) /\ Len(p12) = Len(p1) + Len(p2)
        /\ \A i \in 1 .. Len(p1) : p12[i] = p1[i]
        /\ \A i \in 1 .. Len(p2) : p12[Len(p1) + i] = p2[i]
    <3>1. p1 \in Seq(Paths) /\ p2 \in Seq(Paths)
      BY <1>1, <1>2
    <3> QED BY <3>1, CatMore
  <2> HIDE DEF p12
  <2> QED BY <2>1, <1>2, <1>5, Zenon
<1>7. two + N \in Nat
  BY <1>0, <1>5
<1> DEFINE n == two + N
<1> HIDE DEF p12, n
<1>8. /\ p \in Seq(Paths) /\ Len(p) = n + three
      /\ \A i \in 1 .. n : p[i] = p12[i]
      /\ \A i \in 1 .. three : p[n + i] = p3[i]
  <2>1. /\ p \in Seq(Paths) /\ Len(p) = Len(p12) + Len(p3)
        /\ \A i \in 1 .. Len(p12) : p[i] = p12[i]
        /\ \A i \in 1 .. Len(p3) : p[Len(p12) + i] = p3[i]
    <3>1. p12 \in Seq(Paths) /\ p3 \in Seq(Paths)
      BY <1>3, <1>6
    <3> QED BY <3>1, CatMore
  <2>2. Len(p12) = n /\ Len(p3) = three
    BY <1>5, <1>6 DEF n
  <2> HIDE DEF p
  <2> QED BY <2>1, <2>2, Zenon
<1> HIDE DEF p
<1>9. n + three \in Nat /\ n = N + 2 /\ n + three = N + 5
  BY <1>0, <1>5 DEF n
<1>10. /\ a \in Seq(Command) /\ Len(a) = n + three
       /\ \A k \in 1 .. n + three : a[k] = Do("mkdir", p[k])
  BY <1>0, <1>8, <1>9, AllAt, Zenon
<1>11. c \in Command
  BY <1>0, CommandType, KnownPaths DEF c
<1> HIDE DEF a
<1> DEFINE l == n + three
<1>12. l \in Nat /\ Len(a) = l
  BY <1>9, <1>10
<1> HIDE DEF l
<1>13. /\ a \o <<c>> \in Seq(Command) /\ Len(a \o <<c>>) = l + 1
       /\ \A i \in 1 .. l : (a \o <<c>>)[i] = a[i]
       /\ (a \o <<c>>)[l + 1] = c
  <2>1. /\ a \o <<c>> \in Seq(Command) /\ Len(a \o <<c>>) = Len(a) + 1
        /\ \A i \in 1 .. Len(a) : (a \o <<c>>)[i] = a[i]
        /\ (a \o <<c>>)[Len(a) + 1] = c
    BY <1>10, <1>11, CatOne, Zenon
  <2> QED BY <1>12, <2>1, Zenon
<1> DEFINE e == a \o <<c>>
<1> HIDE DEF e
<1>14. l = N + 5
  BY <1>9 DEF l
<1>15. e \in Seq(Command) /\ Len(e) = N + 6 /\ e[N + 6] = c
  BY <1>0, <1>13, <1>14 DEF e
<1>16. \A i \in 1 .. N + 5 : e[i] = Do("mkdir", p[i])
  BY <1>10, <1>13, <1>14 DEF e, l
<1>17. p[1] = Queue /\ p[2] = State(Queue)
  <2>1. 1 \in 1 .. two /\ 2 \in 1 .. two /\ 1 \in 1 .. n /\ 2 \in 1 .. n
    BY <1>0, <1>5, <1>9
  <2>2. p[1] = p12[1] /\ p[2] = p12[2] /\ p12[1] = p1[1] /\ p12[2] = p1[2]
    BY <1>6, <1>8, <2>1
  <2> QED BY <1>1, <2>2
<1>18. ASSUME NEW j \in 1 .. N PROVE p[2 + j] = Sub(Queue, StateDirs[j])
  <2>1. two + j = 2 + j /\ two + j \in 1 .. n
    BY <1>0, <1>5, <1>9
  <2>2. p[two + j] = p12[two + j] /\ p12[two + j] = p2[j]
    BY <1>6, <1>8, <2>1
  <2> QED BY <1>2, <2>1, <2>2
<1>19. p[N + 3] = Synced /\ p[N + 4] = Crashes /\ p[N + 5] = Hangs
  <2>1. 1 \in 1 .. three /\ 2 \in 1 .. three /\ 3 \in 1 .. three /\ n + 1 = N + 3 /\ n + 2 = N + 4 /\ n + 3 = N + 5
    BY <1>0, <1>5, <1>9
  <2>2. p[n + 1] = p3[1] /\ p[n + 2] = p3[2] /\ p[n + 3] = p3[3]
    BY <1>8, <2>1
  <2> QED BY <1>3, <2>1, <2>2
<1>20. /\ e[1] = Do("mkdir", Queue) /\ e[2] = Do("mkdir", State(Queue))
       /\ e[N + 3] = Do("mkdir", Synced) /\ e[N + 4] = Do("mkdir", Crashes) /\ e[N + 5] = Do("mkdir", Hangs)
  <2>1. 1 \in 1 .. N + 5 /\ 2 \in 1 .. N + 5 /\ N + 3 \in 1 .. N + 5 /\ N + 4 \in 1 .. N + 5 /\ N + 5 \in 1 .. N + 5
    BY <1>0
  <2> QED BY <1>16, <1>17, <1>19, <2>1, Zenon
<1>21. ASSUME NEW j \in 1 .. N PROVE e[2 + j] = Do("mkdir", Sub(Queue, StateDirs[j]))
  <2>1. 2 + j \in 1 .. N + 5
    BY <1>0
  <2> QED BY <1>16, <1>18, <2>1, Zenon
<1> QED BY <1>4, <1>15, <1>20, <1>21, Zenon DEF e, c

Unlinked == {CurInput, <<"fuzz_bitmap">>, <<"fuzzer_stats">>, PlotData}

LEMMA Typical ==
    /\ \A op \in Ops, d \in Bases : Do(op, d) \in Command /\ Do(op, State(d)) \in Command
    /\ \A op \in Ops, d \in Leaves : Do(op, d) \in Command
    /\ \A op \in Ops, d \in Unlinked : Do(op, d) \in Command
    /\ \A op \in Ops : Do(op, << >>) \in Command
    /\ Ops = {"rename", "clear", "rmdir", "mkdir", "backup", "unlink", "create", "write", "link", "read",
              "seek", "truncate", "stats", "enter"}
    /\ Queue \in Bases /\ Resume \in Bases /\ Synced \in Leaves /\ Crashes \in Leaves /\ Hangs \in Leaves
    /\ CurInput \in Unlinked /\ PlotData \in Unlinked /\ <<"fuzz_bitmap">> \in Unlinked /\ <<"fuzzer_stats">> \in Unlinked
<1>1. \A d \in Bases : d \in Paths /\ State(d) \in Paths
  BY KnownPaths
<1>2. \A d \in Leaves \cup Unlinked \cup {<< >>} : d \in Paths
  BY KnownPaths DEF Leaves, Unlinked
<1>3. \A op \in Ops, d \in Paths : Do(op, d) \in Command
  BY CommandType
<1> QED BY <1>1, <1>2, <1>3 DEF Bases, Leaves, Unlinked, Ops

(* The commands of CleanUp, and of the whole program, by their places. *)
LEMMA CleanUpAt ==
    ASSUME NEW r \in BOOLEAN
    PROVE
    /\ CleanUp(r) \in Seq(Command) /\ Len(CleanUp(r)) = N + 10
    /\ CleanUp(r)[1] = IF r THEN Do("rename", Queue) ELSE Do("clear", Synced)
    /\ \A j \in 1 .. N : CleanUp(r)[1 + j] = Do("clear", Sub(Queue, StateDirs[j]))
    /\ CleanUp(r)[N + 2] = Do("rmdir", State(Queue))
    /\ CleanUp(r)[N + 3] = Do("clear", Queue)
    /\ CleanUp(r)[N + 4] = IF r THEN Do("backup", Crashes) ELSE Do("unlink", Crashes)
    /\ CleanUp(r)[N + 5] = Do("clear", Crashes)
    /\ CleanUp(r)[N + 6] = IF r THEN Do("backup", Hangs) ELSE Do("clear", Hangs)
    /\ CleanUp(r)[N + 7] = IF r THEN Do("clear", Hangs) ELSE Do("unlink", CurInput)
    /\ CleanUp(r)[N + 8] = IF r THEN Do("unlink", CurInput) ELSE Do("unlink", <<"fuzz_bitmap">>)
    /\ CleanUp(r)[N + 9] = IF r THEN Do("unlink", <<"fuzz_bitmap">>) ELSE Do("unlink", <<"fuzzer_stats">>)
    /\ CleanUp(r)[N + 10] = Do("unlink", PlotData)
<1> DEFINE a == EmptyQueue(Queue)
           n == N + 2
           cr == Do("rename", Queue)
           cs == Do("clear", Synced)
           bc == Do("backup", Crashes)
           uc == Do("unlink", Crashes)
           cc == Do("clear", Crashes)
           bh == Do("backup", Hangs)
           ch == Do("clear", Hangs)
           ui == Do("unlink", CurInput)
           ub == Do("unlink", <<"fuzz_bitmap">>)
           us == Do("unlink", <<"fuzzer_stats">>)
           up == Do("unlink", PlotData)
<1>1. /\ cr \in Command /\ cs \in Command /\ bc \in Command /\ uc \in Command /\ cc \in Command /\ bh \in Command
      /\ ch \in Command /\ ui \in Command /\ ub \in Command /\ us \in Command /\ up \in Command
  BY Typical
<1>2. a \in Seq(Command) /\ Len(a) = n /\ n \in Nat /\ N \in Nat
      /\ (\A j \in 1 .. N : a[j] = Do("clear", Sub(Queue, StateDirs[j])))
      /\ a[N + 1] = Do("rmdir", State(Queue)) /\ a[N + 2] = Do("clear", Queue)
  BY EmptyQueueAt, Typical, StateNames
<1>a. \A j \in 1 .. N : j \in 1 .. N + 2
  BY <1>2
<1>b. N + 1 \in 1 .. N + 2 /\ N + 2 \in 1 .. N + 2 /\ 1 + (N + 1) = N + 2 /\ 1 + (N + 2) = N + 3
      /\ (N + 2) + 2 = N + 4 /\ (N + 2) + 3 = N + 5 /\ (N + 2) + 4 = N + 6 /\ (N + 2) + 5 = N + 7
      /\ (N + 2) + 6 = N + 8 /\ (N + 2) + 7 = N + 9 /\ (N + 2) + 8 = N + 10
  BY <1>2
<1>3. CASE r
  <2> DEFINE e == <<cr>> \o << >> \o a \o << >> \o <<bc>> \o <<cc>> \o <<bh>> \o <<ch>> \o <<ui, ub>> \o << >> \o <<up>>
  <2>1. CleanUp(r) = e
    BY <1>3 DEF CleanUp, If, CurInput, PlotData
  <2> HIDE DEF cr, cs, bc, uc, cc, bh, ch, ui, ub, us, up, a, n
  <2>2. /\ e \in Seq(Command) /\ Len(e) = n + 8
        /\ e[1] = cr /\ (\A j \in 1 .. n : e[1 + j] = a[j])
        /\ e[n + 2] = bc /\ e[n + 3] = cc /\ e[n + 4] = bh /\ e[n + 5] = ch
        /\ e[n + 6] = ui /\ e[n + 7] = ub /\ e[n + 8] = up
    <3>1. e \in Seq(Command) /\ Len(e) = n + 8
      BY <1>1, <1>2
    <3>2. e[1] = cr /\ (\A j \in 1 .. n : e[1 + j] = a[j])
      BY <1>1, <1>2
    <3>3. e[n + 2] = bc
      BY <1>1, <1>2
    <3>4. e[n + 3] = cc
      BY <1>1, <1>2
    <3>5. e[n + 4] = bh
      BY <1>1, <1>2
    <3>6. e[n + 5] = ch
      BY <1>1, <1>2
    <3>7. e[n + 6] = ui
      BY <1>1, <1>2
    <3>8. e[n + 7] = ub
      BY <1>1, <1>2
    <3>9. e[n + 8] = up
      BY <1>1, <1>2
    <3> QED BY <3>1, <3>2, <3>3, <3>4, <3>5, <3>6, <3>7, <3>8, <3>9, Zenon
  <2> HIDE DEF e
  <2>3. e[N + 2] = a[N + 1] /\ e[N + 3] = a[N + 2]
    BY <2>2, <1>b, Zenon DEF n
  <2>4. \A j \in 1 .. N : e[1 + j] = a[j]
    BY <2>2, <1>a, Zenon DEF n
  <2>5. Len(e) = N + 10 /\ e[N + 4] = bc /\ e[N + 5] = cc /\ e[N + 6] = bh /\ e[N + 7] = ch /\ e[N + 8] = ui /\ e[N + 9] = ub /\ e[N + 10] = up
    BY <2>2, <1>b, Zenon DEF n
  <2>6. /\ e \in Seq(Command) /\ Len(e) = N + 10
        /\ e[1] = (IF r THEN cr ELSE cs)
        /\ (\A j \in 1 .. N : e[1 + j] = Do("clear", Sub(Queue, StateDirs[j])))
        /\ e[N + 2] = Do("rmdir", State(Queue))
        /\ e[N + 3] = Do("clear", Queue)
        /\ e[N + 4] = (IF r THEN bc ELSE uc)
        /\ e[N + 5] = cc
        /\ e[N + 6] = (IF r THEN bh ELSE ch)
        /\ e[N + 7] = (IF r THEN ch ELSE ui)
        /\ e[N + 8] = (IF r THEN ui ELSE ub)
        /\ e[N + 9] = (IF r THEN ub ELSE us)
        /\ e[N + 10] = up
    <3>1. e \in Seq(Command) /\ Len(e) = N + 10
      BY <2>2, <2>5
    <3>2. \A j \in 1 .. N : e[1 + j] = Do("clear", Sub(Queue, StateDirs[j]))
      BY <1>2, <2>4
    <3>3. e[N + 2] = Do("rmdir", State(Queue)) /\ e[N + 3] = Do("clear", Queue)
      BY <1>2, <2>3, Zenon
    <3> QED BY <1>3, <2>2, <2>5, <3>1, <3>2, <3>3, Zenon
  <2> QED BY <2>1, <2>6, Zenon DEF cr, cs, bc, uc, cc, bh, ch, ui, ub, us, up
<1>4. CASE ~r
  <2> DEFINE e == << >> \o <<cs>> \o a \o <<uc>> \o << >> \o <<cc>> \o << >> \o <<ch>> \o <<ui, ub>> \o <<us>> \o <<up>>
  <2>1. CleanUp(r) = e
    BY <1>4 DEF CleanUp, If, CurInput, PlotData
  <2> HIDE DEF cr, cs, bc, uc, cc, bh, ch, ui, ub, us, up, a, n
  <2>2. /\ e \in Seq(Command) /\ Len(e) = n + 8
        /\ e[1] = cs /\ (\A j \in 1 .. n : e[1 + j] = a[j])
        /\ e[n + 2] = uc /\ e[n + 3] = cc /\ e[n + 4] = ch /\ e[n + 5] = ui
        /\ e[n + 6] = ub /\ e[n + 7] = us /\ e[n + 8] = up
    <3>1. e \in Seq(Command) /\ Len(e) = n + 8
      BY <1>1, <1>2
    <3>2. e[1] = cs /\ (\A j \in 1 .. n : e[1 + j] = a[j])
      BY <1>1, <1>2
    <3>3. e[n + 2] = uc
      BY <1>1, <1>2
    <3>4. e[n + 3] = cc
      BY <1>1, <1>2
    <3>5. e[n + 4] = ch
      BY <1>1, <1>2
    <3>6. e[n + 5] = ui
      BY <1>1, <1>2
    <3>7. e[n + 6] = ub
      BY <1>1, <1>2
    <3>8. e[n + 7] = us
      BY <1>1, <1>2
    <3>9. e[n + 8] = up
      BY <1>1, <1>2
    <3> QED BY <3>1, <3>2, <3>3, <3>4, <3>5, <3>6, <3>7, <3>8, <3>9, Zenon
  <2> HIDE DEF e
  <2>3. e[N + 2] = a[N + 1] /\ e[N + 3] = a[N + 2]
    BY <2>2, <1>b, Zenon DEF n
  <2>4. \A j \in 1 .. N : e[1 + j] = a[j]
    BY <2>2, <1>a, Zenon DEF n
  <2>5. Len(e) = N + 10 /\ e[N + 4] = uc /\ e[N + 5] = cc /\ e[N + 6] = ch /\ e[N + 7] = ui /\ e[N + 8] = ub /\ e[N + 9] = us /\ e[N + 10] = up
    BY <2>2, <1>b, Zenon DEF n
  <2>6. /\ e \in Seq(Command) /\ Len(e) = N + 10
        /\ e[1] = (IF r THEN cr ELSE cs)
        /\ (\A j \in 1 .. N : e[1 + j] = Do("clear", Sub(Queue, StateDirs[j])))
        /\ e[N + 2] = Do("rmdir", State(Queue))
        /\ e[N + 3] = Do("clear", Queue)
        /\ e[N + 4] = (IF r THEN bc ELSE uc)
        /\ e[N + 5] = cc
        /\ e[N + 6] = (IF r THEN bh ELSE ch)
        /\ e[N + 7] = (IF r THEN ch ELSE ui)
        /\ e[N + 8] = (IF r THEN ui ELSE ub)
        /\ e[N + 9] = (IF r THEN ub ELSE us)
        /\ e[N + 10] = up
    <3>1. e \in Seq(Command) /\ Len(e) = N + 10
      BY <2>2, <2>5
    <3>2. \A j \in 1 .. N : e[1 + j] = Do("clear", Sub(Queue, StateDirs[j]))
      BY <1>2, <2>4
    <3>3. e[N + 2] = Do("rmdir", State(Queue)) /\ e[N + 3] = Do("clear", Queue)
      BY <1>2, <2>3, Zenon
    <3> QED BY <1>4, <2>2, <2>5, <3>1, <3>2, <3>3, Zenon
  <2> QED BY <2>1, <2>6, Zenon DEF cr, cs, bc, uc, cc, bh, ch, ui, ub, us, up
<1> QED BY <1>3, <1>4

LEMMA ProgramAt ==
    ASSUME NEW r \in BOOLEAN
    PROVE
    /\ Program(r) \in Seq(Command) /\ Len(Program(r)) = Total
    /\ \A j \in 1 .. N + 10 : Program(r)[j] = CleanUp(r)[j]
    /\ \A j \in 1 .. N + 6 : Program(r)[N + 10 + j] = MakeDirs[j]
    /\ Program(r)[2 * N + 17] = Do("read", IF r THEN Resume ELSE << >>)
<1> DEFINE a == CleanUp(r)
           b == MakeDirs
           c == Do("read", IF r THEN Resume ELSE << >>)
           n == N + 10
           m == N + 6
           e == a \o b \o <<c>>
<1>1. a \in Seq(Command) /\ Len(a) = n /\ b \in Seq(Command) /\ Len(b) = m
  BY CleanUpAt, MakeDirsAt, Zenon
<1>2. n \in Nat /\ m \in Nat /\ n + m + 1 = 2 * N + 17
  BY StateNames
<1>3. c \in Command
  BY Typical
<1>4. Program(r) = e
  BY DEF Program
<1>5. /\ e \in Seq(Command) /\ Len(e) = n + m + 1
      /\ (\A j \in 1 .. n : e[j] = a[j]) /\ (\A j \in 1 .. m : e[n + j] = b[j])
      /\ e[n + m + 1] = c
  <2> HIDE DEF a, b, c, n, m
  <2>1. e \in Seq(Command) /\ Len(e) = n + m + 1
    BY <1>1, <1>2, <1>3
  <2>2. \A j \in 1 .. n : e[j] = a[j]
    BY <1>1, <1>2, <1>3
  <2>3. \A j \in 1 .. m : e[n + j] = b[j]
    BY <1>1, <1>2, <1>3
  <2>4. e[n + m + 1] = c
    BY <1>1, <1>2, <1>3
  <2> QED BY <2>1, <2>2, <2>3, <2>4
<1> HIDE DEF e, a, b, c
<1> QED BY <1>2, <1>4, <1>5, Zenon DEF Total, a, b, c

(* A fresh start without anything to clean up. *)
LEMMA ShortProgram ==
    ASSUME NEW r \in BOOLEAN
    PROVE  LET e == MakeDirs \o <<Do("read", IF r THEN Resume ELSE << >>)>> IN
           /\ e \in Seq(Command) /\ Len(e) = N + 7
           /\ \A j \in 1 .. N + 7 : e[j] = Program(r)[N + 10 + j]
<1> DEFINE b == MakeDirs
           c == Do("read", IF r THEN Resume ELSE << >>)
           m == N + 6
           e == << >> \o b \o <<c>>
<1>1. b \in Seq(Command) /\ Len(b) = m
  BY MakeDirsAt, Zenon
<1>2. m \in Nat /\ m + 1 = N + 7 /\ N \in Nat
  BY StateNames
<1>3. c \in Command
  BY Typical
<1>4. MakeDirs \o <<Do("read", IF r THEN Resume ELSE << >>)>> = e
  <2> HIDE DEF c
  <2> SUFFICES b = << >> \o b
    BY Zenon DEF c
  <2> HIDE DEF b
  <2> QED BY <1>1, <1>3
<1>5. e \in Seq(Command) /\ Len(e) = m + 1 /\ (\A j \in 1 .. m : e[j] = b[j]) /\ e[m + 1] = c
  <2> HIDE DEF b, c, m
  <2> QED BY <1>1, <1>2, <1>3
<1> HIDE DEF e, b, c
<1>6. ASSUME NEW j \in 1 .. N + 7 PROVE e[j] = Program(r)[N + 10 + j]
  <2>1. CASE j \in 1 .. N + 6
    BY <1>5, <2>1, ProgramAt, Zenon DEF b
  <2>2. CASE j = N + 7
    <3>1. N + 10 + j = 2 * N + 17 /\ j = m + 1
      BY <1>2, <2>2
    <3> QED BY <1>5, <3>1, ProgramAt, Zenon DEF c
  <2> QED BY <1>2, <2>1, <2>2
<1> QED BY <1>2, <1>4, <1>5, <1>6, Zenon

(* The converse: what stands at a place of the program. *)
LEMMA Places ==
    ASSUME NEW r \in BOOLEAN, NEW p \in 1 .. Total, NEW c, c = Program(r)[p]
    PROVE  \/ p = 1 /\ r /\ c = Do("rename", Queue)
           \/ p = 1 /\ ~r /\ c = Do("clear", Synced)
           \/ \E j \in 1 .. N : p = 1 + j /\ c = Do("clear", Sub(Queue, StateDirs[j]))
           \/ p = N + 2 /\ c = Do("rmdir", State(Queue))
           \/ p = N + 3 /\ c = Do("clear", Queue)
           \/ p = N + 4 /\ r /\ c = Do("backup", Crashes)
           \/ p = N + 4 /\ ~r /\ c = Do("unlink", Crashes)
           \/ p = N + 5 /\ c = Do("clear", Crashes)
           \/ p = N + 6 /\ r /\ c = Do("backup", Hangs)
           \/ p = (IF r THEN N + 7 ELSE N + 6) /\ c = Do("clear", Hangs)
           \/ p \in (IF r THEN N + 8 ELSE N + 7) .. N + 9 /\ \E u \in Unlinked \ {PlotData} : c = Do("unlink", u)
           \/ p = N + 10 /\ c = Do("unlink", PlotData)
           \/ p = N + 11 /\ c = Do("mkdir", Queue)
           \/ p = N + 12 /\ c = Do("mkdir", State(Queue))
           \/ \E j \in 1 .. N : p = N + 12 + j /\ c = Do("mkdir", Sub(Queue, StateDirs[j]))
           \/ p = 2 * N + 13 /\ c = Do("mkdir", Synced)
           \/ p = 2 * N + 14 /\ c = Do("mkdir", Crashes)
           \/ p = 2 * N + 15 /\ c = Do("mkdir", Hangs)
           \/ p = 2 * N + 16 /\ c = Do("create", PlotData)
           \/ p = Total /\ c = Do("read", IF r THEN Resume ELSE << >>)
<1> DEFINE a == CleanUp(r)
           b == MakeDirs
<1>1. N \in Nat /\ N >= 1 /\ Total = 2 * N + 17
  BY StateNames DEF Total
<1>2. CASE p \in 1 .. N + 10
  <2>1. c = a[p]
    BY ProgramAt, <1>2
  <2>2. CurInput \in Unlinked \ {PlotData} /\ <<"fuzz_bitmap">> \in Unlinked \ {PlotData} /\ <<"fuzzer_stats">> \in Unlinked \ {PlotData}
    BY DEF Unlinked, PlotData, CurInput
  <2>3. CASE p = 1
    BY <2>1, <2>3, CleanUpAt, Zenon
  <2>4. CASE \E j \in 1 .. N : p = 1 + j
    <3>1. PICK j \in 1 .. N : p = 1 + j
      BY <2>4
    <3>2. a[1 + j] = Do("clear", Sub(Queue, StateDirs[j]))
      BY CleanUpAt
    <3> HIDE DEF a
    <3> QED BY <2>1, <3>1, <3>2, Zenon
  <2>5. CASE p \in N + 2 .. N + 6
    <3>1. p = N + 2 \/ p = N + 3 \/ p = N + 4 \/ p = N + 5 \/ p = N + 6
      BY <1>1, <2>5
    <3>2. /\ a[N + 2] = Do("rmdir", State(Queue))
          /\ a[N + 3] = Do("clear", Queue)
          /\ a[N + 4] = IF r THEN Do("backup", Crashes) ELSE Do("unlink", Crashes)
          /\ a[N + 5] = Do("clear", Crashes)
          /\ a[N + 6] = IF r THEN Do("backup", Hangs) ELSE Do("clear", Hangs)
      BY CleanUpAt, Zenon
    <3> HIDE DEF a
    <3> QED BY <2>1, <3>1, <3>2, Zenon
  <2>6. CASE p \in N + 7 .. N + 10
    <3>1. p = N + 7 \/ p = N + 8 \/ p = N + 9 \/ p = N + 10
      BY <1>1, <2>6
    <3>2. /\ a[N + 7] = IF r THEN Do("clear", Hangs) ELSE Do("unlink", CurInput)
          /\ a[N + 8] = IF r THEN Do("unlink", CurInput) ELSE Do("unlink", <<"fuzz_bitmap">>)
          /\ a[N + 9] = IF r THEN Do("unlink", <<"fuzz_bitmap">>) ELSE Do("unlink", <<"fuzzer_stats">>)
          /\ a[N + 10] = Do("unlink", PlotData)
      BY CleanUpAt, Zenon
    <3> DEFINE q == IF r THEN N + 8 ELSE N + 7
    <3>3. N + 8 \in q .. N + 9 /\ N + 9 \in q .. N + 9 /\ (~r => N + 7 \in q .. N + 9)
      BY <1>1
    <3> HIDE DEF a
    <3>4. \/ p = (IF r THEN N + 7 ELSE N + 6) /\ c = Do("clear", Hangs)
          \/ p \in q .. N + 9 /\ \E u \in Unlinked \ {PlotData} : c = Do("unlink", u)
          \/ p = N + 10 /\ c = Do("unlink", PlotData)
      <4>1. ASSUME p = N + 7 PROVE \/ p = (IF r THEN N + 7 ELSE N + 6) /\ c = Do("clear", Hangs)
                                   \/ p \in q .. N + 9 /\ \E u \in Unlinked \ {PlotData} : c = Do("unlink", u)
        BY <4>1, <2>1, <2>2, <3>2, <3>3, Zenon
      <4>2. ASSUME p = N + 8 PROVE p \in q .. N + 9 /\ \E u \in Unlinked \ {PlotData} : c = Do("unlink", u)
        BY <4>2, <2>1, <2>2, <3>2, <3>3, Zenon
      <4>3. ASSUME p = N + 9 PROVE p \in q .. N + 9 /\ \E u \in Unlinked \ {PlotData} : c = Do("unlink", u)
        BY <4>3, <2>1, <2>2, <3>2, <3>3, Zenon
      <4>4. ASSUME p = N + 10 PROVE c = Do("unlink", PlotData)
        BY <4>4, <2>1, <3>2, Zenon
      <4> QED BY <3>1, <4>1, <4>2, <4>3, <4>4, Zenon
    <3> QED BY <3>4, Zenon DEF q
  <2>7. p = 1 \/ (\E j \in 1 .. N : p = 1 + j) \/ p \in N + 2 .. N + 6 \/ p \in N + 7 .. N + 10
    <3>1. p \in 2 .. N + 1 => p - 1 \in 1 .. N /\ p = 1 + (p - 1)
      BY <1>1
    <3>2. p = 1 \/ p \in 2 .. N + 1 \/ p \in N + 2 .. N + 6 \/ p \in N + 7 .. N + 10
      BY <1>1, <1>2
    <3> QED BY <3>1, <3>2, Zenon
  <2> QED BY <2>3, <2>4, <2>5, <2>6, <2>7, Zenon
<1>3. CASE p \in N + 11 .. Total
  <2> DEFINE q == p - (N + 10)
  <2>1. q \in Nat /\ p = N + 10 + q /\ (p < Total => q \in 1 .. N + 6)
    BY <1>1, <1>3
  <2>2. p < Total => c = b[q]
    BY ProgramAt, <2>1, Zenon
  <2>3. CASE p = N + 11 \/ p = N + 12
    <3>1. q = p - (N + 10) /\ (p = N + 11 => q = 1) /\ (p = N + 12 => q = 2) /\ p < Total
      BY <1>1, <2>3
    <3>2. b[1] = Do("mkdir", Queue) /\ b[2] = Do("mkdir", State(Queue))
      BY MakeDirsAt, Zenon
    <3> HIDE DEF q, b
    <3> QED BY <2>2, <2>3, <3>1, <3>2, Zenon
  <2>4. CASE \E j \in 1 .. N : p = N + 12 + j
    <3>1. PICK j \in 1 .. N : p = N + 12 + j
      BY <2>4
    <3>2. b[2 + j] = Do("mkdir", Sub(Queue, StateDirs[j]))
      BY MakeDirsAt, Zenon
    <3>3. q = 2 + j /\ p < Total
      BY <1>1, <3>1
    <3> HIDE DEF q, b
    <3> QED BY <2>2, <3>1, <3>2, <3>3, Zenon
  <2>5. CASE p \in 2 * N + 13 .. 2 * N + 16
    <3>1. /\ (p = 2 * N + 13 /\ q = N + 3) \/ (p = 2 * N + 14 /\ q = N + 4) \/ (p = 2 * N + 15 /\ q = N + 5) \/ (p = 2 * N + 16 /\ q = N + 6)
          /\ p < Total
      BY <1>1, <2>1, <2>5
    <3>2. /\ b[N + 3] = Do("mkdir", Synced) /\ b[N + 4] = Do("mkdir", Crashes)
          /\ b[N + 5] = Do("mkdir", Hangs) /\ b[N + 6] = Do("create", PlotData)
      BY MakeDirsAt, Zenon
    <3> HIDE DEF q, b
    <3> QED BY <2>2, <3>1, <3>2, Zenon
  <2>6. CASE p = Total
    BY <1>1, <2>6, ProgramAt, Zenon
  <2>7. p = N + 11 \/ p = N + 12 \/ (\E j \in 1 .. N : p = N + 12 + j) \/ p \in 2 * N + 13 .. 2 * N + 16 \/ p = Total
    <3>1. p \in N + 13 .. 2 * N + 12 => p - (N + 12) \in 1 .. N /\ p = N + 12 + (p - (N + 12))
      BY <1>1
    <3>2. p = N + 11 \/ p = N + 12 \/ p \in N + 13 .. 2 * N + 12 \/ p \in 2 * N + 13 .. 2 * N + 16 \/ p = Total
      BY <1>1, <1>3
    <3> QED BY <3>1, <3>2, Zenon
  <2> QED BY <2>3, <2>4, <2>5, <2>6, <2>7, Zenon
<1>4. p \in 1 .. N + 10 \/ p \in N + 11 .. Total
  BY <1>1
<1> QED BY <1>2, <1>3, <1>4, Zenon

(* Where an operation stands in the program, and what it is about. *)
LEMMA Heads ==
    ASSUME NEW r \in BOOLEAN, NEW p \in 1 .. Total, NEW c, c = Program(r)[p]
    PROVE
    /\ c.id = NoId
    /\ c.op \in {"rename", "clear", "rmdir", "backup", "unlink", "mkdir", "create", "read"}
    /\ c.op = "rename" => p = 1 /\ r
    /\ c.op = "clear" => \/ p = 1 /\ ~r /\ c.path = Synced
                         \/ \E j \in 1 .. N : p = 1 + j /\ c.path = Sub(Queue, StateDirs[j])
                         \/ p = N + 3 /\ c.path = Queue
                         \/ p = N + 5 /\ c.path = Crashes
                         \/ p = (IF r THEN N + 7 ELSE N + 6) /\ c.path = Hangs
    /\ c.op = "rmdir" => p = N + 2 /\ c.path = State(Queue)
    /\ c.op = "backup" => r /\ ((p = N + 4 /\ c.path = Crashes) \/ (p = N + 6 /\ c.path = Hangs))
    /\ c.op = "unlink" => \/ p = N + 4 /\ ~r /\ c.path = Crashes
                          \/ p \in (IF r THEN N + 8 ELSE N + 7) .. N + 9 /\ c.path \in Unlinked \ {PlotData}
                          \/ p = N + 10 /\ c.path = PlotData
    /\ c.op = "mkdir" => \/ p = N + 11 /\ c.path = Queue
                         \/ p = N + 12 /\ c.path = State(Queue)
                         \/ \E j \in 1 .. N : p = N + 12 + j /\ c.path = Sub(Queue, StateDirs[j])
                         \/ p = 2 * N + 13 /\ c.path = Synced
                         \/ p = 2 * N + 14 /\ c.path = Crashes
                         \/ p = 2 * N + 15 /\ c.path = Hangs
    /\ c.op = "create" => p = 2 * N + 16 /\ c.path = PlotData
    /\ c.op = "read" <=> p = Total
<1> DEFINE q == IF r THEN N + 7 ELSE N + 6
           l == (IF r THEN N + 8 ELSE N + 7) .. N + 9
           clears == \E j \in 1 .. N : p = 1 + j /\ c.path = Sub(Queue, StateDirs[j])
           makes == \E j \in 1 .. N : p = N + 12 + j /\ c.path = Sub(Queue, StateDirs[j])
           s == IF r THEN Resume ELSE << >>
<1>a. N \in Nat /\ N >= 1 /\ Total = 2 * N + 17
  BY StateNames DEF Total
<1>b. \A op, path : Do(op, path).op = op /\ Do(op, path).path = path /\ Do(op, path).id = NoId
  BY DEF Do
<1>c. q < Total /\ \A x \in l : x < Total
  BY <1>a
<1>1. \/ p = 1 /\ r /\ c = Do("rename", Queue)
      \/ p = 1 /\ ~r /\ c = Do("clear", Synced)
      \/ \E j \in 1 .. N : p = 1 + j /\ c = Do("clear", Sub(Queue, StateDirs[j]))
      \/ p = N + 2 /\ c = Do("rmdir", State(Queue))
      \/ p = N + 3 /\ c = Do("clear", Queue)
      \/ p = N + 4 /\ r /\ c = Do("backup", Crashes)
      \/ p = N + 4 /\ ~r /\ c = Do("unlink", Crashes)
      \/ p = N + 5 /\ c = Do("clear", Crashes)
      \/ p = N + 6 /\ r /\ c = Do("backup", Hangs)
      \/ p = q /\ c = Do("clear", Hangs)
      \/ p \in l /\ \E u \in Unlinked \ {PlotData} : c = Do("unlink", u)
      \/ p = N + 10 /\ c = Do("unlink", PlotData)
      \/ p = N + 11 /\ c = Do("mkdir", Queue)
      \/ p = N + 12 /\ c = Do("mkdir", State(Queue))
      \/ \E j \in 1 .. N : p = N + 12 + j /\ c = Do("mkdir", Sub(Queue, StateDirs[j]))
      \/ p = 2 * N + 13 /\ c = Do("mkdir", Synced)
      \/ p = 2 * N + 14 /\ c = Do("mkdir", Crashes)
      \/ p = 2 * N + 15 /\ c = Do("mkdir", Hangs)
      \/ p = 2 * N + 16 /\ c = Do("create", PlotData)
      \/ p = Total /\ c = Do("read", s)
  BY Places
<1> HIDE DEF q, l, s
<1>2. c.id = NoId
  BY <1>1, <1>b
<1>3. \/ p = 1 /\ r /\ c.op = "rename" /\ c.path = Queue
      \/ p = 1 /\ ~r /\ c.op = "clear" /\ c.path = Synced
      \/ c.op = "clear" /\ clears
      \/ p = N + 2 /\ c.op = "rmdir" /\ c.path = State(Queue)
      \/ p = N + 3 /\ c.op = "clear" /\ c.path = Queue
      \/ p = N + 4 /\ r /\ c.op = "backup" /\ c.path = Crashes
      \/ p = N + 4 /\ ~r /\ c.op = "unlink" /\ c.path = Crashes
      \/ p = N + 5 /\ c.op = "clear" /\ c.path = Crashes
      \/ p = N + 6 /\ r /\ c.op = "backup" /\ c.path = Hangs
      \/ p = q /\ c.op = "clear" /\ c.path = Hangs
      \/ p \in l /\ c.op = "unlink" /\ c.path \in Unlinked \ {PlotData}
      \/ p = N + 10 /\ c.op = "unlink" /\ c.path = PlotData
      \/ p = N + 11 /\ c.op = "mkdir" /\ c.path = Queue
      \/ p = N + 12 /\ c.op = "mkdir" /\ c.path = State(Queue)
      \/ c.op = "mkdir" /\ makes
      \/ p = 2 * N + 13 /\ c.op = "mkdir" /\ c.path = Synced
      \/ p = 2 * N + 14 /\ c.op = "mkdir" /\ c.path = Crashes
      \/ p = 2 * N + 15 /\ c.op = "mkdir" /\ c.path = Hangs
      \/ p = 2 * N + 16 /\ c.op = "create" /\ c.path = PlotData
      \/ p = Total /\ c.op = "read"
  BY <1>1, <1>b
<1>t. Total # 1 /\ Total # N + 2 /\ Total # N + 3 /\ Total # N + 4 /\ Total # N + 5 /\ Total # N + 6 /\ Total # q /\ Total \notin l
      /\ Total # N + 10 /\ Total # N + 11 /\ Total # N + 12 /\ Total # 2 * N + 13 /\ Total # 2 * N + 14 /\ Total # 2 * N + 15
      /\ Total # 2 * N + 16 /\ (clears => p # Total) /\ (makes => p # Total)
  BY <1>a, <1>c DEF clears, makes
<1> HIDE DEF clears, makes
<1>4. c.op = "read" <=> p = Total
  BY <1>3, <1>t
<1>5. c.op \in {"rename", "clear", "rmdir", "backup", "unlink", "mkdir", "create", "read"}
  BY <1>3
<1>6. c.op = "rename" => p = 1 /\ r
  BY <1>3
<1>7. c.op = "clear" => \/ p = 1 /\ ~r /\ c.path = Synced
                        \/ clears
                        \/ p = N + 3 /\ c.path = Queue
                        \/ p = N + 5 /\ c.path = Crashes
                        \/ p = q /\ c.path = Hangs
  BY <1>3
<1>8. c.op = "rmdir" => p = N + 2 /\ c.path = State(Queue)
  BY <1>3
<1>9. c.op = "backup" => r /\ ((p = N + 4 /\ c.path = Crashes) \/ (p = N + 6 /\ c.path = Hangs))
  BY <1>3
<1>10. c.op = "unlink" => \/ p = N + 4 /\ ~r /\ c.path = Crashes
                          \/ p \in l /\ c.path \in Unlinked \ {PlotData}
                          \/ p = N + 10 /\ c.path = PlotData
  BY <1>3
<1>11. c.op = "mkdir" => \/ p = N + 11 /\ c.path = Queue
                         \/ p = N + 12 /\ c.path = State(Queue)
                         \/ makes
                         \/ p = 2 * N + 13 /\ c.path = Synced
                         \/ p = 2 * N + 14 /\ c.path = Crashes
                         \/ p = 2 * N + 15 /\ c.path = Hangs
  BY <1>3
<1>12. c.op = "create" => p = 2 * N + 16 /\ c.path = PlotData
  BY <1>3
<1> QED BY <1>2, <1>4, <1>5, <1>6, <1>7, <1>8, <1>9, <1>10, <1>11, <1>12 DEF q, l, clears, makes

-----------------------------------------------------------------------------
(* What a step may do to the tree of directories and files. *)

(* What lies in a directory keeps rmdir from removing it. *)
LEMMA Under ==
    ASSUME NEW d \in Bases
    PROVE  IsStrictPrefix(d, State(d)) /\ \A s \in Range(StateDirs) : IsStrictPrefix(State(d), Sub(d, s))
<1>1. ASSUME NEW p \in Seq(Names), NEW q \in Seq(Names), Len(p) < Len(q), \A i \in 1 .. Len(p) : p[i] = q[i]
      PROVE  IsStrictPrefix(p, q)
  <2> DEFINE n == Len(p)
             a == SubSeq(p, 1, n)
             b == SubSeq(q, 1, n)
  <2>1. n \in Nat /\ Len(q) \in Nat /\ 1 \in Int /\ n \in Int
    OBVIOUS
  <2>2. (\A i \in 1 .. n : p[i] \in Names) /\ (\A i \in 1 .. n : q[i] \in Names)
    BY <1>1, <2>1
  <2>a. n < Len(q) /\ \A i \in 1 .. n : p[i] = q[i]
    BY <1>1
  <2>b. Len(p) <= Len(q) /\ p # q
    BY <1>1, <2>1
  <2>c. IsStrictPrefix(p, q) <=> a = b
    BY <2>b DEF IsStrictPrefix, IsPrefix
  <2> HIDE DEF n
  <2>3. /\ a \in Seq(Names) /\ Len(a) = (IF 1 <= n THEN n - 1 + 1 ELSE 0)
        /\ \A i \in 1 .. n - 1 + 1 : a[i] = p[1 + i - 1]
    BY <2>1, <2>2, SubSeqProperties
  <2>4. /\ b \in Seq(Names) /\ Len(b) = (IF 1 <= n THEN n - 1 + 1 ELSE 0)
        /\ \A i \in 1 .. n - 1 + 1 : b[i] = q[1 + i - 1]
    BY <2>1, <2>2, SubSeqProperties
  <2> HIDE DEF a, b
  <2>5. Len(a) = n /\ Len(b) = n /\ (\A i \in 1 .. n : a[i] = p[i]) /\ \A i \in 1 .. n : b[i] = q[i]
    BY <2>1, <2>3, <2>4
  <2>6. \A i \in 1 .. Len(a) : a[i] = b[i]
    BY <2>5, <2>a
  <2>7. a = b
    BY <2>3, <2>4, <2>5, <2>6, SeqEqual
  <2> QED BY <2>7, <2>c
<1>2. IsStrictPrefix(d, State(d))
  <2> DEFINE e == State(d)
  <2>1. d \in Seq(Names) /\ Len(d) = 1 /\ e \in Seq(Names) /\ Len(e) = 2 /\ e[1] = d[1]
    BY StatePath
  <2> HIDE DEF e
  <2>2. Len(d) < Len(e) /\ \A i \in 1 .. Len(d) : d[i] = e[i]
    BY <2>1
  <2>3. IsStrictPrefix(d, e)
    BY <1>1, <2>1, <2>2
  <2> QED BY <2>3 DEF e
<1>3. ASSUME NEW s \in Range(StateDirs) PROVE IsStrictPrefix(State(d), Sub(d, s))
  <2> DEFINE e == State(d)
             f == Sub(d, s)
  <2>1. /\ e \in Seq(Names) /\ Len(e) = 2 /\ e[1] = d[1] /\ e[2] = ".state"
        /\ f \in Seq(Names) /\ Len(f) = 3 /\ f[1] = d[1] /\ f[2] = ".state"
    BY StatePath, SubPath
  <2> HIDE DEF e, f
  <2>2. Len(e) < Len(f) /\ \A i \in 1 .. Len(e) : e[i] = f[i]
    BY <2>1
  <2>3. IsStrictPrefix(e, f)
    BY <1>1, <2>1, <2>2
  <2> QED BY <2>3 DEF e, f
<1> QED BY <1>2, <1>3

(* An unlinked file. *)
LEMMA TreeLess ==
    ASSUME Tree, UNCHANGED dirs, files' \subseteq files, plain' \subseteq plain, UNCHANGED finds
    PROVE  Tree'
<1>1. IsFiniteSet(files')
  BY FS_Subset DEF Tree
<1>2. files' \subseteq [dir : FileDirs, id : Nat \cup {NoId}, input : {Empty} \cup 0 .. finds']
  BY DEF Tree
<1>3. \A f \in files' : f.dir \in dirs' /\ (f.id = NoId => f.dir = Crashes)
  BY DEF Tree
<1>4. \A f, g \in files' : f.dir = g.dir /\ f.id = g.id => f = g
  BY DEF Tree
<1>5. plain' \subseteq {CurInput, PlotData} /\ (<< >> \notin dirs' => plain' = {})
  BY DEF Tree
<1>6. /\ dirs' \subseteq KnownDirs
      /\ dirs' # {} => << >> \in dirs'
      /\ \A d \in {Queue, Resume} :
         /\ State(d) \in dirs' => d \in dirs'
         /\ \A s \in Range(StateDirs) : Sub(d, s) \in dirs' => State(d) \in dirs'
  BY DEF Tree
<1> HIDE DEF KnownDirs, FileDirs
<1> QED BY <1>1, <1>2, <1>3, <1>4, <1>5, <1>6, Zenon DEF Tree

(* A directory removed that was empty, or held no other. *)
LEMMA TreeWithout ==
    ASSUME Tree, NEW d, d # << >>, \A e \in dirs : ~IsStrictPrefix(d, e),
           dirs' = dirs \ {d}, files' \subseteq files, \A f \in files' : f.dir # d, UNCHANGED <<plain, finds>>
    PROVE  Tree'
<1>1. IsFiniteSet(files')
  BY FS_Subset DEF Tree
<1>2. files' \subseteq [dir : FileDirs, id : Nat \cup {NoId}, input : {Empty} \cup 0 .. finds']
  BY DEF Tree
<1>3. \A f \in files' : f.dir \in dirs' /\ (f.id = NoId => f.dir = Crashes)
  BY DEF Tree
<1>4. \A f, g \in files' : f.dir = g.dir /\ f.id = g.id => f = g
  BY DEF Tree
<1>5. plain' \subseteq {CurInput, PlotData} /\ (<< >> \notin dirs' => plain' = {})
  BY DEF Tree
<1>6. /\ dirs' \subseteq KnownDirs
      /\ dirs' # {} => << >> \in dirs'
  BY DEF Tree
<1>7. ASSUME NEW b \in {Queue, Resume}
      PROVE  /\ State(b) \in dirs' => b \in dirs'
             /\ \A s \in Range(StateDirs) : Sub(b, s) \in dirs' => State(b) \in dirs'
  <2>1. IsStrictPrefix(b, State(b)) /\ \A s \in Range(StateDirs) : IsStrictPrefix(State(b), Sub(b, s))
    BY Under DEF Bases
  <2>2. /\ State(b) \in dirs => b \in dirs
        /\ \A s \in Range(StateDirs) : Sub(b, s) \in dirs => State(b) \in dirs
    BY Zenon DEF Tree
  <2> QED BY <2>1, <2>2
<1> HIDE DEF KnownDirs, FileDirs
<1> QED BY <1>1, <1>2, <1>3, <1>4, <1>5, <1>6, <1>7, Zenon DEF Tree

(* A directory made where its parent was. *)
LEMMA TreeWith ==
    ASSUME Tree, NEW d \in KnownDirs, d # << >> => Front(d) \in dirs,
           dirs' = dirs \cup {d}, UNCHANGED <<files, finds, plain>>
    PROVE  Tree'
<1>2. files' \subseteq [dir : FileDirs, id : Nat \cup {NoId}, input : {Empty} \cup 0 .. finds'] /\ IsFiniteSet(files')
  BY DEF Tree
<1>3. \A f \in files' : f.dir \in dirs' /\ (f.id = NoId => f.dir = Crashes)
  BY DEF Tree
<1>4. \A f, g \in files' : f.dir = g.dir /\ f.id = g.id => f = g
  BY DEF Tree
<1>5. plain' \subseteq {CurInput, PlotData} /\ (<< >> \notin dirs' => plain' = {})
  BY DEF Tree
<1>6. /\ dirs' \subseteq KnownDirs
      /\ dirs' # {} => << >> \in dirs'
  BY DEF Tree
<1>7. ASSUME NEW b \in {Queue, Resume}
      PROVE  /\ State(b) \in dirs' => b \in dirs'
             /\ \A s \in Range(StateDirs) : Sub(b, s) \in dirs' => State(b) \in dirs'
  <2>1. b # << >> /\ State(b) # << >> /\ \A s \in Range(StateDirs) : Sub(b, s) # << >>
    BY PathsDiffer DEF Bases
  <2>2. /\ State(b) \in dirs => b \in dirs
        /\ \A s \in Range(StateDirs) : Sub(b, s) \in dirs => State(b) \in dirs
    BY Zenon DEF Tree
  <2>3. Front(State(b)) = b /\ \A s \in Range(StateDirs) : Front(Sub(b, s)) = State(b)
    BY Fronts DEF Bases
  <2> QED BY <2>1, <2>2, <2>3
<1> HIDE DEF KnownDirs, FileDirs
<1> QED BY <1>2, <1>3, <1>4, <1>5, <1>6, <1>7, Zenon DEF Tree

(* A file more, or a file written. *)
LEMMA TreeFile ==
    ASSUME Tree, UNCHANGED <<dirs, plain>>, finds' = finds,
           NEW f \in [dir : FileDirs, id : Nat \cup {NoId}, input : {Empty} \cup 0 .. finds],
           f.dir \in dirs, f.id = NoId => f.dir = Crashes,
           NEW old, files' = (files \ old) \cup {f},
           \A g \in files : g.dir = f.dir /\ g.id = f.id => g \in old
    PROVE  Tree'
<1>1. IsFiniteSet(files')
  <2>1. IsFiniteSet(files)
    BY DEF Tree
  <2>2. IsFiniteSet(files \ old)
    BY <2>1, FS_Subset
  <2> QED BY <2>2, FS_AddElement
<1>2. files' \subseteq [dir : FileDirs, id : Nat \cup {NoId}, input : {Empty} \cup 0 .. finds']
  BY DEF Tree
<1>3. \A g \in files' : g.dir \in dirs' /\ (g.id = NoId => g.dir = Crashes)
  BY DEF Tree
<1>4. \A g, h \in files' : g.dir = h.dir /\ g.id = h.id => g = h
  BY DEF Tree
<1>5. plain' \subseteq {CurInput, PlotData} /\ (<< >> \notin dirs' => plain' = {})
  BY DEF Tree
<1>6. /\ dirs' \subseteq KnownDirs
      /\ dirs' # {} => << >> \in dirs'
      /\ \A d \in {Queue, Resume} :
         /\ State(d) \in dirs' => d \in dirs'
         /\ \A s \in Range(StateDirs) : Sub(d, s) \in dirs' => State(d) \in dirs'
  BY DEF Tree
<1> HIDE DEF KnownDirs, FileDirs
<1> QED BY <1>1, <1>2, <1>3, <1>4, <1>5, <1>6, Zenon DEF Tree

-----------------------------------------------------------------------------
(* Starting: the directory is cleaned up and rebuilt. *)

(* The next command, and what its execution keeps. *)
LEMMA TypedStep ==
    ASSUME Typed, Step, todo # << >>, UNCHANGED <<finds, stale, saved, filed>>
    PROVE  Typed' /\ todo' = Tail(todo) /\ Len(todo') = Len(todo) - 1 /\ \A j \in 1 .. Len(todo) - 1 : todo'[j] = todo[j + 1]
<1>1. todo \in Seq(Command) /\ todo' = Tail(todo) /\ Len(todo) \in Nat
  BY DEF Typed, Step
<1>2. todo' \in Seq(Command) /\ Len(todo') = Len(todo) - 1 /\ \A j \in 1 .. Len(todo) - 1 : todo'[j] = todo[j + 1]
  BY <1>1, HeadTailProperties, Zenon
<1> HIDE DEF Command
<1>3. Typed'
  BY <1>2 DEF Typed, Step, session
<1> QED BY <1>1, <1>2, <1>3, Zenon

LEMMA StartingHead ==
    ASSUME Typed, Starting
    PROVE  /\ todo # << >> /\ Len(todo) \in Nat /\ Done \in Nat /\ N \in Nat /\ N >= 1 /\ Total = 2 * N + 17
           /\ Done + 1 \in 1 .. Total
           /\ Next1 = Program(inPlace)[Done + 1]
           /\ inPlace \in BOOLEAN
           /\ DOMAIN todo = 1 .. Len(todo)
<1>1. Len(todo) \in 1 .. Total /\ todo \in Seq(Command) /\ inPlace \in BOOLEAN
  BY DEF Typed, Starting
<1>2. N \in Nat /\ N >= 1 /\ Total = 2 * N + 17
  BY StateNames DEF Total
<1>3. Done \in Nat /\ Done + 1 \in 1 .. Total
  BY <1>1, <1>2 DEF Done
<1>4. todo # << >> /\ DOMAIN todo = 1 .. Len(todo)
  BY <1>1
<1>5. 1 \in DOMAIN todo
  BY <1>1, <1>4
<1>6. Next1 = todo[1]
  BY <1>1, <1>4 DEF Next1
<1>7. todo[1] = Program(inPlace)[Done + 1]
  BY <1>5, Zenon DEF Starting
<1> QED BY <1>1, <1>2, <1>3, <1>4, <1>6, <1>7

LEMMA StartingNext ==
    ASSUME Typed, Starting, Step, Done + 1 # Total, UNCHANGED <<finds, stale, saved, filed>>
    PROVE  /\ Typed' /\ Runs' /\ mem' = << >> /\ crashes' = 0
           /\ Len(todo') \in 1 .. Total
           /\ Done' = Done + 1
           /\ \A j \in DOMAIN todo' : todo'[j] = Program(inPlace')[Done' + j]
<1>1. /\ todo # << >> /\ Len(todo) \in Nat /\ Done \in Nat /\ N \in Nat /\ N >= 1 /\ Total = 2 * N + 17
      /\ Done + 1 \in 1 .. Total
  BY StartingHead
<1>2. Typed' /\ Len(todo') = Len(todo) - 1 /\ \A j \in 1 .. Len(todo) - 1 : todo'[j] = todo[j + 1]
  BY TypedStep, <1>1
<1>3. Done = Total - Len(todo) /\ Done' = Total - Len(todo')
  BY DEF Done
<1>4. Done' = Done + 1 /\ Len(todo') \in 1 .. Total
  <2> HIDE DEF Done, Total, N
  <2>1. Done' = Done + 1 /\ Len(todo') = Len(todo) - 1
    BY <1>1, <1>2, <1>3
  <2>2. Len(todo) \in 1 .. Total /\ Len(todo) # 1
    <3>1. Len(todo) \in 1 .. Total
      BY DEF Starting
    <3>2. ASSUME NEW n, NEW t \in Nat, n \in 1 .. t, NEW e, e = t - n, e + 1 # t PROVE n # 1
      BY <3>2
    <3>3. Total \in Nat
      BY <1>1
    <3> QED BY <1>3, <3>1, <3>2, <3>3, Zenon
  <2> QED BY <1>1, <2>1, <2>2
<1>5. todo' \in Seq(Command)
  BY <1>2 DEF Typed
<1>6. ASSUME NEW j \in DOMAIN todo' PROVE todo'[j] = Program(inPlace')[Done' + j]
  <2>1. j \in 1 .. Len(todo) - 1
    BY <1>2, <1>5
  <2>2. j + 1 \in DOMAIN todo /\ Done' + j = Done + (j + 1)
    BY <1>1, <1>4, <2>1, StartingHead
  <2>3. todo[j + 1] = Program(inPlace)[Done + (j + 1)]
    BY <2>2, Zenon DEF Starting
  <2>4. inPlace' = inPlace
    BY DEF Step, session
  <2> QED BY <1>2, <2>1, <2>2, <2>3, <2>4
<1>7. Runs' /\ mem' = << >> /\ crashes' = 0
  BY DEF Starting, Runs, Step, session
<1> QED BY <1>2, <1>4, <1>6, <1>7, Zenon

LEMMA InSub ==
    /\ DetDone(Queue) = Sub(Queue, "deterministic_done") /\ DetDone(Resume) = Sub(Resume, "deterministic_done")
    /\ \E j \in 1 .. N : StateDirs[j] = "deterministic_done" /\ DetDone(Queue) = Sub(Queue, StateDirs[j])
                         /\ DetDone(Resume) = Sub(Resume, StateDirs[j])
BY StateNames DEF DetDone

(* Where the files are. *)
LEMMA FilesAt ==
    ASSUME Tree
    PROVE  /\ \A d : In(d) # {} => d \in dirs /\ d \in FileDirs
           /\ \A f \in files : f.dir \in dirs /\ f.id \in Nat \cup {NoId} /\ (f.id = NoId => f.dir = Crashes)
                               /\ f.input \in {Empty} \cup 0 .. finds /\ f = File(f.dir, f.id, f.input)
           /\ \A d, f : f \in In(d) <=> f \in files /\ f.dir = d
<1>1. \A f \in files : f.dir \in dirs /\ f.dir \in FileDirs /\ f.id \in Nat \cup {NoId} /\ (f.id = NoId => f.dir = Crashes)
                               /\ f.input \in {Empty} \cup 0 .. finds
  <2> HIDE DEF FileDirs
  <2> QED BY DEF Tree
<1>2. \A d, f : f \in In(d) <=> f \in files /\ f.dir = d
  BY DEF In
<1>3. \A d : In(d) # {} => d \in dirs /\ d \in FileDirs
  BY <1>1, <1>2
<1>4. ASSUME NEW f \in files PROVE f = File(f.dir, f.id, f.input)
  <2> HIDE DEF FileDirs
  <2>1. f \in [dir : FileDirs, id : Nat \cup {NoId}, input : {Empty} \cup 0 .. finds]
    BY DEF Tree
  <2> QED BY <2>1 DEF File
<1> HIDE DEF FileDirs
<1> QED BY <1>1, <1>2, <1>3, <1>4

LEMMA InPrimed ==
    \A d, f : f \in In(d)' <=> f \in files' /\ f.dir = d
BY DEF In

(* The directories the clean-up removes, and the command that does. *)
RemovedAt(p, d) ==
    \/ p = 1 /\ ~inPlace /\ d = Synced
    \/ \E j \in 1 .. N : p = 1 + j /\ d = Sub(Queue, StateDirs[j])
    \/ p = N + 2 /\ d = State(Queue)
    \/ p = N + 3 /\ d = Queue
    \/ p = N + 4 /\ inPlace /\ d = Crashes
    \/ p = N + 5 /\ d = Crashes
    \/ p = N + 6 /\ inPlace /\ d = Hangs
    \/ p = (IF inPlace THEN N + 7 ELSE N + 6) /\ d = Hangs

(* A directory gone that the clean-up has come to. *)
LEMMA Removed ==
    ASSUME Tree, StartingDirs, Done \in Nat, NEW p, p = Done + 1, Done' = p, NEW d, inPlace \in BOOLEAN, inPlace' = inPlace,
           RemovedAt(p, d),
           dirs' = dirs \ {d}, files' \subseteq files, \A f \in files' : f.dir # d, UNCHANGED plain
    PROVE  StartingDirs'
<1> DEFINE s(j) == Sub(Queue, StateDirs[j])
<1> USE DEF RemovedAt
<1>1. N \in Nat /\ N >= 1 /\ Total = 2 * N + 17 /\ p \in Nat
  BY StateNames DEF Total
<1>2. /\ Queue # Synced /\ Queue # Crashes /\ Queue # Hangs /\ Synced # Crashes /\ Synced # Hangs /\ Crashes # Hangs
      /\ << >> \notin {Queue, Synced, Crashes, Hangs, State(Queue)}
      /\ State(Queue) \notin {Queue, Synced, Crashes, Hangs}
      /\ \A j \in 1 .. N : s(j) \notin {Queue, Synced, Crashes, Hangs, State(Queue), << >>}
      /\ \A j, k \in 1 .. N : s(j) = s(k) => j = k
  BY PathsDiffer, StateNames DEF Bases, Leaves
<1>3. \E j \in 1 .. N : DetDone(Queue) = s(j)
  BY InSub
<1>4. \A f \in files' : f \in files /\ f.dir \in dirs
  BY FilesAt, Zenon
<1> HIDE DEF s, N, Total
<1>5. ~inPlace => Absent(Synced, 1, 2 * N + 13)'
  BY <1>1, <1>2 DEF StartingDirs, Absent
<1>6. \A j \in 1 .. N : Absent(s(j), 1 + j, N + 12 + j)' /\ Present(s(j), N + 12 + j, Total)'
  <2> SUFFICES ASSUME NEW j \in 1 .. N PROVE Absent(s(j), 1 + j, N + 12 + j)' /\ Present(s(j), N + 12 + j, Total)'
    OBVIOUS
  <2>1. Absent(s(j), 1 + j, N + 12 + j)
    BY DEF StartingDirs, s
  <2>2. ~(N + 12 + j <= p)
    BY <1>1
  <2>3. p = 1 + j => d = s(j)
    BY <1>1 DEF s
  <2> QED BY <1>1, <2>1, <2>2, <2>3 DEF Absent, Present
<1>7. Absent(Queue, N + 3, N + 11)' /\ Present(Queue, N + 11, Total)'
  BY <1>1, <1>2 DEF StartingDirs, Absent, Present
<1>8. Absent(State(Queue), N + 2, N + 12)' /\ Present(State(Queue), N + 12, Total)'
  BY <1>1, <1>2 DEF StartingDirs, Absent, Present
<1>9. Absent(Crashes, IF inPlace THEN N + 4 ELSE N + 5, 2 * N + 14)' /\ Present(Crashes, 2 * N + 14, Total)'
  BY <1>1, <1>2 DEF StartingDirs, Absent, Present
<1>10. Absent(Hangs, IF inPlace THEN N + 7 ELSE N + 6, 2 * N + 15)'
  BY <1>1, <1>2 DEF StartingDirs, Absent, Present
<1>11. N + 3 <= p => In(Queue)' = {} /\ In(DetDone(Queue))' = {}
  <2>1. ASSUME N + 3 <= p, NEW f \in In(Queue)' PROVE FALSE
    <3>1. f \in files' /\ f.dir = Queue
      BY <2>1, InPrimed
    <3>2. CASE p = N + 3
      BY <1>1, <1>2, <3>1, <3>2
    <3>3. CASE p # N + 3
      <4>1. N + 3 <= Done
        BY <1>1, <2>1, <3>3
      <4>2. In(Queue) = {}
        BY <4>1 DEF StartingDirs
      <4> QED BY <1>4, <3>1, <4>2, FilesAt
    <3> QED BY <3>2, <3>3
  <2>2. ASSUME N + 3 <= p, NEW f \in In(DetDone(Queue))' PROVE FALSE
    <3>1. f \in files' /\ f.dir = DetDone(Queue)
      BY <2>2, InPrimed
    <3>2. PICK j \in 1 .. N : DetDone(Queue) = s(j)
      BY <1>3
    <3>3. Absent(s(j), 1 + j, N + 12 + j)
      BY DEF StartingDirs, s
    <3>4. s(j) \notin dirs
      BY <1>1, <2>2, <3>3 DEF Absent
    <3> QED BY <1>4, <3>1, <3>2, <3>4
  <2> QED BY <2>1, <2>2
<1>12. N + 4 <= p => ~Exists(Crashes, NoId)'
  <2>1. ASSUME N + 4 <= p, NEW f \in files', f.dir = Crashes, f.id = NoId PROVE FALSE
    <3>1. CASE N + 4 <= Done
      BY <1>4, <2>1, <3>1, FilesAt DEF StartingDirs, Exists
    <3>2. CASE ~(N + 4 <= Done)
      <4>1. p = N + 4
        BY <1>1, <2>1, <3>2
      <4>2. d = Crashes
        BY <1>1, <4>1
      <4> QED BY <2>1, <4>2
    <3> QED BY <3>1, <3>2
  <2> QED BY <2>1, InPrimed DEF Exists
<1>13. N + 5 <= p => In(Crashes)' = {}
  <2>1. ASSUME N + 5 <= p, NEW f \in files', f.dir = Crashes PROVE FALSE
    <3>1. CASE N + 5 <= Done
      BY <1>4, <2>1, <3>1, FilesAt DEF StartingDirs
    <3>2. CASE ~(N + 5 <= Done)
      BY <1>1, <1>2, <2>1, <3>2
    <3> QED BY <3>1, <3>2
  <2> QED BY <2>1, InPrimed
<1>14. ~(N + 10 <= p)
  BY <1>1
<1>15. << >> \in dirs'
  <2>1. d # << >>
    BY <1>2 DEF s
  <2> QED BY <2>1 DEF StartingDirs
<1> QED BY <1>1, <1>5, <1>6, <1>7, <1>8, <1>9, <1>10, <1>11, <1>12, <1>13, <1>14, <1>15 DEF StartingDirs, s

(* What a directory holds, before and after a step. *)
LEMMA HoldsAt ==
    /\ \A d, i : i \in Holds(d) <=> \E f \in files : f.dir = d /\ f.input = i
    /\ \A d, i : i \in Holds(d)' <=> \E f \in files' : f.dir = d /\ f.input = i
BY DEF Holds, In

(* delete_files: a file gone, or the directory, which was found empty; no    *)
(* file it does not match is left at that place of the program.              *)
LEMMA StartingClear ==
    ASSUME Typed, Tree, Starting, Clear, UNCHANGED <<finds, stale>>
    PROVE  Typed' /\ Tree' /\ Starting'
<1> DEFINE d == Next1.path
           p == Done + 1
<1>1. /\ todo # << >> /\ Len(todo) \in Nat /\ Done \in Nat /\ N \in Nat /\ N >= 1 /\ Total = 2 * N + 17
      /\ p \in 1 .. Total
      /\ Next1 = Program(inPlace)[p]
      /\ inPlace \in BOOLEAN
  BY StartingHead
<1>2. Next1.op = "clear" /\ UNCHANGED <<plain, saved, filed, marked, backups, atRisk>>
  BY DEF Clear, Does, history
<1>3. \/ p = 1 /\ ~inPlace /\ d = Synced
      \/ \E j \in 1 .. N : p = 1 + j /\ d = Sub(Queue, StateDirs[j])
      \/ p = N + 3 /\ d = Queue
      \/ p = N + 5 /\ d = Crashes
      \/ p = (IF inPlace THEN N + 7 ELSE N + 6) /\ d = Hangs
  BY <1>1, <1>2, Heads
<1>4. p # Total /\ (inPlace => p # 1) /\ p # N + 4 /\ ~(N + 10 <= p)
  BY <1>1, <1>3
<1>5. d # << >> /\ d # Resume /\ (d = Crashes => p = N + 5) /\ d \in Bases \cup Leaves \cup {Sub(Queue, StateDirs[j]) : j \in 1 .. N}
  BY <1>1, <1>3, PathsDiffer, StateNames DEF Bases, Leaves
<1>6. StartingDirs /\ StartingKept /\ Runs
  BY DEF Starting
<1>7. \A f \in files : f.dir \in dirs /\ (f.id = NoId => f.dir = Crashes)
  BY FilesAt, Zenon
<1>8. ASSUME d \notin dirs \/ (d \in dirs /\ {f \in In(d) : f.id # NoId} = {})
      PROVE  (\A f \in files : f.dir # d) /\ (d \in dirs => IsEmpty(d))
  <2>1. \A f \in files : f.dir # d
    <3>1. SUFFICES ASSUME NEW f \in files, f.dir = d PROVE FALSE
      OBVIOUS
    <3>2. f.id = NoId /\ d = Crashes
      BY <1>7, <1>8, <3>1 DEF In
    <3>3. Exists(Crashes, NoId)
      BY <3>1, <3>2, FilesAt DEF Exists
    <3>4. N + 4 <= Done
      BY <1>1, <1>5, <3>2
    <3> QED BY <1>6, <3>3, <3>4 DEF StartingDirs
  <2>2. ASSUME NEW e \in dirs, IsStrictPrefix(d, e) PROVE FALSE
    <3>1. e \in KnownDirs
      BY Zenon DEF Tree
    <3>2. CASE d = Queue
      <4>1. e = State(Queue) \/ \E s \in Range(StateDirs) : e = Sub(Queue, s)
        BY <3>1, <3>2, <2>2, Below DEF Bases
      <4>2. State(Queue) \in dirs
        BY <4>1, Zenon DEF Tree
      <4>3. p = N + 3
        BY <1>1, <1>3, <3>2, PathsDiffer, StateNames DEF Bases, Leaves
      <4>4. N + 2 <= Done /\ Done < N + 12
        BY <1>1, <4>3
      <4> QED BY <1>6, <4>2, <4>4 DEF StartingDirs, Absent
    <3>3. CASE d \in Leaves
      BY <3>1, <3>3, <2>2, Below
    <3>4. CASE \E j \in 1 .. N : d = Sub(Queue, StateDirs[j])
      BY <3>1, <3>4, <2>2, Below, StateNames DEF Bases
    <3> QED BY <1>5, <3>2, <3>3, <3>4 DEF Bases
  <2>3. IsEmpty(d)
    BY <2>1, <2>2 DEF IsEmpty, In
  <2> QED BY <2>1, <2>3
<1>9. ASSUME \A f \in files : f.dir # d, d \in dirs => IsEmpty(d), Step, dirs' = dirs \ {d}, UNCHANGED files
      PROVE  Typed' /\ Tree' /\ Starting'
  <2>1. /\ Typed' /\ Runs' /\ mem' = << >> /\ crashes' = 0
        /\ Len(todo') \in 1 .. Total
        /\ Done' = p
        /\ \A j \in DOMAIN todo' : todo'[j] = Program(inPlace')[Done' + j]
    BY <1>2, <1>4, <1>9, StartingNext
  <2>2. inPlace' = inPlace
    BY <1>9 DEF Step, session
  <2>3. Tree'
    <3>1. CASE d \in dirs
      <4>1. \A e \in dirs : ~IsStrictPrefix(d, e)
        BY <1>9, <3>1 DEF IsEmpty
      <4> HIDE DEF d
      <4> QED BY <1>2, <1>5, <1>9, <4>1, TreeWithout
    <3>2. CASE d \notin dirs
      <4>1. UNCHANGED dirs
        BY <1>9, <3>2
      <4> QED BY <1>2, <1>9, <4>1, TreeLess
    <3> QED BY <3>1, <3>2
  <2>4. StartingDirs'
    <3> HIDE DEF d, p
    <3>1. p = Done + 1
      BY DEF p
    <3>2. RemovedAt(p, d)
      BY <1>3 DEF RemovedAt
    <3>3. files' \subseteq files /\ (\A f \in files' : f.dir # d) /\ UNCHANGED plain /\ dirs' = dirs \ {d}
      BY <1>2, <1>9
    <3> QED BY <1>1, <1>6, <2>1, <2>2, <3>1, <3>2, <3>3, Removed
  <2>5. StartingKept'
    <3>1. /\ ~inPlace => saved = {} /\ filed = {} /\ (~stale => Resume \notin dirs)
          /\ inPlace => saved \subseteq atRisk \cup Holds(Resume)
          /\ IF inPlace /\ N + 4 <= Done THEN filed \subseteq backups ELSE CrashesKept
      BY <1>1, <1>4, <1>6 DEF StartingKept
    <3>2. Holds(Resume)' = Holds(Resume) /\ (CrashesKept => CrashesKept')
      BY <1>2, <1>9 DEF Holds, In, CrashesKept
    <3>3. N + 4 <= Done' <=> N + 4 <= Done
      BY <1>1, <1>4, <2>1
    <3> HIDE DEF p, d
    <3> QED BY <1>2, <1>9, <2>2, <3>1, <3>2, <3>3 DEF StartingKept
  <2> QED BY <2>1, <2>3, <2>4, <2>5, Zenon DEF Starting
<1>10. CASE d \notin dirs /\ Step /\ UNCHANGED <<dirs, files>>
  <2>1. dirs' = dirs \ {d}
    BY <1>10
  <2> QED BY <1>8, <1>9, <1>10, <2>1
<1>11. CASE d \in dirs /\ {f \in In(d) : f.id # NoId} = {}
  <2>1. (\A f \in files : f.dir # d) /\ IsEmpty(d)
    BY <1>8, <1>11
  <2>2. Step /\ dirs' = dirs \ {d} /\ UNCHANGED files
    BY <1>11, <2>1 DEF Clear
  <2> QED BY <1>9, <2>1, <2>2
<1>12. CASE d \in dirs /\ (\E f \in {f \in In(d) : f.id # NoId} : files' = files \ {f}) /\ UNCHANGED <<dirs, todo, session>>
  <2>1. PICK f \in files : f.dir = d /\ files' = files \ {f}
    BY <1>12 DEF In
  <2>2. Typed'
    <3> HIDE DEF Command
    <3> QED BY <1>2, <1>12 DEF Typed, session
  <2>3. Tree'
    BY <1>2, <1>12, <2>1, TreeLess
  <2>4. Done' = Done /\ inPlace' = inPlace /\ todo' = todo
    BY <1>12 DEF Done, session
  <2>5. Runs' /\ mem' = << >> /\ crashes' = 0 /\ Len(todo') \in 1 .. Total
        /\ \A j \in DOMAIN todo' : todo'[j] = Program(inPlace')[Done' + j]
    <3> HIDE DEF Done, Total, Program
    <3> QED BY <1>12, <2>4 DEF Starting, Runs, session
  <2>6. StartingDirs'
    <3>1. \A e : In(e)' \subseteq In(e)
      BY <2>1 DEF In
    <3>2. \A e, x, y : (Absent(e, x, y) => Absent(e, x, y)') /\ (Present(e, x, y) => Present(e, x, y)')
      BY <1>12, <2>4 DEF Absent, Present
    <3>3. ~Exists(Crashes, NoId) => ~Exists(Crashes, NoId)'
      BY <3>1 DEF Exists
    <3> HIDE DEF Done, Total, Program, d, p, N
    <3> QED BY <1>2, <1>6, <1>12, <2>4, <3>1, <3>2, <3>3 DEF StartingDirs
  <2>7. StartingKept'
    <3>1. /\ ~inPlace => saved = {} /\ filed = {} /\ (~stale => Resume \notin dirs)
          /\ inPlace => saved \subseteq atRisk \cup Holds(Resume)
          /\ IF inPlace /\ N + 4 <= Done THEN filed \subseteq backups ELSE CrashesKept
      BY <1>1, <1>4, <1>6 DEF StartingKept
    <3>2. \A i \in Holds(Resume) : i \in Holds(Resume)'
      BY <1>5, <2>1, HoldsAt
    <3>3. d # Crashes => \A i \in Holds(Crashes) : i \in Holds(Crashes)'
      BY <2>1, HoldsAt
    <3>4. d = Crashes => N + 4 <= Done
      BY <1>1, <1>5
    <3>5. IF inPlace /\ N + 4 <= Done THEN filed' \subseteq backups' ELSE CrashesKept'
      BY <1>2, <3>1, <3>3, <3>4 DEF CrashesKept
    <3> HIDE DEF p, d, Done
    <3>6. /\ ~inPlace' => saved' = {} /\ filed' = {} /\ (~stale' => Resume \notin dirs')
          /\ inPlace' => saved' \subseteq atRisk' \cup Holds(Resume)'
      BY <1>2, <1>12, <2>4, <3>1, <3>2
    <3> QED BY <2>4, <3>5, <3>6 DEF StartingKept
  <2> QED BY <2>2, <2>3, <2>5, <2>6, <2>7, Zenon DEF Starting
<1> QED BY <1>10, <1>11, <1>12 DEF Clear

(* The rmdir of .state finds it empty. *)
LEMMA StartingRmdir ==
    ASSUME Typed, Tree, Starting, Rmdir, UNCHANGED <<finds, stale>>
    PROVE  Typed' /\ Tree' /\ Starting'
<1> DEFINE d == Next1.path
           p == Done + 1
<1>1. /\ todo # << >> /\ Len(todo) \in Nat /\ Done \in Nat /\ N \in Nat /\ N >= 1 /\ Total = 2 * N + 17
      /\ p \in 1 .. Total
      /\ Next1 = Program(inPlace)[p]
      /\ inPlace \in BOOLEAN
  BY StartingHead
<1>2. Next1.op = "rmdir" /\ UNCHANGED <<files, plain, saved, filed, marked, backups, atRisk>>
  BY DEF Rmdir, Does, history
<1>3. p = N + 2 /\ d = State(Queue)
  BY <1>1, <1>2, Heads
<1>4. p # Total
  BY <1>1, <1>3
<1>5. d # << >> /\ d # Queue /\ d # Resume /\ d # Crashes
  BY <1>3, PathsDiffer DEF Bases, Leaves
<1>6. StartingDirs /\ StartingKept /\ Runs
  BY DEF Starting
<1>7. \A f \in files : f.dir # d
  <2>1. \A f \in files : f.dir \in FileDirs
    <3> HIDE DEF FileDirs
    <3> QED BY DEF Tree
  <2>2. d \notin FileDirs
    BY <1>3, <1>5, InSub, StateNames, PathsDiffer DEF FileDirs, Bases
  <2> QED BY <2>1, <2>2
<1>8. \A e \in dirs : ~IsStrictPrefix(d, e)
  <2> SUFFICES ASSUME NEW e \in dirs, IsStrictPrefix(d, e) PROVE FALSE
    OBVIOUS
  <2>1. e \in KnownDirs
    BY Zenon DEF Tree
  <2>2. PICK s \in Range(StateDirs) : e = Sub(Queue, s)
    BY <1>3, <2>1, Below DEF Bases
  <2>3. PICK j \in 1 .. N : s = StateDirs[j]
    BY StateNames
  <2>4. Absent(Sub(Queue, StateDirs[j]), 1 + j, N + 12 + j)
    BY <1>6 DEF StartingDirs
  <2>5. 1 + j <= Done /\ Done < N + 12 + j
    BY <1>1, <1>3
  <2> QED BY <2>2, <2>3, <2>4, <2>5 DEF Absent
<1>9. IsEmpty(d)
  BY <1>7, <1>8 DEF IsEmpty, In
<1>10. Step /\ dirs' = dirs \ {d}
  BY <1>9 DEF Rmdir
<1>11. /\ Typed' /\ Runs' /\ mem' = << >> /\ crashes' = 0
       /\ Len(todo') \in 1 .. Total
       /\ Done' = p
       /\ \A j \in DOMAIN todo' : todo'[j] = Program(inPlace')[Done' + j]
  BY <1>2, <1>4, <1>10, StartingNext
<1>12. inPlace' = inPlace
  BY <1>10 DEF Step, session
<1>13. Tree'
  <2> HIDE DEF d
  <2>1. \A f \in files' : f.dir # d
    BY <1>2, <1>7
  <2> QED BY <1>2, <1>5, <1>8, <1>10, <2>1, TreeWithout
<1>14. StartingDirs'
  <2> HIDE DEF d, p
  <2>1. p = Done + 1
    BY DEF p
  <2>2. RemovedAt(p, d)
    BY <1>3 DEF RemovedAt
  <2>3. files' \subseteq files /\ (\A f \in files' : f.dir # d) /\ UNCHANGED plain /\ dirs' = dirs \ {d}
    BY <1>2, <1>7, <1>10
  <2> QED BY <1>1, <1>6, <1>11, <1>12, <2>1, <2>2, <2>3, Removed
<1>15. StartingKept'
  <2>1. /\ ~inPlace => saved = {} /\ filed = {} /\ (~stale => Resume \notin dirs)
        /\ inPlace => saved \subseteq atRisk \cup Holds(Resume)
        /\ CrashesKept
    BY <1>1, <1>3, <1>6 DEF StartingKept
  <2>2. Holds(Resume)' = Holds(Resume) /\ (CrashesKept => CrashesKept')
    BY <1>2 DEF Holds, In, CrashesKept
  <2>3. ~(N + 4 <= Done')
    BY <1>1, <1>3, <1>11
  <2> HIDE DEF p, d
  <2> QED BY <1>2, <1>10, <1>12, <2>1, <2>2, <2>3 DEF StartingKept
<1> QED BY <1>11, <1>13, <1>14, <1>15, Zenon DEF Starting

(* The crashes and hangs moved out of the way. *)
LEMMA StartingBackup ==
    ASSUME Typed, Tree, Starting, Backup, UNCHANGED <<finds, stale>>
    PROVE  Typed' /\ Tree' /\ Starting'
<1> DEFINE d == Next1.path
           p == Done + 1
<1>1. /\ todo # << >> /\ Len(todo) \in Nat /\ Done \in Nat /\ N \in Nat /\ N >= 1 /\ Total = 2 * N + 17
      /\ p \in 1 .. Total
      /\ Next1 = Program(inPlace)[p]
      /\ inPlace \in BOOLEAN
  BY StartingHead
<1>2. Next1.op = "backup" /\ Step /\ UNCHANGED <<plain, saved, filed, marked, atRisk>>
      /\ dirs' = dirs \ {d} /\ files' = files \ In(d) /\ backups' = backups \cup Holds(d)
  BY DEF Backup, Does
<1>a. inPlace /\ ((p = N + 4 /\ d = Crashes) \/ (p = N + 6 /\ d = Hangs))
  BY <1>1, <1>2, Heads
<1>b. inPlace
  BY <1>a
<1>3. (p = N + 4 /\ d = Crashes) \/ (p = N + 6 /\ d = Hangs)
  BY <1>a
<1>4. p # Total
  BY <1>1, <1>3
<1>5. d # << >> /\ d # Resume /\ d \in Leaves
  BY <1>3, PathsDiffer DEF Bases, Leaves
<1>6. StartingDirs /\ StartingKept /\ Runs
  BY DEF Starting
<1>7. files' \subseteq files /\ \A f \in files' : f.dir # d
  BY <1>2 DEF In
<1>8. \A e \in dirs : ~IsStrictPrefix(d, e)
  <2>1. \A e \in dirs : e \in KnownDirs
    BY Zenon DEF Tree
  <2> QED BY <1>5, <2>1, Below
<1>11. /\ Typed' /\ Runs' /\ mem' = << >> /\ crashes' = 0
       /\ Len(todo') \in 1 .. Total
       /\ Done' = p
       /\ \A j \in DOMAIN todo' : todo'[j] = Program(inPlace')[Done' + j]
  BY <1>2, <1>4, StartingNext
<1>12. inPlace' = inPlace
  BY <1>2 DEF Step, session
<1>13. Tree'
  <2> HIDE DEF d
  <2> QED BY <1>2, <1>5, <1>7, <1>8, TreeWithout
<1>14. StartingDirs'
  <2> HIDE DEF d, p
  <2>1. p = Done + 1
    BY DEF p
  <2>2. RemovedAt(p, d)
    BY <1>b, <1>3 DEF RemovedAt
  <2>3. files' \subseteq files /\ (\A f \in files' : f.dir # d) /\ UNCHANGED plain /\ dirs' = dirs \ {d}
    BY <1>2, <1>7
  <2> QED BY <1>1, <1>6, <1>11, <1>12, <2>1, <2>2, <2>3, Removed
<1>15. StartingKept'
  <2>1. /\ saved \subseteq atRisk \cup Holds(Resume)
        /\ IF N + 4 <= Done THEN filed \subseteq backups ELSE CrashesKept
    <3>1. Done # 0 /\ (N + 4 <= Done <=> p = N + 6)
      BY <1>1, <1>3
    <3> HIDE DEF p
    <3> QED BY <1>b, <1>6, <3>1 DEF StartingKept
  <2>2. \A i \in Holds(Resume) : i \in Holds(Resume)'
    BY <1>2, <1>5, HoldsAt DEF In
  <2>3. filed \subseteq backups'
    <3>1. CASE p = N + 4
      BY <1>1, <1>2, <1>3, <2>1, <3>1 DEF CrashesKept
    <3>2. CASE p = N + 6
      BY <1>1, <1>2, <2>1, <3>2
    <3> QED BY <1>3, <3>1, <3>2
  <2>4. N + 4 <= Done'
    BY <1>1, <1>3, <1>11
  <2> HIDE DEF p, d
  <2> QED BY <1>2, <1>b, <1>12, <2>1, <2>2, <2>3, <2>4 DEF StartingKept
<1> QED BY <1>11, <1>13, <1>14, <1>15, Zenon DEF Starting

(* What an executed command leaves as it was: a plain file unlinked. *)
LEMMA StartingUnlink ==
    ASSUME Typed, Tree, Starting, Unlink, UNCHANGED <<finds, stale>>
    PROVE  Typed' /\ Tree' /\ Starting'
<1> DEFINE d == Next1.path
           p == Done + 1
<1>1. /\ todo # << >> /\ Len(todo) \in Nat /\ Done \in Nat /\ N \in Nat /\ N >= 1 /\ Total = 2 * N + 17
      /\ p \in 1 .. Total
      /\ Next1 = Program(inPlace)[p]
      /\ inPlace \in BOOLEAN
  BY StartingHead
<1>2. Next1.op = "unlink" /\ Step /\ UNCHANGED <<dirs, saved, filed, marked, backups, atRisk>>
      /\ files' = {f \in files : f.dir # d \/ f.id # Next1.id} /\ plain' = plain \ {d}
  BY DEF Unlink, Does, history
<1>3. /\ Next1.id = NoId
      /\ \/ p = N + 4 /\ ~inPlace /\ d = Crashes
         \/ p \in (IF inPlace THEN N + 8 ELSE N + 7) .. N + 9
         \/ p = N + 10 /\ d = PlotData
  BY <1>1, <1>2, Heads
<1>4. p # Total /\ p >= N + 4 /\ p <= N + 10 /\ p # N + 5 /\ p # N + 6 /\ (inPlace => p >= N + 8)
  BY <1>1, <1>3
<1>6. StartingDirs /\ StartingKept /\ Runs
  BY DEF Starting
<1>7. files' \subseteq files /\ plain' \subseteq plain
  BY <1>2
<1>8. \A f \in files : f \notin files' => f.dir = Crashes /\ f.id = NoId
  BY <1>2, <1>3, FilesAt
<1>11. /\ Typed' /\ Runs' /\ mem' = << >> /\ crashes' = 0
       /\ Len(todo') \in 1 .. Total
       /\ Done' = p
       /\ \A j \in DOMAIN todo' : todo'[j] = Program(inPlace')[Done' + j]
  BY <1>2, <1>4, StartingNext
<1>12. inPlace' = inPlace
  BY <1>2 DEF Step, session
<1>13. Tree'
  BY <1>2, <1>7, TreeLess
<1>14. StartingDirs'
  <2> HIDE DEF N, Total
  <2>a. p = Done + 1
    OBVIOUS
  <2> HIDE DEF p, d
  <2>1. << >> \in dirs'
    BY <1>2, <1>6 DEF StartingDirs
  <2>2. Absent(Queue, N + 3, N + 11)' /\ Present(Queue, N + 11, Total)'
    BY <2>a, <1>1, <1>2, <1>4, <1>6, <1>11 DEF StartingDirs, Absent, Present
  <2>3. Absent(State(Queue), N + 2, N + 12)' /\ Present(State(Queue), N + 12, Total)'
    BY <2>a, <1>1, <1>2, <1>4, <1>6, <1>11 DEF StartingDirs, Absent, Present
  <2>4. ASSUME NEW j \in 1 .. N
        PROVE  Absent(Sub(Queue, StateDirs[j]), 1 + j, N + 12 + j)' /\ Present(Sub(Queue, StateDirs[j]), N + 12 + j, Total)'
    <3>1. Absent(Sub(Queue, StateDirs[j]), 1 + j, N + 12 + j)
      BY <1>6 DEF StartingDirs
    <3>2. 1 + j <= Done /\ Done < N + 12 + j /\ ~(N + 12 + j <= p)
      BY <2>a, <1>1, <1>4
    <3> QED BY <2>a, <1>1, <1>2, <1>11, <3>1, <3>2 DEF Absent, Present
  <2>5. ~inPlace => Absent(Synced, 1, 2 * N + 13)'
    BY <2>a, <1>1, <1>2, <1>4, <1>6, <1>11 DEF StartingDirs, Absent, Present
  <2>6. Absent(Crashes, IF inPlace THEN N + 4 ELSE N + 5, 2 * N + 14)' /\ Present(Crashes, 2 * N + 14, Total)'
    <3> DEFINE h == IF inPlace THEN N + 4 ELSE N + 5
    <3>1. Absent(Crashes, h, 2 * N + 14)
      BY <1>6 DEF StartingDirs
    <3>2. h <= p => h <= Done
      BY <2>a, <1>1, <1>4
    <3> HIDE DEF h
    <3>3. Absent(Crashes, h, 2 * N + 14)'
      BY <2>a, <1>1, <1>2, <1>11, <1>12, <3>1, <3>2 DEF Absent, h
    <3>a. ~(2 * N + 14 <= p)
      <4> HIDE <2>a, <1>11, <1>12
      <4> QED BY <1>1, <1>4
    <3>b. Done' = p
      BY <1>11
    <3>4. ~(2 * N + 14 <= Done')
      BY <3>a, <3>b, Zenon
    <3>5. Present(Crashes, 2 * N + 14, Total)'
      BY <3>4 DEF Present
    <3> QED BY <1>12, <3>3, <3>5 DEF h
  <2>7. Absent(Hangs, IF inPlace THEN N + 7 ELSE N + 6, 2 * N + 15)'
    <3> DEFINE h == IF inPlace THEN N + 7 ELSE N + 6
    <3>1. Absent(Hangs, h, 2 * N + 15)
      BY <1>6 DEF StartingDirs
    <3>2. h <= p => h <= Done
      BY <2>a, <1>1, <1>4
    <3>3. Done < 2 * N + 15 /\ Done' = p
      BY <2>a, <1>1, <1>4, <1>11
    <3> HIDE DEF h
    <3>4. Absent(Hangs, h, 2 * N + 15)'
      BY <1>2, <1>12, <3>1, <3>2, <3>3 DEF Absent, h
    <3> QED BY <1>12, <3>4 DEF h
  <2>8. In(Queue)' = {} /\ In(DetDone(Queue))' = {}
    BY <2>a, <1>1, <1>4, <1>6, <1>7 DEF StartingDirs, In
  <2>9. ~Exists(Crashes, NoId)'
    <3>1. CASE p = N + 4
      <4>1. d = Crashes
        BY <2>a, <1>1, <1>3, <3>1
      <4> QED BY <1>2, <1>3, <4>1 DEF Exists, In
    <3>2. CASE p # N + 4
      BY <2>a, <1>1, <1>4, <1>6, <1>7, <3>2 DEF StartingDirs, In, Exists
    <3> QED BY <3>1, <3>2
  <2>10. N + 5 <= Done' => In(Crashes)' = {}
    BY <2>a, <1>1, <1>4, <1>6, <1>7, <1>11 DEF StartingDirs, In
  <2>11. N + 10 <= Done' => PlotData \notin plain'
    <3>1. N + 10 <= Done' => d = PlotData
      BY <2>a, <1>1, <1>3, <1>11
    <3> QED BY <1>2, <3>1
  <2> HIDE DEF p, d
  <2> QED BY <2>a, <1>12, <2>1, <2>2, <2>3, <2>4, <2>5, <2>6, <2>7, <2>8, <2>9, <2>10, <2>11 DEF StartingDirs
<1>15. StartingKept'
  <2>1. /\ ~inPlace => saved = {} /\ filed = {} /\ (~stale => Resume \notin dirs)
        /\ inPlace => saved \subseteq atRisk \cup Holds(Resume)
        /\ inPlace => filed \subseteq backups
    BY <1>1, <1>4, <1>6 DEF StartingKept
  <2>2. \A i \in Holds(Resume) : i \in Holds(Resume)'
    <3>1. Resume # Crashes
      BY PathsDiffer
    <3> QED BY <1>8, <3>1, HoldsAt
  <2>3. ~inPlace => CrashesKept'
    BY <1>2, <2>1 DEF CrashesKept
  <2> HIDE DEF p, d
  <2>4. inPlace => filed' \subseteq backups'
    BY <1>2, <2>1
  <2>5. N + 4 <= Done'
    BY <1>1, <1>4, <1>11 DEF p
  <2>6. inPlace => saved' \subseteq atRisk' \cup Holds(Resume)'
    BY <1>2, <2>1, <2>2
  <2> QED BY <1>2, <1>12, <2>1, <2>3, <2>4, <2>5, <2>6 DEF StartingKept
<1> QED BY <1>11, <1>13, <1>14, <1>15, Zenon DEF Starting

(* The directories made, and the command that makes them. *)
AddedAt(p, d) ==
    \/ p = N + 11 /\ d = Queue
    \/ p = N + 12 /\ d = State(Queue)
    \/ \E j \in 1 .. N : p = N + 12 + j /\ d = Sub(Queue, StateDirs[j])
    \/ p = 2 * N + 13 /\ d = Synced
    \/ p = 2 * N + 14 /\ d = Crashes
    \/ p = 2 * N + 15 /\ d = Hangs

LEMMA Added ==
    ASSUME StartingDirs, Done \in Nat, NEW p, p = Done + 1, Done' = p, NEW d, inPlace \in BOOLEAN, inPlace' = inPlace,
           AddedAt(p, d), dirs' = dirs \cup {d}, UNCHANGED <<files, plain>>
    PROVE  StartingDirs'
<1> DEFINE s(j) == Sub(Queue, StateDirs[j])
<1> USE DEF AddedAt
<1>1. N \in Nat /\ N >= 1 /\ Total = 2 * N + 17 /\ p \in Nat
  BY StateNames DEF Total
<1>2. /\ Queue # Synced /\ Queue # Crashes /\ Queue # Hangs /\ Synced # Crashes /\ Synced # Hangs /\ Crashes # Hangs
      /\ State(Queue) \notin {Queue, Synced, Crashes, Hangs}
      /\ \A j \in 1 .. N : s(j) \notin {Queue, Synced, Crashes, Hangs, State(Queue)}
      /\ \A j, k \in 1 .. N : s(j) = s(k) => j = k
  BY PathsDiffer, StateNames DEF Bases, Leaves
<1>3. N + 11 <= p /\ p <= 2 * N + 15
  BY <1>1
<1> HIDE DEF s, N, Total
<1>5. ~inPlace => Absent(Synced, 1, 2 * N + 13)'
  BY <1>1, <1>2, <1>3 DEF StartingDirs, Absent, s
<1>6. ASSUME NEW j \in 1 .. N PROVE Absent(s(j), 1 + j, N + 12 + j)' /\ Present(s(j), N + 12 + j, Total)'
  <2>1. Absent(s(j), 1 + j, N + 12 + j) /\ Present(s(j), N + 12 + j, Total)
    BY DEF StartingDirs, s
  <2>2. 1 + j <= Done
    BY <1>1, <1>3
  <2>3. p = N + 12 + j => d = s(j)
    BY <1>1, <1>3 DEF s
  <2>4. p < N + 12 + j => d # s(j)
    BY <1>1, <1>2, <1>3 DEF s
  <2> QED BY <1>1, <2>1, <2>2, <2>3, <2>4 DEF Absent, Present
<1>7. Absent(Queue, N + 3, N + 11)' /\ Present(Queue, N + 11, Total)'
  BY <1>1, <1>2, <1>3 DEF StartingDirs, Absent, Present
<1>8. Absent(State(Queue), N + 2, N + 12)' /\ Present(State(Queue), N + 12, Total)'
  BY <1>1, <1>2, <1>3 DEF StartingDirs, Absent, Present
<1>9. Absent(Crashes, IF inPlace THEN N + 4 ELSE N + 5, 2 * N + 14)' /\ Present(Crashes, 2 * N + 14, Total)'
  <2> DEFINE h == IF inPlace THEN N + 4 ELSE N + 5
  <2>1. Absent(Crashes, h, 2 * N + 14) /\ Present(Crashes, 2 * N + 14, Total)
    BY DEF StartingDirs
  <2>2. h <= Done
    BY <1>1, <1>3
  <2> HIDE DEF h
  <2>3. p = 2 * N + 14 => d = Crashes
    BY <1>1, <1>3
  <2>4. p < 2 * N + 14 => d # Crashes
    BY <1>1, <1>2, <1>3 DEF s
  <2>5. Absent(Crashes, h, 2 * N + 14)' /\ Present(Crashes, 2 * N + 14, Total)'
    BY <1>1, <1>3, <2>1, <2>2, <2>3, <2>4 DEF Absent, Present, h
  <2> QED BY <2>5 DEF h
<1>10. Absent(Hangs, IF inPlace THEN N + 7 ELSE N + 6, 2 * N + 15)'
  <2> DEFINE h == IF inPlace THEN N + 7 ELSE N + 6
  <2>1. Absent(Hangs, h, 2 * N + 15)
    BY DEF StartingDirs
  <2>2. h <= Done
    BY <1>1, <1>3
  <2> HIDE DEF h
  <2>4. p < 2 * N + 15 => d # Hangs
    BY <1>1, <1>2, <1>3 DEF s
  <2>5. Absent(Hangs, h, 2 * N + 15)'
    BY <1>1, <1>3, <2>1, <2>2, <2>4 DEF Absent, h
  <2> QED BY <2>5 DEF h
<1>11. In(Queue)' = {} /\ In(DetDone(Queue))' = {} /\ ~Exists(Crashes, NoId)' /\ In(Crashes)' = {} /\ PlotData \notin plain'
  <2>1. \A e : In(e)' = In(e)
    BY DEF In
  <2>2. N + 3 <= Done /\ N + 4 <= Done /\ N + 5 <= Done /\ N + 10 <= Done /\ Done < 2 * N + 16
    BY <1>1, <1>3
  <2>3. In(Queue) = {} /\ In(DetDone(Queue)) = {} /\ ~Exists(Crashes, NoId) /\ In(Crashes) = {} /\ PlotData \notin plain
    BY <2>2 DEF StartingDirs
  <2> QED BY <2>1, <2>3 DEF Exists
<1>15. << >> \in dirs'
  BY DEF StartingDirs
<1> QED BY <1>5, <1>6, <1>7, <1>8, <1>9, <1>10, <1>11, <1>15 DEF StartingDirs, s

(* mkdir finds the parent and not the directory. *)
LEMMA StartingMkdir ==
    ASSUME Typed, Tree, Starting, Mkdir, UNCHANGED <<finds, stale>>
    PROVE  Typed' /\ Tree' /\ Starting'
<1> DEFINE d == Next1.path
           p == Done + 1
<1>1. /\ todo # << >> /\ Len(todo) \in Nat /\ Done \in Nat /\ N \in Nat /\ N >= 1 /\ Total = 2 * N + 17
      /\ p \in 1 .. Total
      /\ Next1 = Program(inPlace)[p]
      /\ inPlace \in BOOLEAN
  BY StartingHead
<1>2. Next1.op = "mkdir" /\ UNCHANGED <<files, plain, saved, filed, marked, backups, atRisk>>
  BY DEF Mkdir, Does, history
<1>3. AddedAt(p, d)
  <2>1. \/ p = N + 11 /\ d = Queue
        \/ p = N + 12 /\ d = State(Queue)
        \/ \E j \in 1 .. N : p = N + 12 + j /\ d = Sub(Queue, StateDirs[j])
        \/ p = 2 * N + 13 /\ d = Synced
        \/ p = 2 * N + 14 /\ d = Crashes
        \/ p = 2 * N + 15 /\ d = Hangs
    BY <1>1, <1>2, Heads
  <2> QED BY <2>1 DEF AddedAt
<1>4. p # Total /\ N + 11 <= p /\ p <= 2 * N + 15
  BY <1>1, <1>3 DEF AddedAt
<1>6. StartingDirs /\ StartingKept /\ Runs
  BY DEF Starting
<1>7. (d \notin dirs \/ (inPlace /\ d = Synced)) /\ d \in KnownDirs /\ Front(d) \in dirs
  <2>1. CASE p = N + 11 /\ d = Queue
    <3>1. N + 3 <= Done /\ Done < N + 11
      BY <1>1, <2>1
    <3>2. d \notin dirs /\ << >> \in dirs
      BY <1>6, <2>1, <3>1 DEF StartingDirs, Absent
    <3> QED BY <2>1, <3>2, Fronts, KnownPaths DEF Bases
  <2>2. CASE p = N + 12 /\ d = State(Queue)
    <3>1. N + 11 <= Done /\ Done < N + 12 /\ N + 2 <= Done /\ Done < Total
      BY <1>1, <2>2
    <3>2. d \notin dirs /\ Queue \in dirs
      BY <1>6, <2>2, <3>1 DEF StartingDirs, Absent, Present
    <3> QED BY <2>2, <3>2, Fronts, KnownPaths DEF Bases
  <2>3. ASSUME NEW j \in 1 .. N, p = N + 12 + j, d = Sub(Queue, StateDirs[j])
        PROVE  (d \notin dirs \/ (inPlace /\ d = Synced)) /\ d \in KnownDirs /\ Front(d) \in dirs
    <3>1. N + 12 <= Done /\ 1 + j <= Done /\ Done < N + 12 + j /\ Done < Total
      BY <1>1, <2>3
    <3>2. d \notin dirs /\ State(Queue) \in dirs
      BY <1>6, <2>3, <3>1 DEF StartingDirs, Absent, Present
    <3> QED BY <2>3, <3>2, Fronts, KnownPaths, StateNames DEF Bases
  <2>4. CASE p = 2 * N + 13 /\ d = Synced
    <3>1. 1 <= Done /\ Done < 2 * N + 13
      BY <1>1, <2>4
    <3>2. (inPlace \/ d \notin dirs) /\ << >> \in dirs
      BY <1>6, <2>4, <3>1 DEF StartingDirs, Absent, Present
    <3> QED BY <2>4, <3>2, Fronts, KnownPaths DEF Leaves
  <2>5. CASE p = 2 * N + 14 /\ d = Crashes
    <3>1. N + 4 <= Done /\ N + 5 <= Done /\ Done < 2 * N + 14
      BY <1>1, <2>5
    <3>2. d \notin dirs /\ << >> \in dirs
      BY <1>6, <2>5, <3>1 DEF StartingDirs, Absent, Present
    <3> QED BY <2>5, <3>2, Fronts, KnownPaths DEF Leaves
  <2>6. CASE p = 2 * N + 15 /\ d = Hangs
    <3>1. N + 6 <= Done /\ N + 7 <= Done /\ Done < 2 * N + 15
      BY <1>1, <2>6
    <3>2. d \notin dirs /\ << >> \in dirs
      BY <1>6, <2>6, <3>1 DEF StartingDirs, Absent, Present
    <3> QED BY <2>6, <3>2, Fronts, KnownPaths DEF Leaves
  <2> HIDE DEF d, p
  <2> QED BY <1>3, <2>1, <2>2, <2>3, <2>4, <2>5, <2>6 DEF AddedAt
<1>10. Step /\ dirs' = dirs \cup {d}
  BY <1>7 DEF Mkdir
<1>11. /\ Typed' /\ Runs' /\ mem' = << >> /\ crashes' = 0
       /\ Len(todo') \in 1 .. Total
       /\ Done' = p
       /\ \A j \in DOMAIN todo' : todo'[j] = Program(inPlace')[Done' + j]
  BY <1>2, <1>4, <1>10, StartingNext
<1>12. inPlace' = inPlace
  BY <1>10 DEF Step, session
<1>13. Tree'
  <2> HIDE DEF d
  <2> QED BY <1>2, <1>7, <1>10, TreeWith
<1>14. StartingDirs'
  <2> HIDE DEF d, p
  <2>1. p = Done + 1
    BY DEF p
  <2> QED BY <1>1, <1>2, <1>3, <1>6, <1>10, <1>11, <1>12, <2>1, Added
<1>15. StartingKept'
  <2>1. /\ ~inPlace => saved = {} /\ filed = {} /\ (~stale => Resume \notin dirs)
        /\ inPlace => saved \subseteq atRisk \cup Holds(Resume)
        /\ inPlace => filed \subseteq backups
        /\ ~inPlace => CrashesKept
    BY <1>1, <1>4, <1>6 DEF StartingKept
  <2>2. Holds(Resume)' = Holds(Resume) /\ (CrashesKept => CrashesKept')
    BY <1>2 DEF Holds, In, CrashesKept
  <2>3. N + 4 <= Done' /\ Done' # 0
    BY <1>1, <1>4, <1>11
  <2>4. Resume # d
    BY <1>3, PathsDiffer, StateNames DEF AddedAt, Bases, Leaves
  <2> HIDE DEF p, d
  <2>5. Resume \notin dirs => Resume \notin dirs'
    BY <1>10, <2>4
  <2> QED BY <1>2, <1>12, <2>1, <2>2, <2>3, <2>5 DEF StartingKept
<1> QED BY <1>11, <1>13, <1>14, <1>15, Zenon DEF Starting

(* plot_data is made anew. *)
LEMMA StartingCreate ==
    ASSUME Typed, Tree, Starting, Create, UNCHANGED <<finds, stale>>
    PROVE  Typed' /\ Tree' /\ Starting'
<1> DEFINE d == Next1.path
           p == Done + 1
<1>1. /\ todo # << >> /\ Len(todo) \in Nat /\ Done \in Nat /\ N \in Nat /\ N >= 1 /\ Total = 2 * N + 17
      /\ p \in 1 .. Total
      /\ Next1 = Program(inPlace)[p]
      /\ inPlace \in BOOLEAN
  BY StartingHead
<1>2. Next1.op = "create" /\ UNCHANGED <<dirs, saved, filed, backups, atRisk>>
  BY DEF Create, Does
<1>3. p = 2 * N + 16 /\ d = PlotData /\ Next1.id = NoId
  BY <1>1, <1>2, Heads
<1>4. p # Total /\ Done = 2 * N + 15
  BY <1>1, <1>3
<1>6. StartingDirs /\ StartingKept /\ Runs
  BY DEF Starting
<1>7. PlotData \notin plain
  BY <1>1, <1>4, <1>6 DEF StartingDirs
<1>8. Len(d) = 1
  BY <1>3 DEF PlotData
<1>10. Step /\ plain' = plain \cup {d} /\ UNCHANGED <<files, marked>>
  BY <1>3, <1>7, <1>8, Zenon DEF Create
<1>11. /\ Typed' /\ Runs' /\ mem' = << >> /\ crashes' = 0
       /\ Len(todo') \in 1 .. Total
       /\ Done' = p
       /\ \A j \in DOMAIN todo' : todo'[j] = Program(inPlace')[Done' + j]
  BY <1>2, <1>4, <1>10, StartingNext
<1>12. inPlace' = inPlace
  BY <1>10 DEF Step, session
<1>13. Tree'
  <2>1. << >> \in dirs
    BY <1>6 DEF StartingDirs
  <2> HIDE DEF d, KnownDirs, FileDirs
  <2> QED BY <1>2, <1>3, <1>10, <2>1 DEF Tree
<1>14. StartingDirs'
  <2> HIDE DEF N, Total
  <2>1. Present(Queue, N + 11, Total) /\ Present(State(Queue), N + 12, Total) /\ Present(Crashes, 2 * N + 14, Total)
    BY <1>6 DEF StartingDirs
  <2>2. Queue \in dirs /\ State(Queue) \in dirs /\ Crashes \in dirs
    BY <1>1, <1>4, <2>1 DEF Present
  <2>3. ASSUME NEW j \in 1 .. N PROVE Sub(Queue, StateDirs[j]) \in dirs
    <3>1. Present(Sub(Queue, StateDirs[j]), N + 12 + j, Total)
      BY <1>6 DEF StartingDirs
    <3>2. N + 12 + j <= Done /\ Done < Total
      BY <1>1, <1>4
    <3> QED BY <3>1, <3>2 DEF Present
  <2>4. ASSUME NEW e, NEW x, NEW y \in Int, y <= 2 * N + 15 PROVE Absent(e, x, y)'
    BY <1>1, <1>3, <1>11, <2>4 DEF Absent
  <2>5. \A j \in 1 .. N : N + 12 + j \in Int
    BY <1>1
  <2>6. In(Queue)' = {} /\ In(DetDone(Queue))' = {} /\ ~Exists(Crashes, NoId)' /\ In(Crashes)' = {}
    <3>1. \A e : In(e)' = In(e)
      BY <1>10 DEF In
    <3>2. N + 3 <= Done /\ N + 4 <= Done /\ N + 5 <= Done
      BY <1>1, <1>4
    <3>3. In(Queue) = {} /\ In(DetDone(Queue)) = {} /\ ~Exists(Crashes, NoId) /\ In(Crashes) = {}
      BY <1>6, <3>2 DEF StartingDirs
    <3> QED BY <3>1, <3>3 DEF Exists
  <2>7. \A j \in 1 .. N : Absent(Sub(Queue, StateDirs[j]), 1 + j, N + 12 + j)'
    <3> SUFFICES ASSUME NEW j \in 1 .. N PROVE Absent(Sub(Queue, StateDirs[j]), 1 + j, N + 12 + j)'
      OBVIOUS
    <3>1. N + 12 + j <= 2 * N + 15 /\ N + 12 + j \in Int
      BY <1>1
    <3> QED BY <2>4, <3>1
  <2>8. N + 11 <= 2 * N + 15 /\ N + 12 <= 2 * N + 15 /\ 2 * N + 13 <= 2 * N + 15 /\ 2 * N + 14 <= 2 * N + 15 /\ 2 * N + 15 <= 2 * N + 15
        /\ ~(Done' < 2 * N + 16)
        /\ N + 11 \in Int /\ N + 12 \in Int /\ 2 * N + 13 \in Int /\ 2 * N + 14 \in Int /\ 2 * N + 15 \in Int
    BY <1>1, <1>3, <1>11
  <2>9. /\ Absent(Queue, N + 3, N + 11)' /\ Absent(State(Queue), N + 2, N + 12)' /\ Absent(Synced, 1, 2 * N + 13)'
        /\ Absent(Crashes, IF inPlace THEN N + 4 ELSE N + 5, 2 * N + 14)'
        /\ Absent(Hangs, IF inPlace THEN N + 7 ELSE N + 6, 2 * N + 15)'
    <3> DEFINE h == IF inPlace THEN N + 4 ELSE N + 5
               l == IF inPlace THEN N + 7 ELSE N + 6
    <3>1. Absent(Crashes, h, 2 * N + 14)' /\ Absent(Hangs, l, 2 * N + 15)'
      <4>1. ~(Done' < 2 * N + 14) /\ ~(Done' < 2 * N + 15)
        BY <1>1, <1>3, <1>11
      <4> HIDE DEF h, l
      <4> QED BY <4>1 DEF Absent
    <3> QED BY <2>4, <2>8, <3>1, Zenon
  <2>10. << >> \in dirs'
    BY <1>2, <1>6 DEF StartingDirs
  <2>11. /\ Present(Queue, N + 11, Total)' /\ Present(State(Queue), N + 12, Total)' /\ Present(Crashes, 2 * N + 14, Total)'
         /\ \A j \in 1 .. N : Present(Sub(Queue, StateDirs[j]), N + 12 + j, Total)'
    BY <1>2, <2>2, <2>3 DEF Present
  <2> HIDE DEF p, d
  <2>12. (N + 10 <= Done /\ Done < 2 * N + 16 => PlotData \notin plain)'
    BY <2>8
  <2> HIDE DEF In, Exists, Absent, Present, Done
  <2> QED BY <2>6, <2>7, <2>9, <2>10, <2>11, <2>12 DEF StartingDirs
<1>15. StartingKept'
  <2>1. /\ ~inPlace => saved = {} /\ filed = {} /\ (~stale => Resume \notin dirs)
        /\ inPlace => saved \subseteq atRisk \cup Holds(Resume)
        /\ inPlace => filed \subseteq backups
        /\ ~inPlace => CrashesKept
    BY <1>1, <1>4, <1>6 DEF StartingKept
  <2>2. Holds(Resume)' = Holds(Resume) /\ (CrashesKept => CrashesKept')
    BY <1>2, <1>10 DEF Holds, In, CrashesKept
  <2>3. N + 4 <= Done' /\ Done' # 0
    BY <1>1, <1>4, <1>11
  <2> HIDE DEF p, d
  <2> QED BY <1>2, <1>12, <2>1, <2>2, <2>3 DEF StartingKept
<1> QED BY <1>11, <1>13, <1>14, <1>15, Zenon DEF Starting

(* The image of a finite set is finite. *)
LEMMA ImageFinite ==
    ASSUME NEW S, IsFiniteSet(S), NEW g, DOMAIN g = S, g = [x \in S |-> g[x]]
    PROVE  IsFiniteSet({g[x] : x \in S})
<1> DEFINE T == {g[x] : x \in S}
<1>1. g \in Surjection(S, T)
  BY DEF Surjection
<1> HIDE DEF T
<1> QED BY <1>1, FS_Surjection DEF T

(* The directories and files of queue after the rename. *)
LEMMA Renamed ==
    ASSUME Tree, CanRename(Queue, Resume),
           dirs' = {Moved(Queue, Resume, d) : d \in dirs},
           files' = {[f EXCEPT !.dir = Moved(Queue, Resume, @)] : f \in files},
           UNCHANGED <<plain, finds>>
    PROVE  /\ Tree' /\ In(Resume) = {}
           /\ << >> \in dirs => << >> \in dirs'
           /\ \A i : i \in Holds(Queue) => i \in Holds(Resume)'
           /\ \A i : i \in Holds(Crashes) => i \in Holds(Crashes)'
<1> DEFINE M(d) == Moved(Queue, Resume, d)
           Mv(f) == [f EXCEPT !.dir = M(@)]
<1>1. Queue \in dirs /\ (Resume \in dirs => IsEmpty(Resume))
  BY DEF CanRename
<1>2. In(Resume) = {}
  BY <1>1, FilesAt DEF IsEmpty
<1>3. State(Resume) \notin dirs
  <2> SUFFICES ASSUME State(Resume) \in dirs PROVE FALSE
    OBVIOUS
  <2>1. Resume \in dirs
    BY Zenon DEF Tree
  <2>2. IsStrictPrefix(Resume, State(Resume))
    BY Under DEF Bases
  <2> QED BY <1>1, <2>1, <2>2 DEF IsEmpty
<1>4. \A s \in Range(StateDirs) : Sub(Resume, s) \notin dirs
  BY <1>3 DEF Tree
<1>5. /\ M(<< >>) = << >> /\ (\A d \in Leaves : M(d) = d) /\ M(Resume) = Resume
      /\ M(Queue) = Resume /\ M(State(Queue)) = State(Resume)
      /\ \A s \in Range(StateDirs) : M(Sub(Queue, s)) = Sub(Resume, s)
  BY MovedTo DEF Family
<1> HIDE DEF M
<1>6. ASSUME NEW d \in dirs
      PROVE  \/ d = << >>
             \/ d \in Leaves
             \/ d = Resume
             \/ d = Queue
             \/ d = State(Queue)
             \/ \E s \in Range(StateDirs) : d = Sub(Queue, s)
  <2>1. d \in KnownDirs
    BY Zenon DEF Tree
  <2> QED BY <1>3, <1>4, <2>1 DEF KnownDirs, Leaves, Family
<1>7. \A d \in dirs : M(d) \in dirs'
  BY DEF M
<1>8. \A e \in dirs' : \E d \in dirs : e = M(d)
  BY DEF M
<1>9. << >> \in dirs
  BY <1>1 DEF Tree
<1>10. << >> \in dirs' /\ Resume \in dirs'
  BY <1>1, <1>5, <1>7, <1>9
<1>11. dirs' \subseteq KnownDirs
  BY <1>5, <1>6, <1>8, KnownPaths DEF Leaves, Bases
<1>12. \A e \in dirs' : e # Queue /\ e # State(Queue) /\ \A s \in Range(StateDirs) : e # Sub(Queue, s)
  <2> SUFFICES ASSUME NEW e \in dirs' PROVE e # Queue /\ e # State(Queue) /\ \A s \in Range(StateDirs) : e # Sub(Queue, s)
    OBVIOUS
  <2>1. e = << >> \/ e \in Leaves \/ e = Resume \/ e = State(Resume) \/ \E s \in Range(StateDirs) : e = Sub(Resume, s)
    BY <1>5, <1>6, <1>8
  <2> QED BY <2>1, PathsDiffer DEF Bases, Leaves
<1>13. ASSUME NEW s \in Range(StateDirs), Sub(Resume, s) \in dirs' PROVE State(Resume) \in dirs'
  <2>1. PICK d \in dirs : Sub(Resume, s) = M(d)
    BY <1>8, <1>13
  <2>2. \E t \in Range(StateDirs) : d = Sub(Queue, t)
    BY <1>5, <1>6, <2>1, PathsDiffer DEF Bases, Leaves
  <2>3. State(Queue) \in dirs
    BY <2>2 DEF Tree
  <2> QED BY <2>3, <1>5, <1>7
<1>14. \A f \in files : f.dir \in {Queue, DetDone(Queue), Crashes}
  <2> SUFFICES ASSUME NEW f \in files PROVE f.dir \in {Queue, DetDone(Queue), Crashes}
    OBVIOUS
  <2>1. f.dir \in FileDirs /\ f.dir \in dirs /\ f.dir # Resume
    <3>1. f.dir \in FileDirs /\ f.dir \in dirs
      <4> HIDE DEF FileDirs
      <4> QED BY DEF Tree
    <3> QED BY <3>1, <1>2 DEF In
  <2>2. DetDone(Resume) \notin dirs
    BY <1>4, InSub, StateNames
  <2> QED BY <2>1, <2>2 DEF FileDirs
<1>15. M(DetDone(Queue)) = DetDone(Resume)
  BY <1>5, InSub, StateNames
<1>16. ASSUME NEW f \in files
       PROVE  /\ Mv(f) \in [dir : FileDirs, id : Nat \cup {NoId}, input : {Empty} \cup 0 .. finds]
              /\ Mv(f).dir = M(f.dir) /\ Mv(f).id = f.id /\ Mv(f).input = f.input
  <2>1. f \in [dir : FileDirs, id : Nat \cup {NoId}, input : {Empty} \cup 0 .. finds]
    <3> HIDE DEF FileDirs
    <3> QED BY DEF Tree
  <2>2. M(f.dir) \in FileDirs
    BY <1>5, <1>14, <1>15 DEF FileDirs, Leaves
  <2> HIDE DEF FileDirs
  <2> QED BY <2>1, <2>2
<1>17. files' = {Mv(f) : f \in files}
  BY DEF M
<1> HIDE DEF Mv
<1>18. files' \subseteq [dir : FileDirs, id : Nat \cup {NoId}, input : {Empty} \cup 0 .. finds']
  <2> HIDE DEF FileDirs
  <2> QED BY <1>16, <1>17
<1>19. \A f \in files' : f.dir \in dirs' /\ (f.id = NoId => f.dir = Crashes)
  <2> SUFFICES ASSUME NEW f \in files PROVE Mv(f).dir \in dirs' /\ (Mv(f).id = NoId => Mv(f).dir = Crashes)
    BY <1>17
  <2>1. f.dir \in dirs /\ (f.id = NoId => f.dir = Crashes)
    BY FilesAt
  <2> QED BY <2>1, <1>5, <1>7, <1>16 DEF Leaves
<1>20. \A f, g \in files' : f.dir = g.dir /\ f.id = g.id => f = g
  <2> SUFFICES ASSUME NEW f \in files, NEW g \in files, Mv(f).dir = Mv(g).dir, Mv(f).id = Mv(g).id PROVE Mv(f) = Mv(g)
    BY <1>17
  <2>1. M(f.dir) = M(g.dir) /\ f.id = g.id
    BY <1>16
  <2>2. Resume # DetDone(Resume) /\ Resume # Crashes /\ Crashes # DetDone(Resume)
    BY PathsDiffer, InSub, StateNames DEF Bases, Leaves
  <2>3. f.dir = g.dir
    BY <1>5, <1>14, <1>15, <2>1, <2>2 DEF Leaves
  <2>4. f = g
    BY <2>1, <2>3 DEF Tree
  <2> QED BY <2>4
<1>21. IsFiniteSet(files')
  <2> DEFINE g == [f \in files |-> Mv(f)]
  <2>1. DOMAIN g = files /\ g = [f \in files |-> g[f]] /\ {g[f] : f \in files} = files'
    BY <1>17
  <2>2. IsFiniteSet(files)
    BY DEF Tree
  <2> HIDE DEF g
  <2>3. IsFiniteSet({g[f] : f \in files})
    BY <2>1, <2>2, ImageFinite
  <2> QED BY <2>1, <2>3
<1>22. plain' \subseteq {CurInput, PlotData} /\ (<< >> \notin dirs' => plain' = {})
  BY <1>10 DEF Tree
<1>23. \A d \in {Queue, Resume} :
         /\ State(d) \in dirs' => d \in dirs'
         /\ \A s \in Range(StateDirs) : Sub(d, s) \in dirs' => State(d) \in dirs'
  BY <1>10, <1>12, <1>13
<1>24. Tree'
  <2> HIDE DEF KnownDirs, FileDirs
  <2> QED BY <1>10, <1>11, <1>18, <1>19, <1>20, <1>21, <1>22, <1>23, Zenon DEF Tree
<1>25. ASSUME NEW i, NEW d, i \in Holds(d) PROVE \E f \in files' : f.dir = M(d) /\ f.input = i
  <2>1. PICK f \in files : f.dir = d /\ f.input = i
    BY <1>25, HoldsAt
  <2>2. Mv(f) \in files' /\ Mv(f).dir = M(d) /\ Mv(f).input = i
    BY <1>16, <1>17, <2>1
  <2> QED BY <2>2
<1>26. \A i : i \in Holds(Queue) => i \in Holds(Resume)'
  BY <1>5, <1>25, HoldsAt
<1>27. \A i : i \in Holds(Crashes) => i \in Holds(Crashes)'
  BY <1>5, <1>25, HoldsAt DEF Leaves
<1> QED BY <1>2, <1>10, <1>24, <1>26, <1>27

(* The rename of queue: the finds are in _resume afterwards, whether it was  *)
(* moved now or by an earlier session.                                       *)
LEMMA StartingRename ==
    ASSUME Typed, Tree, Starting, RenameQueue, UNCHANGED <<finds, stale>>
    PROVE  Typed' /\ Tree' /\ Starting'
<1> DEFINE p == Done + 1
<1>1. /\ todo # << >> /\ Len(todo) \in Nat /\ Done \in Nat /\ N \in Nat /\ N >= 1 /\ Total = 2 * N + 17
      /\ p \in 1 .. Total
      /\ Next1 = Program(inPlace)[p]
      /\ inPlace \in BOOLEAN
  BY StartingHead
<1>2. Next1.op = "rename" /\ Step /\ UNCHANGED <<plain, saved, filed, marked, backups, atRisk>>
  BY DEF RenameQueue, Does, history
<1>a. p = 1 /\ inPlace
  BY <1>1, <1>2, Heads
<1>b. inPlace
  BY <1>a
<1>3. Done = 0
  BY <1>1, <1>a
<1>4. p # Total
  BY <1>1, <1>3
<1>6. StartingDirs /\ StartingKept /\ Runs
  BY DEF Starting
<1>11. /\ Typed' /\ Runs' /\ mem' = << >> /\ crashes' = 0
       /\ Len(todo') \in 1 .. Total
       /\ Done' = p
       /\ \A j \in DOMAIN todo' : todo'[j] = Program(inPlace')[Done' + j]
  BY <1>2, <1>4, StartingNext
<1>12. inPlace' = inPlace
  BY <1>2 DEF Step, session
<1>7. << >> \in dirs
  BY <1>6 DEF StartingDirs
<1>8. Tree' /\ << >> \in dirs' /\ (\A i \in saved : i \in atRisk \/ i \in Holds(Resume)')
      /\ \A i \in Holds(Crashes) : i \in Holds(Crashes)'
  <2>1. saved \subseteq atRisk \cup Holds(Resume) \cup (IF Free(Resume) THEN Holds(Queue) ELSE {})
    BY <1>b, <1>3, <1>6 DEF StartingKept
  <2>2. CASE CanRename(Queue, Resume)
    <3>1. /\ dirs' = {Moved(Queue, Resume, d) : d \in dirs}
          /\ files' = {[f EXCEPT !.dir = Moved(Queue, Resume, @)] : f \in files}
      BY <2>2 DEF RenameQueue
    <3>2. /\ Tree' /\ In(Resume) = {}
          /\ << >> \in dirs => << >> \in dirs'
          /\ \A i : i \in Holds(Queue) => i \in Holds(Resume)'
          /\ \A i : i \in Holds(Crashes) => i \in Holds(Crashes)'
      BY <1>2, <2>2, <3>1, Renamed, Zenon
    <3>3. Holds(Resume) = {}
      BY <3>2 DEF Holds
    <3> QED BY <1>7, <2>1, <3>2, <3>3
  <2>3. CASE ~CanRename(Queue, Resume)
    <3>1. UNCHANGED <<dirs, files>>
      BY <2>3 DEF RenameQueue
    <3>2. Tree'
      BY <1>2, <3>1, TreeLess
    <3>3. Free(Resume) => Holds(Queue) = {}
      <4> SUFFICES ASSUME Free(Resume), NEW f \in In(Queue) PROVE FALSE
        BY DEF Holds
      <4>1. Queue \in dirs
        BY FilesAt
      <4>2. Resume \in dirs /\ ~IsEmpty(Resume)
        BY <2>3, <4>1 DEF CanRename
      <4>3. PICK e \in dirs : IsStrictPrefix(Resume, e)
        BY <4>2 DEF IsEmpty, Free
      <4>4. e \in KnownDirs
        BY Zenon DEF Tree
      <4>5. e = State(Resume) \/ \E s \in Range(StateDirs) : e = Sub(Resume, s)
        BY <4>3, <4>4, Below DEF Bases
      <4>6. State(Resume) \in dirs
        BY <4>5 DEF Tree
      <4> QED BY <4>6 DEF Free
    <3>4. Holds(Resume)' = Holds(Resume) /\ Holds(Crashes)' = Holds(Crashes)
      BY <3>1 DEF Holds, In
    <3> QED BY <1>7, <2>1, <3>1, <3>2, <3>3, <3>4
  <2> QED BY <2>2, <2>3
<1>14. StartingDirs'
  <2> HIDE DEF N, Total
  <2>1. ASSUME NEW e, NEW x \in Int, NEW y, x >= 2 PROVE Absent(e, x, y)' /\ Present(e, x, y)'
    BY <1>3, <1>11, <2>1 DEF Absent, Present
  <2>2. /\ N + 3 >= 2 /\ N + 11 >= 2 /\ N + 2 >= 2 /\ N + 12 >= 2 /\ N + 4 >= 2 /\ N + 7 >= 2 /\ 2 * N + 14 >= 2
        /\ N + 3 \in Int /\ N + 11 \in Int /\ N + 2 \in Int /\ N + 12 \in Int /\ N + 4 \in Int /\ N + 7 \in Int /\ 2 * N + 14 \in Int
        /\ \A j \in 1 .. N : 1 + j \in Int /\ 1 + j >= 2 /\ N + 12 + j \in Int /\ N + 12 + j >= 2
    BY <1>1
  <2>3. ~(N + 3 <= Done') /\ ~(N + 4 <= Done') /\ ~(N + 5 <= Done') /\ ~(N + 10 <= Done')
    BY <1>1, <1>3, <1>11
  <2>4. /\ Absent(Queue, N + 3, N + 11)' /\ Absent(State(Queue), N + 2, N + 12)'
        /\ Absent(Crashes, N + 4, 2 * N + 14)' /\ Absent(Hangs, N + 7, 2 * N + 15)'
        /\ Present(Queue, N + 11, Total)' /\ Present(State(Queue), N + 12, Total)' /\ Present(Crashes, 2 * N + 14, Total)'
        /\ \A j \in 1 .. N : Absent(Sub(Queue, StateDirs[j]), 1 + j, N + 12 + j)' /\ Present(Sub(Queue, StateDirs[j]), N + 12 + j, Total)'
    BY <2>1, <2>2
  <2>5. /\ Absent(Crashes, IF inPlace THEN N + 4 ELSE N + 5, 2 * N + 14)'
        /\ Absent(Hangs, IF inPlace THEN N + 7 ELSE N + 6, 2 * N + 15)'
    <3> HIDE DEF Done
    <3> QED BY <1>b, <1>12, <2>4 DEF Absent
  <2>6. << >> \in dirs'
    BY <1>8
  <2> HIDE DEF In, Exists, Absent, Present, Done
  <2> QED BY <1>b, <1>12, <2>3, <2>4, <2>5, <2>6, Zenon DEF StartingDirs
<1>15. StartingKept'
  <2>1. CrashesKept
    BY <1>1, <1>3, <1>6 DEF StartingKept
  <2>2. CrashesKept'
    BY <1>2, <1>8, <2>1 DEF CrashesKept
  <2>3. ~(N + 4 <= Done')
    BY <1>1, <1>3, <1>11
  <2>4. saved' \subseteq atRisk' \cup Holds(Resume)'
    BY <1>2, <1>8
  <2> QED BY <1>b, <1>12, <2>2, <2>3, <2>4 DEF StartingKept
<1> QED BY <1>8, <1>11, <1>14, <1>15, Zenon DEF Starting

-----------------------------------------------------------------------------
(* No session: one begins, one dies in its start. *)

(* Without an output directory there is nothing in it. *)
LEMMA NoDirs ==
    ASSUME Tree, << >> \notin dirs
    PROVE  dirs = {} /\ files = {} /\ plain = {}
<1>1. dirs = {} /\ plain = {}
  BY DEF Tree
<1> QED BY <1>1, FilesAt

(* A session ends. *)
LEMMA Typed0 ==
    ASSUME Typed, Ends(fatal'), UNCHANGED <<finds, stale, saved, filed>>
    PROVE  Typed'
<1> HIDE DEF Command
<1>1. << >> \in Seq(Command) /\ << >> \in Seq([input : 0 .. finds, passedDet : BOOLEAN])
  OBVIOUS
<1>2. running' = FALSE /\ todo' = << >> /\ mem' = << >> /\ inPlace' = inPlace /\ crashes' = crashes
  BY DEF Ends
<1> QED BY <1>1, <1>2 DEF Typed

(* A step that leaves the directory alone. *)
LEMMA SameTree ==
    ASSUME Tree, UNCHANGED <<dirs, files, plain, finds>>
    PROVE  Tree' /\ (CrashesKept => filed \subseteq Holds(Crashes)' \cup backups) /\ (\A d : Holds(d)' = Holds(d) /\ In(d)' = In(d))
<1>1. \A d : Holds(d)' = Holds(d) /\ In(d)' = In(d)
  BY DEF Holds, In
<1> QED BY <1>1, TreeLess DEF CrashesKept

(* A session begins: from any state that a dead one has left. *)
LEMMA BeginKeeps ==
    ASSUME Typed, Tree, Rest, NEW resume \in BOOLEAN, Begin(resume)
    PROVE  Typed' /\ Tree' /\ (Rest \/ Starting)'
<1> DEFINE refused == IF << >> \notin dirs THEN IF resume THEN "no directory" ELSE "none"
                      ELSE IF stats = "empty" THEN "malformed"
                      ELSE IF stats = "much" /\ ~resume THEN "much at stake"
                      ELSE "none"
<1>1. UNCHANGED <<files, plain, stats, finds>>
  BY DEF Begin
<1>2. CASE refused # "none"
  <2>1. Ends(refused) /\ dirs' = dirs \cup {<< >>} /\ UNCHANGED history
    BY <1>2, Zenon DEF Begin
  <2>2. fatal' = refused /\ fatal' \in {"no directory", "malformed", "much at stake"}
    BY <1>2, <2>1 DEF Ends
  <2>3. Typed'
    BY <1>1, <2>1, <2>2, Typed0 DEF history
  <2>4. Tree' /\ (\A d : Holds(d)' = Holds(d) /\ In(d)' = In(d))
    <3>1. Tree'
      BY <1>1, <2>1, KnownPaths, TreeWith
    <3> QED BY <1>1, <3>1 DEF Holds, In
  <2>5. Rest'
    <3>1. Free(Resume) <=> Free(Resume)'
      BY <2>1, <2>4, PathsDiffer DEF Free, Bases
    <3> QED BY <2>1, <2>2, <2>4, <3>1 DEF Rest, Ends, history, CrashesKept
  <2> QED BY <2>3, <2>4, <2>5
<1>3. CASE refused = "none"
  <2>1. /\ running' = TRUE
        /\ inPlace' = resume
        /\ mem' = << >>
        /\ crashes' = 0
        /\ fatal' = "none"
        /\ todo' = If(<< >> \in dirs, CleanUp(resume)) \o MakeDirs
                     \o <<Do("read", IF resume THEN Resume ELSE << >>)>>
        /\ dirs' = dirs \cup {<< >>}
        /\ IF resume
           THEN /\ atRisk' = IF stale THEN atRisk \cup Holds(Queue) ELSE atRisk
                /\ UNCHANGED <<saved, filed, marked, backups, stale>>
           ELSE /\ saved' = {} /\ filed' = {} /\ marked' = {} /\ atRisk' = {}
                /\ stale' = (Resume \in dirs)
                /\ UNCHANGED backups
    BY <1>3, Zenon DEF Begin
  <2>2. N \in Nat /\ N >= 1 /\ Total = 2 * N + 17
    BY StateNames DEF Total
  <2>3. /\ todo' \in Seq(Command) /\ Len(todo') \in 1 .. Total
        /\ \A j \in DOMAIN todo' : todo'[j] = Program(inPlace')[Done' + j]
        /\ IF << >> \in dirs THEN Done' = 0 ELSE Done' = N + 10
    <3>1. CASE << >> \in dirs
      <4>1. todo' = Program(resume)
        BY <2>1, <3>1 DEF Program, If
      <4>2. todo' \in Seq(Command) /\ Len(todo') = Total
        BY <4>1, ProgramAt
      <4>3. Done' = 0
        BY <2>2, <4>2 DEF Done
      <4>4. DOMAIN todo' = 1 .. Total
        BY <4>2
      <4>5. ASSUME NEW j \in DOMAIN todo' PROVE todo'[j] = Program(inPlace')[Done' + j]
        <5>1. Done' + j = j
          BY <2>2, <4>3, <4>4
        <5> QED BY <2>1, <4>1, <5>1
      <4>6. Len(todo') \in 1 .. Total
        BY <2>2, <4>2
      <4> QED BY <3>1, <4>2, <4>3, <4>5, <4>6
    <3>2. CASE << >> \notin dirs
      <4> DEFINE e == MakeDirs \o <<Do("read", IF resume THEN Resume ELSE << >>)>>
      <4>1. todo' = e
        <5>1. MakeDirs \in Seq(Command)
          BY MakeDirsAt
        <5>2. Do("read", IF resume THEN Resume ELSE << >>) \in Command
          BY Typical
        <5> DEFINE m == MakeDirs
                   c == Do("read", IF resume THEN Resume ELSE << >>)
        <5>3. todo' = << >> \o m \o <<c>>
          BY <2>1, <3>2 DEF If
        <5> HIDE DEF m, c
        <5>4. << >> \o m = m
          BY <5>1 DEF m
        <5> QED BY <5>3, <5>4, Zenon DEF m, c
      <4>2. /\ e \in Seq(Command) /\ Len(e) = N + 7
            /\ \A j \in 1 .. N + 7 : e[j] = Program(resume)[N + 10 + j]
        BY ShortProgram, Zenon
      <4> HIDE DEF e
      <4>3. Done' = N + 10 /\ DOMAIN todo' = 1 .. N + 7 /\ Len(todo') \in 1 .. Total
        BY <2>2, <4>1, <4>2 DEF Done
      <4> QED BY <2>1, <3>2, <4>1, <4>2, <4>3
    <3> QED BY <3>1, <3>2
  <2>4. Typed'
    <3> HIDE DEF Command
    <3>1. saved' \subseteq 1 .. finds' /\ filed' \subseteq 1 .. finds' /\ stale' \in BOOLEAN
      <4>1. CASE resume
        BY <1>1, <2>1, <4>1 DEF Typed
      <4>2. CASE ~resume
        <5>1. saved' = {} /\ filed' = {} /\ stale' = (Resume \in dirs)
          BY <2>1, <4>2
        <5>2. stale' \in BOOLEAN
          BY <5>1
        <5> QED BY <5>1, <5>2
      <4> QED BY <4>1, <4>2
    <3> QED BY <1>1, <2>1, <2>3, <3>1 DEF Typed
  <2>5. Tree'
    BY <1>1, <2>1, KnownPaths, TreeWith
  <2>6. \A d : Holds(d)' = Holds(d) /\ In(d)' = In(d)
    BY <1>1 DEF Holds, In
  <2>7. Free(Resume) <=> Free(Resume)'
    <3>1. State(Resume) # << >>
      BY PathsDiffer DEF Bases
    <3> QED BY <2>1, <2>6, <3>1 DEF Free
  <2>8. StartingDirs'
    <3> HIDE DEF N, Total
    <3>1. << >> \in dirs'
      BY <2>1
    <3>2. CASE << >> \in dirs
      <4>1. ASSUME NEW e, NEW x \in Int, NEW y, x >= 1 PROVE Absent(e, x, y)' /\ Present(e, x, y)'
        BY <2>3, <3>2, <4>1 DEF Absent, Present
      <4>2. ~(N + 3 <= Done') /\ ~(N + 4 <= Done') /\ ~(N + 5 <= Done') /\ ~(N + 10 <= Done')
        BY <2>2, <2>3, <3>2
      <4>3. /\ N + 3 >= 1 /\ N + 11 >= 1 /\ N + 2 >= 1 /\ N + 12 >= 1 /\ 2 * N + 14 >= 1 /\ 1 >= 1
            /\ N + 3 \in Int /\ N + 11 \in Int /\ N + 2 \in Int /\ N + 12 \in Int /\ 2 * N + 14 \in Int /\ 1 \in Int
            /\ \A j \in 1 .. N : 1 + j \in Int /\ 1 + j >= 1 /\ N + 12 + j \in Int /\ N + 12 + j >= 1
        BY <2>2
      <4>4. /\ Absent(Queue, N + 3, N + 11)' /\ Absent(State(Queue), N + 2, N + 12)'
            /\ Absent(Synced, 1, 2 * N + 13)'
            /\ Present(Queue, N + 11, Total)' /\ Present(State(Queue), N + 12, Total)' /\ Present(Crashes, 2 * N + 14, Total)'
            /\ \A j \in 1 .. N : Absent(Sub(Queue, StateDirs[j]), 1 + j, N + 12 + j)' /\ Present(Sub(Queue, StateDirs[j]), N + 12 + j, Total)'
        BY <4>1, <4>3
      <4>5. /\ Absent(Crashes, IF inPlace THEN N + 4 ELSE N + 5, 2 * N + 14)'
            /\ Absent(Hangs, IF inPlace THEN N + 7 ELSE N + 6, 2 * N + 15)'
        BY <2>2, <2>3, <3>2 DEF Absent
      <4> HIDE DEF In, Exists, Absent, Present, Done
      <4> QED BY <3>1, <4>2, <4>4, <4>5, Zenon DEF StartingDirs
    <3>3. CASE << >> \notin dirs
      <4>1. dirs' = {<< >>} /\ files' = {} /\ plain' = {} /\ Done' = N + 10
        BY <1>1, <2>1, <2>3, <3>3, NoDirs
      <4>2. \A e, x, y : e # << >> => Absent(e, x, y)'
        BY <4>1 DEF Absent
      <4>3. Queue # << >> /\ Synced # << >> /\ Crashes # << >> /\ Hangs # << >> /\ State(Queue) # << >>
            /\ \A j \in 1 .. N : Sub(Queue, StateDirs[j]) # << >>
        BY PathsDiffer, StateNames DEF Bases, Leaves
      <4>4. ASSUME NEW e, NEW x \in Int, NEW y, x > N + 10 PROVE Present(e, x, y)'
        BY <2>2, <4>1, <4>4 DEF Present
      <4>5. N + 11 > N + 10 /\ N + 12 > N + 10 /\ 2 * N + 14 > N + 10 /\ N + 11 \in Int /\ N + 12 \in Int /\ 2 * N + 14 \in Int
            /\ \A j \in 1 .. N : N + 12 + j > N + 10 /\ N + 12 + j \in Int
        BY <2>2
      <4>6. /\ Absent(Queue, N + 3, N + 11)' /\ Absent(State(Queue), N + 2, N + 12)'
            /\ Absent(Synced, 1, 2 * N + 13)'
            /\ Present(Queue, N + 11, Total)' /\ Present(State(Queue), N + 12, Total)' /\ Present(Crashes, 2 * N + 14, Total)'
            /\ \A j \in 1 .. N : Absent(Sub(Queue, StateDirs[j]), 1 + j, N + 12 + j)' /\ Present(Sub(Queue, StateDirs[j]), N + 12 + j, Total)'
        BY <4>2, <4>3, <4>4, <4>5
      <4>7. /\ Absent(Crashes, IF inPlace THEN N + 4 ELSE N + 5, 2 * N + 14)'
            /\ Absent(Hangs, IF inPlace THEN N + 7 ELSE N + 6, 2 * N + 15)'
        BY <4>1, <4>3 DEF Absent
      <4>8. (\A e : In(e)' = {}) /\ ~Exists(Crashes, NoId)' /\ PlotData \notin plain'
        BY <4>1 DEF In, Exists
      <4> HIDE DEF In, Exists, Absent, Present, Done
      <4> QED BY <3>1, <4>6, <4>7, <4>8, Zenon DEF StartingDirs
    <3> QED BY <3>2, <3>3
  <2>9. StartingKept'
    <3>1. CASE resume
      <4>1. saved' \subseteq atRisk' \cup Holds(Resume)' \cup (IF Done' = 0 /\ Free(Resume)' THEN Holds(Queue)' ELSE {})
        <5>1. \A i \in saved : i \in atRisk \/ i \in Holds(Resume) \/ (i \in Holds(Queue) /\ (stale \/ Free(Resume)))
          BY DEF Rest
        <5>2. Holds(Queue) # {} => Done' = 0
          BY <2>3, NoDirs DEF Holds, In
        <5> HIDE DEF Done
        <5> QED BY <2>1, <2>6, <2>7, <3>1, <5>1, <5>2
      <4>2. CrashesKept'
        BY <2>1, <2>6, <3>1 DEF Rest, CrashesKept
      <4>3. filed' \subseteq backups' \/ ~(N + 4 <= Done')
        <5>1. CASE << >> \in dirs
          BY <2>2, <2>3, <5>1
        <5>2. CASE << >> \notin dirs
          <6>1. Holds(Crashes)' = {}
            BY <1>1, <5>2, NoDirs DEF Holds, In
          <6> QED BY <4>2, <6>1 DEF CrashesKept
        <5> QED BY <5>1, <5>2
      <4> HIDE DEF Done
      <4> QED BY <2>1, <3>1, <4>1, <4>2, <4>3 DEF StartingKept
    <3>2. CASE ~resume
      <4>1. saved' = {} /\ filed' = {} /\ (~stale' => Resume \notin dirs')
        BY <2>1, <3>2, PathsDiffer DEF Bases
      <4>2. CrashesKept'
        BY <4>1 DEF CrashesKept
      <4> HIDE DEF Done
      <4> QED BY <2>1, <3>2, <4>1, <4>2 DEF StartingKept
    <3> QED BY <3>1, <3>2
  <2>10. Starting'
    <3>1. Runs'
      BY <2>1 DEF Runs
    <3> HIDE DEF Done
    <3> QED BY <2>1, <2>3, <2>8, <2>9, <3>1, Zenon DEF Starting
  <2> QED BY <2>4, <2>5, <2>10
<1> QED BY <1>2, <1>3

(* A session dies in its start: the find that was in queue is there or in    *)
(* _resume, and what is in use as _resume stays preferred.                   *)
LEMMA KillStarting ==
    ASSUME Typed, Tree, Starting, Kill
    PROVE  Typed' /\ Tree' /\ Rest'
<1>1. Ends("none") /\ UNCHANGED <<dirs, files, plain, finds, saved, filed, marked, backups, stale>> /\ atRisk \subseteq atRisk'
  BY DEF Kill, disk
<1>2. Typed'
  BY <1>1, Typed0 DEF Ends
<1>3. Tree' /\ (\A d : Holds(d)' = Holds(d) /\ In(d)' = In(d))
  BY <1>1, SameTree
<1>4. \A i \in saved : i \in atRisk \/ i \in Holds(Resume) \/ (i \in Holds(Queue) /\ Free(Resume))
  BY DEF Starting, StartingKept, Typed
<1>5. CrashesKept
  BY DEF Starting, StartingKept, CrashesKept
<1>6. Rest'
  <2>1. Free(Resume)' <=> Free(Resume)
    BY <1>1, <1>3 DEF Free
  <2>2. CrashesKept'
    BY <1>1, <1>3, <1>5 DEF CrashesKept
  <2> QED BY <1>1, <1>3, <1>4, <2>1, <2>2 DEF Rest, Ends
<1> QED BY <1>2, <1>3, <1>6

-----------------------------------------------------------------------------
(* The commands of Links and Import, one by one. *)

Entries == Seq([input : Int, passedDet : BOOLEAN])

PivotFits(entries, c) ==
    /\ c.id + 1 \in DOMAIN entries /\ c.input = entries[c.id + 1].input
    /\ \/ c.op = "link" /\ c.path = Queue
       \/ c.op = "create" /\ c.path = DetDone(Queue) /\ entries[c.id + 1].passedDet

(* What Links consists of: commands that fit the entries 1 .. k, none of     *)
(* them twice, and a link for each.                                          *)
Linked(s, entries, k) ==
    /\ s \in Seq(Command)
    /\ \A p \in 1 .. Len(s) : PivotFits(entries, s[p]) /\ s[p].id < k
    /\ \A p, q \in 1 .. Len(s) : p < q => s[p].path # s[q].path \/ s[p].id # s[q].id
    /\ \A j \in 1 .. k : \E p \in 1 .. Len(s) : s[p].path = Queue /\ s[p].id = j - 1

(* An element of a sequence. *)
LEMMA Element ==
    ASSUME NEW S, NEW s \in Seq(S)
    PROVE  \A k \in DOMAIN s : k \in Nat /\ k >= 1 /\ k <= Len(s) /\ s[k] \in S
OBVIOUS

(* Pivot gives an entry one command, or two. *)
LEMMA Linked1 ==
    ASSUME NEW entries \in Entries, NEW k \in DOMAIN entries, NEW s, Linked(s, entries, k - 1),
           NEW c \in Command, PivotFits(entries, c), c.id = k - 1, c.path = Queue
    PROVE  Linked(s \o <<c>>, entries, k)
<1> DEFINE e == s \o <<c>>
           n == Len(s)
<1>1. s \in Seq(Command) /\ n \in Nat /\ k \in Nat /\ k >= 1
  BY DEF Linked, Entries
<1>2. e \in Seq(Command) /\ Len(e) = n + 1 /\ (\A i \in 1 .. n : e[i] = s[i]) /\ e[n + 1] = c
  BY <1>1, CatOne
<1> HIDE DEF e, n
<1>a. \A p \in 1 .. n : s[p] \in Command
  BY <1>1 DEF n
<1>3. (\A p \in 1 .. n : PivotFits(entries, s[p]) /\ s[p].id < k - 1)
      /\ (\A p, q \in 1 .. n : p < q => s[p].path # s[q].path \/ s[p].id # s[q].id)
      /\ (\A j \in 1 .. k - 1 : \E p \in 1 .. n : s[p].path = Queue /\ s[p].id = j - 1)
  BY Zenon DEF Linked, n
<1>b. \A p \in 1 .. n : s[p].id \in Int
  BY <1>a DEF Command
<1>4. \A p \in 1 .. n + 1 : PivotFits(entries, e[p]) /\ e[p].id < k
  <2> SUFFICES ASSUME NEW p \in 1 .. n + 1 PROVE PivotFits(entries, e[p]) /\ e[p].id < k
    OBVIOUS
  <2> HIDE DEF PivotFits
  <2>1. CASE p = n + 1
    BY <1>1, <1>2, <2>1
  <2>2. CASE p \in 1 .. n
    <3>1. e[p] = s[p] /\ PivotFits(entries, s[p]) /\ s[p].id < k - 1 /\ s[p].id \in Int
      BY <1>2, <1>3, <1>b, <2>2, Zenon
    <3>2. s[p].id < k
      BY <1>1, <3>1
    <3> QED BY <3>1, <3>2, Zenon
  <2> QED BY <1>1, <2>1, <2>2
<1>5. \A p, q \in 1 .. n + 1 : p < q => e[p].path # e[q].path \/ e[p].id # e[q].id
  <2> SUFFICES ASSUME NEW p \in 1 .. n + 1, NEW q \in 1 .. n + 1, p < q PROVE e[p].path # e[q].path \/ e[p].id # e[q].id
    OBVIOUS
  <2> HIDE DEF PivotFits
  <2>1. p \in 1 .. n
    BY <1>1
  <2>2. CASE q = n + 1
    BY <1>1, <1>2, <1>3, <1>b, <2>1, <2>2
  <2>3. CASE q \in 1 .. n
    <3>1. e[p] = s[p] /\ e[q] = s[q] /\ (s[p].path # s[q].path \/ s[p].id # s[q].id)
      BY <1>2, <1>3, <2>1, <2>3, Zenon
    <3> QED BY <3>1, Zenon
  <2> QED BY <1>1, <2>2, <2>3
<1>6. ASSUME NEW j \in 1 .. k PROVE \E p \in 1 .. n + 1 : e[p].path = Queue /\ e[p].id = j - 1
  <2>1. CASE j = k
    <3>1. n + 1 \in 1 .. n + 1 /\ e[n + 1].path = Queue /\ e[n + 1].id = j - 1
      BY <1>1, <1>2, <2>1
    <3> QED BY <3>1
  <2>2. CASE j \in 1 .. k - 1
    <3>1. PICK p \in 1 .. n : s[p].path = Queue /\ s[p].id = j - 1
      BY <1>3, <2>2
    <3>2. p \in 1 .. n + 1 /\ e[p] = s[p]
      BY <1>1, <1>2
    <3> QED BY <3>1, <3>2
  <2> QED BY <1>1, <2>1, <2>2
<1> HIDE DEF PivotFits
<1> QED BY <1>2, <1>4, <1>5, <1>6 DEF Linked, e

LEMMA Linked2 ==
    ASSUME NEW entries \in Entries, NEW k \in DOMAIN entries, NEW s, Linked(s, entries, k),
           NEW c \in Command, PivotFits(entries, c), c.id = k - 1, c.path = DetDone(Queue),
           \A p \in 1 .. Len(s) : s[p].id = k - 1 => s[p].path = Queue
    PROVE  Linked(s \o <<c>>, entries, k)
<1> DEFINE e == s \o <<c>>
           n == Len(s)
<1>1. s \in Seq(Command) /\ n \in Nat /\ k \in Nat /\ k >= 1
  BY DEF Linked, Entries
<1>2. e \in Seq(Command) /\ Len(e) = n + 1 /\ (\A i \in 1 .. n : e[i] = s[i]) /\ e[n + 1] = c
  BY <1>1, CatOne
<1> HIDE DEF e, n
<1>3. (\A p \in 1 .. n : PivotFits(entries, s[p]) /\ s[p].id < k)
      /\ (\A p, q \in 1 .. n : p < q => s[p].path # s[q].path \/ s[p].id # s[q].id)
      /\ (\A j \in 1 .. k : \E p \in 1 .. n : s[p].path = Queue /\ s[p].id = j - 1)
  BY Zenon DEF Linked, n
<1>4. \A p \in 1 .. n + 1 : PivotFits(entries, e[p]) /\ e[p].id < k
  <2> SUFFICES ASSUME NEW p \in 1 .. n + 1 PROVE PivotFits(entries, e[p]) /\ e[p].id < k
    OBVIOUS
  <2> HIDE DEF PivotFits
  <2>1. CASE p = n + 1
    BY <1>1, <1>2, <2>1
  <2>2. CASE p \in 1 .. n
    BY <1>1, <1>2, <1>3, <2>2
  <2> QED BY <1>1, <2>1, <2>2
<1>d. Queue # DetDone(Queue)
  BY InSub, StateNames, PathsDiffer DEF Bases
<1>5. \A p, q \in 1 .. n + 1 : p < q => e[p].path # e[q].path \/ e[p].id # e[q].id
  <2> SUFFICES ASSUME NEW p \in 1 .. n + 1, NEW q \in 1 .. n + 1, p < q PROVE e[p].path # e[q].path \/ e[p].id # e[q].id
    OBVIOUS
  <2> HIDE DEF PivotFits
  <2>1. p \in 1 .. n
    BY <1>1
  <2>2. CASE q = n + 1
    <3>1. s[p].id = k - 1 => s[p].path = Queue
      BY <2>1 DEF n
    <3> QED BY <1>1, <1>2, <1>d, <3>1, <2>1, <2>2
  <2>3. CASE q \in 1 .. n
    <3>1. e[p] = s[p] /\ e[q] = s[q] /\ (s[p].path # s[q].path \/ s[p].id # s[q].id)
      BY <1>2, <1>3, <2>1, <2>3, Zenon
    <3> QED BY <3>1, Zenon
  <2> QED BY <1>1, <2>2, <2>3
<1>6. ASSUME NEW j \in 1 .. k PROVE \E p \in 1 .. n + 1 : e[p].path = Queue /\ e[p].id = j - 1
  <2>1. PICK p \in 1 .. n : s[p].path = Queue /\ s[p].id = j - 1
    BY <1>3
  <2>2. p \in 1 .. n + 1 /\ e[p] = s[p]
    BY <1>1, <1>2
  <2> QED BY <2>1, <2>2
<1> HIDE DEF PivotFits
<1> QED BY <1>2, <1>4, <1>5, <1>6 DEF Linked, e

LEMMA LinkedMore ==
    ASSUME NEW entries \in Entries, NEW k \in DOMAIN entries, NEW s, Linked(s, entries, k - 1)
    PROVE  Linked(s \o Pivot(k, entries[k]), entries, k) /\ Pivot(k, entries[k]) \in Seq(Command)
<1> DEFINE i == entries[k].input
           a == DoFile("link", File(Queue, k - 1, i))
           b == DoFile("create", File(DetDone(Queue), k - 1, i))
<1>a. entries[k] \in [input : Int, passedDet : BOOLEAN] /\ k \in Nat /\ k >= 1
  BY Element DEF Entries
<1>1. k \in Nat /\ k >= 1 /\ i \in Int /\ k - 1 \in Int /\ entries[k].passedDet \in BOOLEAN
  BY <1>a
<1>2. "link" \in Ops /\ "create" \in Ops /\ Queue \in Paths /\ DetDone(Queue) \in Paths
  BY KnownPaths, InSub, StateNames DEF Ops, Bases
<1>3. a \in Command /\ b \in Command
  BY <1>1, <1>2, CommandType
<1>4. a.id = k - 1 /\ a.path = Queue /\ a.op = "link" /\ a.input = i /\ b.id = k - 1 /\ b.path = DetDone(Queue) /\ b.op = "create" /\ b.input = i
  BY DEF DoFile, File
<1>5. PivotFits(entries, a) /\ (entries[k].passedDet => PivotFits(entries, b))
  BY <1>1, <1>4 DEF PivotFits
<1>6. Pivot(k, entries[k]) = <<a>> \o (IF entries[k].passedDet THEN <<b>> ELSE << >>)
  BY DEF Pivot, If
<1> HIDE DEF a, b
<1>7. Linked(s \o <<a>>, entries, k)
  BY <1>3, <1>4, <1>5, Linked1
<1>8. s \in Seq(Command) /\ Len(s) \in Nat
  BY DEF Linked
<1>9. CASE ~entries[k].passedDet
  <2>1. Pivot(k, entries[k]) = <<a>>
    BY <1>3, <1>6, <1>9
  <2> QED BY <1>3, <1>7, <2>1
<1>10. CASE entries[k].passedDet
  <2>1. Pivot(k, entries[k]) = <<a>> \o <<b>>
    BY <1>6, <1>10
  <2>2. s \o (<<a>> \o <<b>>) = (s \o <<a>>) \o <<b>>
    BY <1>3, <1>8
  <2> DEFINE t == s \o <<a>>
  <2>3. Len(t) = Len(s) + 1 /\ (\A j \in 1 .. Len(s) : t[j] = s[j]) /\ t[Len(s) + 1] = a
    BY <1>3, <1>8, CatOne
  <2> HIDE DEF t
  <2>4. ASSUME NEW p \in 1 .. Len(t), t[p].id = k - 1 PROVE t[p].path = Queue
    <3>1. CASE p = Len(s) + 1
      BY <1>4, <2>3, <3>1
    <3>2. CASE p \in 1 .. Len(s)
      <4>1. s[p].id < k - 1
        BY <3>2 DEF Linked
      <4>2. t[p] = s[p]
        BY <2>3, <3>2
      <4> QED BY <1>1, <2>4, <4>1, <4>2
    <3> QED BY <1>8, <2>3, <3>1, <3>2
  <2>5. Linked(t \o <<b>>, entries, k)
    <3>1. Linked(t, entries, k)
      BY <1>7 DEF t
    <3> HIDE DEF Linked, PivotFits
    <3> QED BY <1>3, <1>4, <1>5, <1>10, <2>4, <3>1, Linked2
  <2>6. <<a>> \o <<b>> \in Seq(Command)
    BY <1>3
  <2> QED BY <2>1, <2>2, <2>5, <2>6 DEF t
<1> QED BY <1>1, <1>9, <1>10

(* FlattenSeq by its recursion. *)
Catenated(g, seqs, S, n) ==
    /\ g \in [0 .. n -> Seq(S)] /\ g[0] = << >> /\ (\A i \in 1 .. n : g[i] = g[i - 1] \o seqs[i])
    /\ FlattenSeq(seqs) = g[n]

(* FlattenSeq as the last of the sequences its recursion builds. *)
LEMMA Flattened ==
    ASSUME NEW S, NEW seqs \in Seq(Seq(S)), NEW n \in Nat, Len(seqs) = n, n >= 1
    PROVE  \E g : Catenated(g, seqs, S, n)
<1> DEFINE T == Seq(S)
           step == [i \in 1 .. n |-> [t \in T |-> t \o seqs[i]]]
           f == CHOOSE f : f = [i \in 1 .. Len(seqs) |-> IF i = 1 THEN seqs[i] ELSE f[i - 1] \o seqs[i]]
           empty == << >>
<1>1. FlattenSeq(seqs) = f[Len(seqs)]
  BY DEF FlattenSeq
<1>2. \A i \in 1 .. n : seqs[i] \in T
  OBVIOUS
<1>3. \A i \in 1 .. n, t \in T : t \o seqs[i] \in T
  BY <1>2
<1>4. step \in [1 .. n -> [T -> T]] /\ empty \in T /\ \A i \in 1 .. n, t \in T : step[i][t] = t \o seqs[i]
  BY <1>3
<1> HIDE DEF step, empty
<1>5. PICK g : Recurs(g, n, T, empty, step)
  BY <1>4, RecursionExists
<1>6. g \in [0 .. n -> T] /\ g[0] = empty /\ \A i \in 1 .. n : g[i] = g[i - 1] \o seqs[i]
  <2>1. g \in [0 .. n -> T] /\ g[0] = empty /\ \A i \in 1 .. n : g[i] = step[i][g[i - 1]]
    BY <1>5 DEF Recurs
  <2>2. \A i \in 1 .. n : g[i - 1] \in T
    BY <2>1
  <2> QED BY <1>4, <2>1, <2>2
<1>7. g[1] = seqs[1]
  <2>1. 1 \in 1 .. n /\ 1 - 1 = 0
    OBVIOUS
  <2>2. g[1] = g[1 - 1] \o seqs[1] /\ seqs[1] \in Seq(S)
    BY <1>2, <1>6, <2>1, Zenon
  <2> DEFINE x == seqs[1]
  <2>3. g[1] = << >> \o x /\ x \in Seq(S)
    BY <1>6, <2>1, <2>2 DEF empty
  <2> HIDE DEF x
  <2>4. << >> \o x = x
    BY <2>3
  <2> QED BY <2>3, <2>4, Zenon DEF x
<1> DEFINE h == [i \in 1 .. n |-> g[i]]
<1>8. h = [i \in 1 .. Len(seqs) |-> IF i = 1 THEN seqs[i] ELSE h[i - 1] \o seqs[i]]
  <2>1. \A i \in 1 .. n : g[i] = IF i = 1 THEN seqs[i] ELSE h[i - 1] \o seqs[i]
    <3> SUFFICES ASSUME NEW i \in 1 .. n PROVE g[i] = IF i = 1 THEN seqs[i] ELSE h[i - 1] \o seqs[i]
      OBVIOUS
    <3>1. CASE i = 1
      BY <1>7, <3>1
    <3>2. CASE i # 1
      <4>1. i - 1 \in 1 .. n
        BY <3>2
      <4>2. h[i - 1] = g[i - 1]
        BY <4>1
      <4> QED BY <1>6, <3>2, <4>2
    <3> QED BY <3>1, <3>2
  <2> QED BY <2>1
<1> HIDE DEF h
<1>9. f = [i \in 1 .. Len(seqs) |-> IF i = 1 THEN seqs[i] ELSE f[i - 1] \o seqs[i]]
  <2>1. \E x : x = [i \in 1 .. Len(seqs) |-> IF i = 1 THEN seqs[i] ELSE x[i - 1] \o seqs[i]]
    BY <1>8
  <2> QED BY <2>1
<1> HIDE DEF f
<1>10. \A i \in 1 .. n : f[i] = IF i = 1 THEN seqs[i] ELSE f[i - 1] \o seqs[i]
  BY <1>9
<1> DEFINE U == {i \in 0 .. n : i = 0 \/ f[i] = g[i]}
<1>11. 0 \in U
  OBVIOUS
<1>12. ASSUME NEW i \in 1 .. n, i - 1 \in U PROVE i \in U
  <2>1. CASE i = 1
    BY <1>7, <1>10, <2>1
  <2>2. CASE i # 1
    <3>1. f[i - 1] = g[i - 1]
      BY <1>12, <2>2
    <3>2. f[i] = f[i - 1] \o seqs[i]
      BY <1>10, <2>2
    <3>3. g[i] = g[i - 1] \o seqs[i]
      BY <1>6, Zenon
    <3>4. i \in 0 .. n
      OBVIOUS
    <3> QED BY <3>1, <3>2, <3>3, <3>4
  <2> QED BY <2>1, <2>2
<1>13. 0 .. n \subseteq U
  <2> HIDE DEF U
  <2> QED BY <1>11, <1>12, IntervalInduction
<1>14. f[n] = g[n]
  BY <1>13
<1> QED BY <1>1, <1>6, <1>14 DEF empty, Catenated

(* The commands of Links. *)
LEMMA LinksAt ==
    ASSUME NEW entries \in Entries, entries # << >>
    PROVE  Linked(Links(entries), entries, Len(entries)) /\ Len(Links(entries)) \in Nat \ {0}
<1> DEFINE n == Len(entries)
           seqs == [k \in DOMAIN entries |-> Pivot(k, entries[k])]
<1>1. n \in Nat /\ n >= 1 /\ DOMAIN entries = 1 .. n
  BY DEF Entries
<1> HIDE DEF n
<1>2. \A k \in 1 .. n : Pivot(k, entries[k]) \in Seq(Command)
  <2> SUFFICES ASSUME NEW k \in 1 .. n PROVE Pivot(k, entries[k]) \in Seq(Command)
    OBVIOUS
  <2>1. "link" \in Ops /\ "create" \in Ops /\ Queue \in Paths /\ DetDone(Queue) \in Paths
    BY KnownPaths, InSub, StateNames DEF Ops, Bases
  <2>a. entries[k] \in [input : Int, passedDet : BOOLEAN]
    BY <1>1, Element DEF Entries
  <2>2. entries[k].input \in Int /\ k - 1 \in Int
    BY <2>a
  <2> DEFINE a == DoFile("link", File(Queue, k - 1, entries[k].input))
             b == DoFile("create", File(DetDone(Queue), k - 1, entries[k].input))
  <2>3. a \in Command /\ b \in Command
    BY <2>1, <2>2, CommandType
  <2>4. Pivot(k, entries[k]) = <<a>> \o (IF entries[k].passedDet THEN <<b>> ELSE << >>)
    BY DEF Pivot, If
  <2> HIDE DEF a, b
  <2> QED BY <2>3, <2>4
<1>3. seqs \in Seq(Seq(Command)) /\ Len(seqs) = n /\ \A k \in 1 .. n : seqs[k] = Pivot(k, entries[k])
  BY <1>1, <1>2
<1>a. Links(entries) = FlattenSeq(seqs)
  BY DEF Links
<1> HIDE DEF seqs
<1>4. PICK g \in [0 .. n -> Seq(Command)] :
          g[0] = << >> /\ (\A i \in 1 .. n : g[i] = g[i - 1] \o seqs[i]) /\ FlattenSeq(seqs) = g[n]
  <2>1. PICK g : Catenated(g, seqs, Command, n)
    BY <1>1, <1>3, Flattened
  <2> QED BY <2>1 DEF Catenated
<1> DEFINE U == {i \in 0 .. n : Linked(g[i], entries, i)}
<1>5. 0 \in U
  <2>1. Linked(<< >>, entries, 0)
    <3>1. << >> \in Seq(Command) /\ Len(<< >>) = 0
      OBVIOUS
    <3>2. 1 .. 0 = {}
      OBVIOUS
    <3> QED BY <3>1, <3>2 DEF Linked
  <2> HIDE DEF Linked
  <2> QED BY <1>1, <1>4, <2>1
<1>6. ASSUME NEW i \in 1 .. n, i - 1 \in U PROVE i \in U
  <2>1. Linked(g[i - 1], entries, i - 1)
    BY <1>6
  <2>2. Linked(g[i - 1] \o Pivot(i, entries[i]), entries, i)
    <3> HIDE DEF Linked
    <3> QED BY <1>1, <2>1, LinkedMore
  <2>3. g[i] = g[i - 1] \o Pivot(i, entries[i])
    BY <1>3, <1>4
  <2>4. Linked(g[i], entries, i)
    BY <2>2, <2>3, Zenon
  <2>5. i \in 0 .. n
    BY <1>1
  <2> HIDE DEF Linked
  <2> QED BY <2>4, <2>5, Zenon
<1>7. 0 .. n \subseteq U
  <2> HIDE DEF U
  <2> QED BY <1>1, <1>5, <1>6, IntervalInduction
<1>8. Linked(g[n], entries, n)
  <2> HIDE DEF Linked
  <2> QED BY <1>1, <1>7
<1>9. Len(g[n]) \in Nat \ {0}
  <2>1. g[n] \in Seq(Command)
    BY <1>1, <1>4
  <2>2. \E p \in 1 .. Len(g[n]) : TRUE
    <3>1. 1 \in 1 .. n
      BY <1>1
    <3> QED BY <3>1, <1>8, Zenon DEF Linked
  <2> QED BY <2>1, <2>2
<1> HIDE DEF Linked
<1> QED BY <1>4, <1>8, <1>9, <1>a DEF n

(* The commands of AfterLinks, and of Import, by their places. *)
LEMMA AfterLinksAt ==
    ASSUME NEW r \in BOOLEAN, NEW o, o = (IF r THEN N + 2 ELSE 0)
    PROVE
    /\ AfterLinks(r) \in Seq(Command) /\ Len(AfterLinks(r)) = o + 6
    /\ r => /\ \A j \in 1 .. N : AfterLinks(r)[j] = Do("clear", Sub(Resume, StateDirs[j]))
            /\ AfterLinks(r)[N + 1] = Do("rmdir", State(Resume))
            /\ AfterLinks(r)[N + 2] = Do("clear", Resume)
    /\ AfterLinks(r)[o + 1] = Do("unlink", CurInput)
    /\ AfterLinks(r)[o + 2] = Do("create", CurInput)
    /\ AfterLinks(r)[o + 3] = Do("seek", <<"fuzzer_stats">>)
    /\ AfterLinks(r)[o + 4] = Do("truncate", <<"fuzzer_stats">>)
    /\ AfterLinks(r)[o + 5] = Do("stats", <<"fuzzer_stats">>)
    /\ AfterLinks(r)[o + 6] = Do("enter", Queue)
<1> DEFINE a == If(r, EmptyQueue(Resume))
           c1 == Do("unlink", CurInput)
           c2 == Do("create", CurInput)
           c3 == Do("seek", <<"fuzzer_stats">>)
           c4 == Do("truncate", <<"fuzzer_stats">>)
           c5 == Do("stats", <<"fuzzer_stats">>)
           c6 == Do("enter", Queue)
           e == a \o <<c1, c2, c3, c4, c5, c6>>
<1>1. N \in Nat /\ o \in Nat
  BY StateNames
<1>2. c1 \in Command /\ c2 \in Command /\ c3 \in Command /\ c4 \in Command /\ c5 \in Command /\ c6 \in Command
  BY Typical
<1>3. AfterLinks(r) = e
  BY DEF AfterLinks, FirstOutput, CurInput
<1>4. a \in Seq(Command) /\ Len(a) = o
      /\ (r => /\ \A j \in 1 .. N : a[j] = Do("clear", Sub(Resume, StateDirs[j]))
               /\ a[N + 1] = Do("rmdir", State(Resume))
               /\ a[N + 2] = Do("clear", Resume))
  <2>1. CASE r
    <3>1. a = EmptyQueue(Resume)
      BY <2>1 DEF If
    <3> HIDE DEF a
    <3> QED BY <2>1, <3>1, EmptyQueueAt, Typical
  <2>2. CASE ~r
    <3>1. a = << >>
      BY <2>2 DEF If
    <3> HIDE DEF a
    <3> QED BY <2>2, <3>1
  <2> QED BY <2>1, <2>2
<1> HIDE DEF a, c1, c2, c3, c4, c5, c6, N
<1>5. e \in Seq(Command) /\ Len(e) = o + 6
  BY <1>1, <1>2, <1>4
<1>6. \A j \in 1 .. o : e[j] = a[j]
  BY <1>1, <1>2, <1>4
<1>7. e[o + 1] = c1
  BY <1>1, <1>2, <1>4
<1>8. e[o + 2] = c2
  BY <1>1, <1>2, <1>4
<1>9. e[o + 3] = c3
  BY <1>1, <1>2, <1>4
<1>10. e[o + 4] = c4
  BY <1>1, <1>2, <1>4
<1>11. e[o + 5] = c5
  BY <1>1, <1>2, <1>4
<1>12. e[o + 6] = c6
  BY <1>1, <1>2, <1>4
<1> HIDE DEF e
<1>13. ASSUME r
       PROVE  /\ \A j \in 1 .. N : e[j] = Do("clear", Sub(Resume, StateDirs[j]))
              /\ e[N + 1] = Do("rmdir", State(Resume))
              /\ e[N + 2] = Do("clear", Resume)
  <2>1. \A j \in 1 .. N + 2 : e[j] = a[j]
    BY <1>6, <1>13
  <2>2. N + 1 \in 1 .. N + 2 /\ N + 2 \in 1 .. N + 2 /\ \A j \in 1 .. N : j \in 1 .. N + 2
    BY <1>1
  <2> QED BY <1>4, <1>13, <2>1, <2>2
<1> QED BY <1>3, <1>5, <1>7, <1>8, <1>9, <1>10, <1>11, <1>12, <1>13, Zenon DEF c1, c2, c3, c4, c5, c6

LEMMA ImportAt ==
    ASSUME NEW entries \in Entries, entries # << >>, inPlace \in BOOLEAN, NEW l, l = Len(Links(entries))
    PROVE  /\ Import(entries) \in Seq(Command)
           /\ l \in Nat \ {0} /\ Len(Import(entries)) = l + Rests
           /\ \A j \in 1 .. l : Import(entries)[j] = Links(entries)[j]
           /\ \A j \in DOMAIN Import(entries) : j > l => Import(entries)[j] = AfterLinks(inPlace)[j - l]
           /\ Linked(Links(entries), entries, Len(entries))
<1> DEFINE a == Links(entries)
           b == If(inPlace, EmptyQueue(Resume))
           c == FirstOutput
           e == Import(entries)
           t == AfterLinks(inPlace)
           m == Rests
<1>1. l \in Nat \ {0} /\ Linked(a, entries, Len(entries))
  BY LinksAt
<1>2. a \in Seq(Command) /\ Len(a) = l
  BY <1>1 DEF Linked
<1>3. b \in Seq(Command)
  <2>1. EmptyQueue(Resume) \in Seq(Command)
    BY EmptyQueueAt, Typical
  <2> QED BY <2>1 DEF If
<1>4. c \in Seq(Command)
  <2> DEFINE c1 == Do("unlink", CurInput)
             c2 == Do("create", CurInput)
             c3 == Do("seek", <<"fuzzer_stats">>)
             c4 == Do("truncate", <<"fuzzer_stats">>)
             c5 == Do("stats", <<"fuzzer_stats">>)
             c6 == Do("enter", Queue)
  <2>1. c1 \in Command /\ c2 \in Command /\ c3 \in Command /\ c4 \in Command /\ c5 \in Command /\ c6 \in Command
    BY Typical
  <2>2. c = <<c1, c2, c3, c4, c5, c6>>
    BY DEF FirstOutput, CurInput
  <2> HIDE DEF c1, c2, c3, c4, c5, c6, c
  <2> QED BY <2>1, <2>2
<1>5. t \in Seq(Command) /\ Len(t) = m /\ m \in Nat
  <2>1. N \in Nat
    BY StateNames
  <2> DEFINE o == IF inPlace THEN N + 2 ELSE 0
  <2>2. t \in Seq(Command) /\ Len(t) = o + 6
    BY AfterLinksAt
  <2>3. m = o + 6 /\ m \in Nat
    BY <2>1 DEF Rests
  <2> QED BY <2>2, <2>3
<1>6. e = (a \o b) \o c /\ t = b \o c
  BY DEF Import, AfterLinks
<1> HIDE DEF a, b, c, e, t, m
<1>7. (a \o b) \o c = a \o (b \o c)
  BY <1>2, <1>3, <1>4
<1>8. e = a \o t
  BY <1>6, <1>7
<1>9. /\ e \in Seq(Command) /\ Len(e) = Len(a) + Len(t)
      /\ \A i \in 1 .. Len(a) : e[i] = a[i]
      /\ \A i \in 1 .. Len(t) : e[Len(a) + i] = t[i]
  <2>1. a \in Seq(Command) /\ t \in Seq(Command)
    BY <1>2, <1>5
  <2>2. /\ a \o t \in Seq(Command) /\ Len(a \o t) = Len(a) + Len(t)
        /\ \A i \in 1 .. Len(a) : (a \o t)[i] = a[i]
        /\ \A i \in 1 .. Len(t) : (a \o t)[Len(a) + i] = t[i]
    BY <2>1, CatMore
  <2> QED BY <1>8, <2>2, Zenon
<1>10. ASSUME NEW j \in DOMAIN e, j > l PROVE e[j] = t[j - l]
  <2>1. j - l \in 1 .. Len(t) /\ Len(a) + (j - l) = j
    BY <1>1, <1>2, <1>5, <1>9, <1>10
  <2> QED BY <1>9, <2>1
<1> QED BY <1>1, <1>2, <1>5, <1>9, <1>10 DEF a, e, t, m

(* The commands after the links: where each stands, and what it is about.    *)
LEMMA LastHeads ==
    ASSUME NEW r \in BOOLEAN, NEW o, o = (IF r THEN N + 2 ELSE 0), NEW p \in 1 .. o + 6, NEW c, c = AfterLinks(r)[p]
    PROVE
    /\ c.id = NoId
    /\ c.op \in {"clear", "rmdir", "unlink", "create", "seek", "truncate", "stats", "enter"}
    /\ c.op = "clear" => r /\ ((p \in 1 .. N /\ c.path = Sub(Resume, StateDirs[p])) \/ (p = N + 2 /\ c.path = Resume))
    /\ c.op = "rmdir" => r /\ p = N + 1 /\ c.path = State(Resume)
    /\ c.op = "unlink" => p = o + 1 /\ c.path = CurInput
    /\ c.op = "create" => p = o + 2 /\ c.path = CurInput
    /\ c.op = "seek" => p = o + 3
    /\ c.op = "truncate" => p = o + 4
    /\ c.op = "stats" => p = o + 5
    /\ c.op = "enter" => p = o + 6
<1>1. N \in Nat /\ o \in Nat
  BY StateNames
<1>2. \A op, path : Do(op, path).op = op /\ Do(op, path).path = path /\ Do(op, path).id = NoId
  BY DEF Do
<1> DEFINE sub == Sub(Resume, StateDirs[p])
           stt == State(Resume)
<1>3. \/ r /\ p \in 1 .. N /\ c = Do("clear", sub)
      \/ r /\ p = N + 1 /\ c = Do("rmdir", stt)
      \/ r /\ p = N + 2 /\ c = Do("clear", Resume)
      \/ p = o + 1 /\ c = Do("unlink", CurInput)
      \/ p = o + 2 /\ c = Do("create", CurInput)
      \/ p = o + 3 /\ c = Do("seek", <<"fuzzer_stats">>)
      \/ p = o + 4 /\ c = Do("truncate", <<"fuzzer_stats">>)
      \/ p = o + 5 /\ c = Do("stats", <<"fuzzer_stats">>)
      \/ p = o + 6 /\ c = Do("enter", Queue)
  <2>1. CASE r /\ p \in 1 .. N
    BY <2>1, AfterLinksAt
  <2>2. CASE r /\ p = N + 1
    BY <2>2, AfterLinksAt
  <2>3. CASE r /\ p = N + 2
    BY <2>3, AfterLinksAt
  <2>4. CASE p = o + 1
    BY <2>4, AfterLinksAt
  <2>5. CASE p = o + 2
    BY <2>5, AfterLinksAt
  <2>6. CASE p = o + 3
    BY <2>6, AfterLinksAt
  <2>7. CASE p = o + 4
    BY <2>7, AfterLinksAt
  <2>8. CASE p = o + 5
    BY <2>8, AfterLinksAt
  <2>9. CASE p = o + 6
    BY <2>9, AfterLinksAt
  <2> HIDE DEF N
  <2> QED BY <1>1, <2>1, <2>2, <2>3, <2>4, <2>5, <2>6, <2>7, <2>8, <2>9
<1> HIDE DEF sub, stt
<1>4. \/ r /\ p \in 1 .. N /\ c.op = "clear" /\ c.path = sub
      \/ r /\ p = N + 1 /\ c.op = "rmdir" /\ c.path = stt
      \/ r /\ p = N + 2 /\ c.op = "clear" /\ c.path = Resume
      \/ p = o + 1 /\ c.op = "unlink" /\ c.path = CurInput
      \/ p = o + 2 /\ c.op = "create" /\ c.path = CurInput
      \/ p = o + 3 /\ c.op = "seek"
      \/ p = o + 4 /\ c.op = "truncate"
      \/ p = o + 5 /\ c.op = "stats"
      \/ p = o + 6 /\ c.op = "enter"
  BY <1>2, <1>3
<1>5. c.id = NoId
  BY <1>2, <1>3
<1>6. c.op \in {"clear", "rmdir", "unlink", "create", "seek", "truncate", "stats", "enter"}
  BY <1>4
<1>7. /\ c.op = "clear" => r /\ ((p \in 1 .. N /\ c.path = sub) \/ (p = N + 2 /\ c.path = Resume))
      /\ c.op = "rmdir" => r /\ p = N + 1 /\ c.path = stt
      /\ c.op = "unlink" => p = o + 1 /\ c.path = CurInput
      /\ c.op = "create" => p = o + 2 /\ c.path = CurInput
      /\ c.op = "seek" => p = o + 3
      /\ c.op = "truncate" => p = o + 4
      /\ c.op = "stats" => p = o + 5
      /\ c.op = "enter" => p = o + 6
  BY <1>4
<1> QED BY <1>5, <1>6, <1>7 DEF sub, stt

-----------------------------------------------------------------------------
(* What ByName reads: every file of a directory once, by its number. *)

Nth(F, k) == CHOOSE f \in F : Cardinality({g \in F : g.id < f.id}) = k - 1

(* Of a finite set of files with different numbers exactly one has k - 1     *)
(* smaller ones.                                                             *)
LEMMA Ranked ==
    ASSUME NEW F, IsFiniteSet(F), \A f \in F : f.id \in Nat, \A f, g \in F : f.id = g.id => f = g
    PROVE  /\ Cardinality(F) \in Nat
           /\ \A k \in 1 .. Cardinality(F) : Nth(F, k) \in F /\ Cardinality({g \in F : g.id < Nth(F, k).id}) = k - 1
           /\ \A f \in F : \E k \in 1 .. Cardinality(F) : f = Nth(F, k)
           /\ \A j, k \in 1 .. Cardinality(F) : j < k => Nth(F, j).id < Nth(F, k).id
<1> DEFINE n == Cardinality(F)
           low(f) == {g \in F : g.id < f.id}
           rank == [f \in F |-> Cardinality(low(f))]
           T == 0 .. n - 1
<1>1. n \in Nat
  BY FS_CardinalityType
<1>2. \A f \in F : IsFiniteSet(low(f)) /\ Cardinality(low(f)) \in Nat
  BY FS_Subset, FS_CardinalityType
<1>3. ASSUME NEW f \in F PROVE Cardinality(low(f)) < n
  <2>1. low(f) \subseteq F /\ low(f) # F
    BY <1>3
  <2> DEFINE L == low(f)
  <2>2. L \in SUBSET F /\ L # F /\ Cardinality(L) \in Nat
    BY <1>2, <2>1
  <2> HIDE DEF L
  <2>3. Cardinality(L) <= Cardinality(F) /\ Cardinality(L) # Cardinality(F)
    BY <2>2, FS_Subset
  <2> QED BY <1>1, <2>2, <2>3 DEF L
<1>4. ASSUME NEW f \in F, NEW h \in F, f.id < h.id PROVE Cardinality(low(f)) < Cardinality(low(h))
  <2>1. low(f) \subseteq low(h) /\ f \in low(h) /\ f \notin low(f)
    BY <1>4
  <2> DEFINE L == low(f)
             H == low(h)
  <2>2. L \in SUBSET H /\ L # H /\ IsFiniteSet(H) /\ Cardinality(L) \in Nat /\ Cardinality(H) \in Nat
    BY <1>2, <2>1
  <2> HIDE DEF L, H
  <2>3. Cardinality(L) <= Cardinality(H) /\ Cardinality(L) # Cardinality(H)
    BY <2>2, FS_Subset
  <2> QED BY <2>2, <2>3 DEF L, H
<1> DEFINE card(f) == Cardinality(low(f))
<1>5. (\A f \in F : card(f) \in T) /\ \A f, h \in F : f.id < h.id => card(f) < card(h)
  <2>1. ASSUME NEW f \in F PROVE card(f) \in T
    <3>1. card(f) \in Nat /\ card(f) < n
      BY <1>2, <1>3
    <3> HIDE DEF card
    <3> QED BY <1>1, <3>1
  <2> QED BY <1>4, <2>1
<1>a. \A f \in F : card(f) \in Nat
  BY <1>2
<1> HIDE DEF card
<1>6. \A f, h \in F : card(f) = card(h) => f = h
  <2> SUFFICES ASSUME NEW f \in F, NEW h \in F, card(f) = card(h) PROVE f = h
    OBVIOUS
  <2>1. f.id \in Nat /\ h.id \in Nat
    OBVIOUS
  <2>2. f.id = h.id
    BY <1>5, <1>a, <2>1
  <2> QED BY <2>2
<1>7. rank \in [F -> T] /\ (\A f \in F : rank[f] = card(f)) /\ DOMAIN rank = F
  BY <1>5 DEF card
<1> HIDE DEF rank
<1>8. rank \in Injection(F, T)
  BY <1>6, <1>7 DEF Injection, IsInjective
<1>9. IsFiniteSet(T) /\ Cardinality(T) = n
  <2>1. 0 \in Int /\ n - 1 \in Int
    BY <1>1
  <2>2. IsFiniteSet(0 .. n - 1) /\ Cardinality(0 .. n - 1) = IF 0 > n - 1 THEN 0 ELSE n - 1 - 0 + 1
    BY <2>1, FS_Interval
  <2> QED BY <1>1, <2>2
<1>10. rank \in Surjection(F, T)
  <2> HIDE DEF T
  <2> QED BY <1>8, <1>9, FS_Injection DEF n
<1>11. \A t \in T : \E f \in F : card(f) = t
  BY <1>7, <1>10 DEF Surjection
<1>12. ASSUME NEW k \in 1 .. n PROVE Nth(F, k) \in F /\ card(Nth(F, k)) = k - 1
  <2>1. k - 1 \in T
    BY <1>1
  <2>2. \E f \in F : Cardinality({g \in F : g.id < f.id}) = k - 1
    BY <1>11, <2>1 DEF card
  <2> QED BY <2>2 DEF Nth, card
<1>13. ASSUME NEW f \in F PROVE \E k \in 1 .. n : f = Nth(F, k)
  <2>1. card(f) + 1 \in 1 .. n /\ (card(f) + 1) - 1 = card(f)
    BY <1>1, <1>5
  <2>2. Nth(F, card(f) + 1) \in F /\ card(Nth(F, card(f) + 1)) = card(f)
    BY <1>12, <2>1
  <2>3. f = Nth(F, card(f) + 1)
    BY <1>6, <2>2
  <2> QED BY <2>1, <2>3
<1>14. ASSUME NEW j \in 1 .. n, NEW k \in 1 .. n, j < k PROVE Nth(F, j).id < Nth(F, k).id
  <2> DEFINE a == Nth(F, j)
             b == Nth(F, k)
  <2>1. a \in F /\ b \in F /\ card(a) = j - 1 /\ card(b) = k - 1
    BY <1>12
  <2> HIDE DEF a, b
  <2>2. a.id \in Nat /\ b.id \in Nat
    BY <2>1
  <2>3. j \in Nat /\ k \in Nat
    BY <1>1
  <2>4. ~(b.id < a.id)
    BY <1>5, <1>14, <2>1, <2>3
  <2>5. a.id # b.id
    BY <1>14, <2>1, <2>3
  <2> QED BY <2>2, <2>4, <2>5 DEF a, b
<1>15. ASSUME NEW k \in 1 .. n PROVE Cardinality({g \in F : g.id < Nth(F, k).id}) = k - 1
  BY <1>12 DEF card
<1> QED BY <1>1, <1>12, <1>13, <1>14, <1>15

(* ByName lists every file once. *)
LEMMA ByNameAt ==
    ASSUME Tree, finds \in Nat
    PROVE  /\ ByName(Resume) \in Seq([input : 0 .. finds, passedDet : BOOLEAN])
           /\ {ByName(Resume)[k].input : k \in DOMAIN ByName(Resume)} = Holds(Resume) \ {Empty}
<1> DEFINE found == {f \in In(Resume) : f.input # Empty}
<1>1. \A f \in found : f \in files /\ f.dir = Resume /\ f.id \in Nat /\ f.input \in 0 .. finds
  <2>1. Resume # Crashes
    BY PathsDiffer
  <2> QED BY <2>1, FilesAt DEF In
<1>2. \A f, g \in found : f.id = g.id => f = g
  <2>1. \A f, g \in files : f.dir = g.dir /\ f.id = g.id => f = g
    BY Zenon DEF Tree
  <2> QED BY <1>1, <2>1
<1>3. IsFiniteSet(found)
  <2>1. IsFiniteSet(files) /\ found \in SUBSET files
    BY <1>1 DEF Tree
  <2> QED BY <2>1, FS_Subset
<1>4. PICK F : F = found
  OBVIOUS
<1>5. IsFiniteSet(F) /\ (\A f \in F : f.id \in Nat) /\ (\A f, g \in F : f.id = g.id => f = g)
  BY <1>1, <1>2, <1>3, <1>4
<1>6. PICK n \in Nat : n = Cardinality(F)
  BY <1>5, Ranked
<1>7. /\ \A k \in 1 .. n : Nth(F, k) \in F
      /\ \A f \in F : \E k \in 1 .. n : f = Nth(F, k)
  BY <1>5, <1>6, Ranked
<1> DEFINE e == [k \in 1 .. n |-> [input |-> Nth(F, k).input, passedDet |-> Exists(DetDone(Resume), Nth(F, k).id)]]
<1>8. ByName(Resume) = e
  BY <1>4, <1>6 DEF ByName, Nth
<1>9. \A k \in 1 .. n : Nth(F, k).input \in 0 .. finds
  BY <1>1, <1>4, <1>7
<1>10. \A i : Exists(DetDone(Resume), i) \in BOOLEAN
  BY DEF Exists
<1>11. \A k \in 1 .. n : e[k] \in [input : 0 .. finds, passedDet : BOOLEAN]
  BY <1>9, <1>10
<1>a. e \in Seq([input : 0 .. finds, passedDet : BOOLEAN]) /\ DOMAIN e = 1 .. n
  <2> DEFINE S == [input : 0 .. finds, passedDet : BOOLEAN]
  <2>1. e \in [1 .. n -> S]
    BY <1>11
  <2> HIDE DEF S, e
  <2>2. e \in Seq(S)
    BY <2>1
  <2>3. DOMAIN e = 1 .. n
    BY <2>1
  <2> QED BY <2>2, <2>3 DEF S
<1>12. \A k \in 1 .. n : e[k].input = Nth(F, k).input
  OBVIOUS
<1> HIDE DEF e
<1>13. {e[k].input : k \in DOMAIN e} = {f.input : f \in F}
  <2>1. ASSUME NEW k \in 1 .. n PROVE e[k].input \in {f.input : f \in F}
    BY <1>7, <1>12
  <2>2. ASSUME NEW f \in F PROVE \E k \in 1 .. n : e[k].input = f.input
    BY <1>7, <1>12
  <2> QED BY <1>a, <2>1, <2>2
<1>14. {f.input : f \in F} = Holds(Resume) \ {Empty}
  BY <1>4 DEF Holds
<1> QED BY <1>8, <1>a, <1>13, <1>14

(* Types of mem. *)
LEMMA SeqWider ==
    ASSUME NEW S, NEW T, S \subseteq T, NEW s \in Seq(S)
    PROVE  s \in Seq(T)
OBVIOUS

LEMMA MemEntries ==
    ASSUME Typed
    PROVE  mem \in Entries /\ DOMAIN mem = 1 .. Len(mem) /\ Len(mem) \in Nat /\ finds \in Nat
           /\ \A k \in DOMAIN mem : mem[k].input \in 0 .. finds /\ mem[k].passedDet \in BOOLEAN
<1> DEFINE S == [input : 0 .. finds, passedDet : BOOLEAN]
           T == [input : Int, passedDet : BOOLEAN]
<1>1. mem \in Seq(S) /\ finds \in Nat
  <2> HIDE DEF Command
  <2> QED BY DEF Typed
<1>2. S \subseteq T /\ \A x \in S : x.input \in 0 .. finds /\ x.passedDet \in BOOLEAN
  BY <1>1
<1> HIDE DEF S, T
<1>3. mem \in Seq(T)
  BY <1>1, <1>2, SeqWider
<1>4. \A k \in DOMAIN mem : mem[k] \in S
  BY <1>1, Element
<1>5. DOMAIN mem = 1 .. Len(mem) /\ Len(mem) \in Nat
  BY <1>1
<1> QED BY <1>1, <1>2, <1>3, <1>4, <1>5 DEF Entries, T

(* The inputs are read: a fresh session has its seed, a resumed one the      *)
(* files of _resume, or no inputs at all.                                    *)
LEMMA StartingRead ==
    ASSUME Typed, Tree, Starting, ReadTestcases
    PROVE  /\ Typed' /\ Tree' /\ (Rest \/ Importing)'
           /\ ~running' => fatal' = "no inputs" /\ saved' \subseteq atRisk'
           /\ running' => fatal' = fatal
<1>1. /\ todo # << >> /\ Len(todo) \in Nat /\ Done \in Nat /\ N \in Nat /\ N >= 1 /\ Total = 2 * N + 17
      /\ Done + 1 \in 1 .. Total
      /\ Next1 = Program(inPlace)[Done + 1]
      /\ inPlace \in BOOLEAN
  BY StartingHead
<1>2. Next1.op = "read" /\ UNCHANGED <<dirs, files, plain, finds, saved, filed, marked, backups, atRisk, stale>>
  BY DEF ReadTestcases, Does, history, disk
<1>3. Done + 1 = Total
  BY <1>1, <1>2, Heads
<1>4. StartingDirs /\ StartingKept /\ Runs
  BY DEF Starting
<1>5. /\ Queue \in dirs /\ Crashes \in dirs /\ DetDone(Queue) \in dirs
      /\ In(Queue) = {} /\ In(DetDone(Queue)) = {} /\ In(Crashes) = {}
  <2>1. N + 11 <= Done /\ Done < Total /\ 2 * N + 14 <= Done /\ N + 3 <= Done /\ N + 5 <= Done
        /\ \A j \in 1 .. N : N + 12 + j <= Done
    BY <1>1, <1>3
  <2>2. Queue \in dirs /\ Crashes \in dirs /\ In(Queue) = {} /\ In(DetDone(Queue)) = {} /\ In(Crashes) = {}
    <3> HIDE DEF Done, Total, N
    <3> QED BY <1>4, <2>1 DEF StartingDirs, Present
  <2>3. PICK j \in 1 .. N : DetDone(Queue) = Sub(Queue, StateDirs[j])
    BY InSub
  <2>4. Present(Sub(Queue, StateDirs[j]), N + 12 + j, Total)
    BY <1>4 DEF StartingDirs
  <2> HIDE DEF Done, Total, N
  <2> QED BY <2>1, <2>2, <2>3, <2>4 DEF Present
<1>6. /\ ~inPlace => saved = {} /\ filed = {} /\ (~stale => Resume \notin dirs)
      /\ inPlace => saved \subseteq atRisk \cup Holds(Resume)
      /\ CrashesKept
  BY <1>1, <1>3, <1>4 DEF StartingKept, CrashesKept
<1>7. Tree' /\ CrashesKept' /\ (\A d : Holds(d)' = Holds(d) /\ In(d)' = In(d))
  BY <1>2, <1>6, SameTree DEF CrashesKept
<1> DEFINE entries == IF ~inPlace THEN <<[input |-> Seed, passedDet |-> FALSE]>>
                      ELSE IF Resume \in dirs THEN ByName(Resume)
                      ELSE << >>
<1>8. /\ entries \in Seq([input : 0 .. finds, passedDet : BOOLEAN])
      /\ {entries[k].input : k \in DOMAIN entries} = IF inPlace THEN Holds(Resume) \ {Empty} ELSE {Seed}
      /\ ~inPlace => entries # << >>
  <2>0. finds \in Nat
    BY DEF Typed
  <2>1. CASE ~inPlace
    <3>1. entries = <<[input |-> Seed, passedDet |-> FALSE]>>
      BY <2>1
    <3> HIDE DEF entries
    <3>2. [input |-> Seed, passedDet |-> FALSE] \in [input : 0 .. finds, passedDet : BOOLEAN]
      BY <2>0 DEF Seed
    <3> DEFINE x == [input |-> Seed, passedDet |-> FALSE]
               S == [input : 0 .. finds, passedDet : BOOLEAN]
    <3>3. entries = <<x>> /\ x \in S /\ x.input = Seed
      BY <3>1, <3>2
    <3> HIDE DEF x, S
    <3>4. entries \in Seq(S) /\ DOMAIN entries = {1} /\ entries[1] = x /\ entries # << >>
      BY <3>3
    <3>5. {entries[k].input : k \in DOMAIN entries} = {Seed}
      BY <3>3, <3>4
    <3> QED BY <2>1, <3>4, <3>5 DEF S
  <2>2. CASE inPlace /\ Resume \in dirs
    <3>1. entries = ByName(Resume)
      BY <2>2
    <3> HIDE DEF entries
    <3> QED BY <2>0, <2>2, <3>1, ByNameAt
  <2>3. CASE inPlace /\ Resume \notin dirs
    <3>1. entries = << >>
      BY <2>3
    <3> HIDE DEF entries
    <3>2. Holds(Resume) = {}
      BY <2>3, FilesAt DEF Holds
    <3>3. {entries[k].input : k \in DOMAIN entries} = {}
      BY <3>1
    <3> QED BY <2>3, <3>1, <3>2, <3>3
  <2> QED BY <1>1, <2>1, <2>2, <2>3
<1>9. IF entries = << >> THEN Fails("no inputs")
      ELSE /\ mem' = entries
           /\ todo' = Import(entries)
           /\ UNCHANGED <<running, inPlace, crashes, fatal>>
  BY DEF ReadTestcases
<1>a. PICK z : z = entries
  OBVIOUS
<1> HIDE DEF entries
<1>10. CASE entries = << >>
  <2>1. Ends(fatal') /\ fatal' = "no inputs"
    BY <1>9, <1>10 DEF Fails, Ends
  <2>2. Typed'
    BY <1>2, <2>1, Typed0
  <2>3. Rest'
    BY <1>2, <1>6, <1>7, <1>8, <1>10, <2>1 DEF Rest, Ends
  <2>4. saved' \subseteq atRisk'
    <3>1. saved \subseteq atRisk \cup {Empty}
      BY <1>6, <1>8, <1>10
    <3>2. Empty \notin saved
      <4>1. saved \subseteq 1 .. finds
        BY DEF Typed
      <4> QED BY <4>1 DEF Empty
    <3> QED BY <1>2, <3>1, <3>2
  <2>5. running' = FALSE
    BY <2>1 DEF Ends
  <2> QED BY <1>7, <2>1, <2>2, <2>3, <2>4, <2>5
<1>11. CASE entries # << >>
  <2>1. mem' = z /\ todo' = Import(z) /\ UNCHANGED <<running, inPlace, crashes, fatal>>
    BY <1>9, <1>11, <1>a
  <2>2. z \in Entries /\ z # << >> /\ z \in Seq([input : 0 .. finds, passedDet : BOOLEAN])
    <3> DEFINE S == [input : 0 .. finds, passedDet : BOOLEAN]
               T == [input : Int, passedDet : BOOLEAN]
    <3>1. S \subseteq T
      BY DEF Typed
    <3>2. z \in Seq(S)
      BY <1>8, <1>a
    <3> HIDE DEF S, T
    <3>3. z \in Seq(T)
      BY <3>1, <3>2, SeqWider
    <3> QED BY <1>11, <1>a, <3>2, <3>3 DEF Entries, S, T
  <2> DEFINE k == Links(z)
  <2>3. PICK l : l = Len(Links(z))
    OBVIOUS
  <2>4. /\ Import(z) \in Seq(Command)
        /\ l \in Nat \ {0} /\ Len(Import(z)) = l + Rests
        /\ \A j \in 1 .. l : Import(z)[j] = k[j]
        /\ \A j \in DOMAIN Import(z) : j > l => Import(z)[j] = AfterLinks(inPlace)[j - l]
        /\ Linked(k, z, Len(z))
    BY <1>1, <2>2, <2>3, ImportAt
  <2>5. Rests \in Nat /\ Rests >= 6 /\ Rests' = Rests
    BY <1>1, <2>1 DEF Rests
  <2>6. Typed'
    <3> HIDE DEF Command
    <3> QED BY <1>2, <2>1, <2>2, <2>4 DEF Typed
  <2>7. Links0' = l /\ Len(todo') = l + Rests /\ Len(todo') \in Nat /\ Len(todo') >= 7
    <3>1. Links0' = Len(todo') - Rests'
      BY DEF Links0
    <3>2. Len(todo') = l + Rests
      BY <2>1, <2>4
    <3> HIDE DEF Rests
    <3> QED BY <2>4, <2>5, <3>1, <3>2
  <2>8. /\ \A p \in 1 .. l : PivotFits(z, k[p])
        /\ \A p, q \in 1 .. l : p < q => k[p].path # k[q].path \/ k[p].id # k[q].id
        /\ \A j \in 1 .. Len(z) : \E p \in 1 .. l : k[p].path = Queue /\ k[p].id = j - 1
    <3> HIDE DEF k
    <3>1. Len(k) = l
      BY <2>3 DEF k
    <3> QED BY <2>4, <3>1, Zenon DEF Linked
  <2>9. \A p \in 1 .. l : todo'[p] = k[p]
    BY <2>1, <2>4
  <2> HIDE DEF k
  <2>10. ASSUME NEW p \in 1 .. l PROVE Pivots(p)'
    <3>1. todo'[p] = k[p] /\ PivotFits(z, k[p])
      BY <2>8, <2>9
    <3>2. k[p].path \in {Queue, DetDone(Queue)} /\ k[p].op \in {"link", "create"}
      BY <3>1 DEF PivotFits
    <3>3. ~Exists(k[p].path, k[p].id)'
      BY <1>5, <1>7, <3>2 DEF Exists
    <3> HIDE DEF Links0
    <3> QED BY <2>1, <3>1, <3>2, <3>3 DEF Pivots, PivotFits
  <2>11. Linking'
    <3>1. \A p \in 1 .. Links0' : Pivots(p)'
      BY <2>7, <2>10
    <3>2. \A p, q \in 1 .. Links0' : ~(p < q /\ todo'[p].path = todo'[q].path /\ todo'[p].id = todo'[q].id)
      <4> SUFFICES ASSUME NEW p \in 1 .. Links0', NEW q \in 1 .. Links0', p < q,
                          todo'[p].path = todo'[q].path, todo'[p].id = todo'[q].id
                   PROVE  FALSE
        OBVIOUS
      <4>1. p \in 1 .. l /\ q \in 1 .. l
        BY <2>7
      <4> QED BY <2>8, <2>9, <4>1
    <3>3. \A j \in DOMAIN mem' : \E p \in 1 .. Links0' : todo'[p].path = Queue /\ todo'[p].id = j - 1
      <4>1. DOMAIN mem' = 1 .. Len(z)
        BY <2>1, <2>2 DEF Entries
      <4> QED BY <2>7, <2>8, <2>9, <4>1
    <3> HIDE DEF Links0, Pivots
    <3> QED BY <3>1, <3>2, <3>3 DEF Linking
  <2>12. InMemory'
    BY <1>2, <1>5, <1>7 DEF InMemory
  <2>13. EmptyingDirs'
    <3>1. l \in Nat \ {0} /\ Links0' = l /\ N \in Nat
      BY <1>1, <2>4, <2>7
    <3> HIDE DEF Links0, N
    <3>2. 0 - l < 0
      BY <3>1
    <3>3. (\A j \in 1 .. N : ~(0 - l >= j)) /\ ~(0 - l >= N + 1) /\ ~(0 - l >= N + 2)
      BY <3>1
    <3> QED BY <3>1, <3>3 DEF EmptyingDirs
  <2>14. ImportingKept'
    <3>1. Links0' > 0 /\ ~(Links0' <= 0)
      BY <2>4, <2>7
    <3>2. Inputs' = IF inPlace THEN Holds(Resume) \ {Empty} ELSE {Seed}
      <4>1. Inputs' = {mem'[j].input : j \in DOMAIN mem'}
        BY DEF Inputs
      <4> QED BY <1>8, <1>a, <2>1, <4>1
    <3> HIDE DEF Links0
    <3> QED BY <1>2, <1>6, <1>7, <2>1, <3>1, <3>2 DEF ImportingKept
  <2>15. Runs' /\ mem' # << >> /\ crashes' = 0
    BY <2>1, <2>2 DEF Starting, Runs
  <2>16. \A j \in DOMAIN todo' : j > Links0' => todo'[j] = AfterLinks(inPlace')[j - Links0']
    BY <2>1, <2>4, <2>7
  <2>17. ~inPlace' => (~stale' => Resume \notin dirs')
    BY <1>2, <1>6, <2>1
  <2>18. Len(todo') >= 1 /\ Len(todo') # 5
    BY <2>7
  <2>19. Importing'
    <3> HIDE DEF Links0
    <3> QED BY <2>11, <2>12, <2>13, <2>14, <2>15, <2>16, <2>17, <2>18, Zenon DEF Importing
  <2> QED BY <1>7, <2>1, <2>6, <2>15, <2>19 DEF Runs
<1> QED BY <1>10, <1>11

-----------------------------------------------------------------------------
(* Importing: the inputs are linked, _resume is emptied, the first report. *)

(* The next command of this phase, and what its execution keeps. *)
LEMMA TypedMore ==
    ASSUME Typed, Step, todo # << >>, UNCHANGED <<finds, stale>>, saved' \subseteq 1 .. finds, filed' \subseteq 1 .. finds
    PROVE  /\ Typed' /\ Len(todo') = Len(todo) - 1 /\ Len(todo) \in Nat
           /\ \A j \in 1 .. Len(todo) - 1 : todo'[j] = todo[j + 1]
           /\ DOMAIN todo = 1 .. Len(todo) /\ DOMAIN todo' = 1 .. Len(todo) - 1
<1>1. todo \in Seq(Command) /\ todo' = Tail(todo) /\ Len(todo) \in Nat
  BY DEF Typed, Step
<1>2. todo' \in Seq(Command) /\ Len(todo') = Len(todo) - 1 /\ \A j \in 1 .. Len(todo) - 1 : todo'[j] = todo[j + 1]
  BY <1>1, HeadTailProperties, Zenon
<1> HIDE DEF Command
<1>3. Typed'
  BY <1>2 DEF Typed, Step, session
<1>4. DOMAIN todo = 1 .. Len(todo) /\ DOMAIN todo' = 1 .. Len(todo) - 1
  BY <1>1, <1>2
<1> QED BY <1>1, <1>2, <1>3, <1>4, Zenon

LEMMA ImportingHead ==
    ASSUME Typed, Importing
    PROVE  /\ todo # << >> /\ Len(todo) \in Nat /\ Len(todo) >= 1 /\ DOMAIN todo = 1 .. Len(todo)
           /\ N \in Nat /\ N >= 1 /\ inPlace \in BOOLEAN
           /\ Links0 \in Int /\ Rests \in Nat /\ Rests >= 6 /\ Len(todo) = Links0 + Rests
           /\ Next1 = todo[1] /\ Next1 \in Command
           /\ Links0 >= 1 => Pivots(1)
           /\ Links0 <= 0 => /\ Next1 = AfterLinks(inPlace)[1 - Links0]
                             /\ 1 - Links0 \in 1 .. Rests
           /\ Rests = (IF inPlace THEN N + 2 ELSE 0) + 6
<1>1. todo \in Seq(Command) /\ inPlace \in BOOLEAN /\ Len(todo) >= 1
  BY DEF Typed, Importing
<1>2. Len(todo) \in Nat /\ DOMAIN todo = 1 .. Len(todo) /\ todo # << >>
  BY <1>1
<1>3. N \in Nat /\ N >= 1
  BY StateNames
<1>4. Rests = (IF inPlace THEN N + 2 ELSE 0) + 6 /\ Rests \in Nat /\ Rests >= 6
  BY <1>1, <1>3 DEF Rests
<1>5. Links0 = Len(todo) - Rests
  BY DEF Links0
<1> HIDE DEF Rests, Links0, N
<1>a. Len(todo) \in Nat /\ Rests \in Nat
  BY <1>2, <1>4
<1>6. Links0 \in Int /\ Len(todo) = Links0 + Rests
  BY <1>5, <1>a
<1>7. Next1 = todo[1] /\ Next1 \in Command
  BY <1>1, <1>2, Element DEF Next1
<1>8. Links0 >= 1 => Pivots(1)
  <2>1. Links0 >= 1 => 1 \in 1 .. Links0
    BY <1>6
  <2> QED BY <2>1, Zenon DEF Importing, Linking
<1>9. ASSUME Links0 <= 0
      PROVE  Next1 = AfterLinks(inPlace)[1 - Links0] /\ 1 - Links0 \in 1 .. Rests
  <2>1. 1 \in DOMAIN todo /\ 1 > Links0 /\ 1 - Links0 \in 1 .. Rests
    BY <1>1, <1>2, <1>4, <1>6, <1>9
  <2> QED BY <1>7, <2>1, Zenon DEF Importing
<1> QED BY <1>1, <1>2, <1>3, <1>4, <1>6, <1>7, <1>8, <1>9

(* What is the same after any step of this phase. *)
LEMMA ImportingNext ==
    ASSUME Typed, Importing, Step, UNCHANGED <<finds, stale>>, saved' \subseteq 1 .. finds, filed' \subseteq 1 .. finds
    PROVE  /\ Typed' /\ Runs' /\ mem' = mem /\ mem # << >> /\ crashes' = 0 /\ crashes = 0 /\ inPlace' = inPlace
           /\ Len(todo') = Len(todo) - 1 /\ Links0' = Links0 - 1
           /\ \A j \in 1 .. Len(todo) - 1 : todo'[j] = todo[j + 1]
           /\ DOMAIN todo' = 1 .. Len(todo) - 1
           /\ \A j \in DOMAIN todo' : j > Links0' => todo'[j] = AfterLinks(inPlace')[j - Links0']
<1>1. /\ todo # << >> /\ Len(todo) \in Nat /\ Len(todo) >= 1 /\ DOMAIN todo = 1 .. Len(todo)
      /\ Links0 \in Int /\ Rests \in Nat /\ Len(todo) = Links0 + Rests
  BY ImportingHead
<1>2. Typed' /\ Len(todo') = Len(todo) - 1 /\ (\A j \in 1 .. Len(todo) - 1 : todo'[j] = todo[j + 1])
      /\ DOMAIN todo' = 1 .. Len(todo) - 1
  BY <1>1, TypedMore
<1>3. UNCHANGED <<running, inPlace, mem, crashes, fatal>>
  BY DEF Step, session
<1>4. Runs' /\ mem' = mem /\ mem # << >> /\ crashes' = 0 /\ crashes = 0 /\ inPlace' = inPlace
  BY <1>3 DEF Importing, Runs
<1>5. Links0' = Links0 - 1
  <2>1. Rests' = Rests
    BY <1>4 DEF Rests
  <2>2. Links0' = Len(todo') - Rests'
    BY DEF Links0
  <2> HIDE DEF Links0, Rests
  <2> QED BY <1>1, <1>2, <2>1, <2>2
<1> HIDE DEF Links0, Rests
<1>6. ASSUME NEW j \in DOMAIN todo', j > Links0' PROVE todo'[j] = AfterLinks(inPlace')[j - Links0']
  <2>1. j \in 1 .. Len(todo) - 1 /\ j + 1 \in DOMAIN todo /\ j + 1 > Links0 /\ (j + 1) - Links0 = j - Links0'
    <3>1. Len(todo) \in Nat /\ Links0 \in Int /\ Links0' = Links0 - 1 /\ DOMAIN todo = 1 .. Len(todo)
          /\ DOMAIN todo' = 1 .. Len(todo) - 1
      BY <1>1, <1>2, <1>5
    <3>2. j \in 1 .. Len(todo) - 1
      BY <3>1
    <3> QED BY <3>1, <3>2, <1>6
  <2>2. todo[j + 1] = AfterLinks(inPlace)[(j + 1) - Links0]
    BY <2>1, Zenon DEF Importing
  <2>3. todo'[j] = todo[j + 1]
    BY <1>2, <2>1, Zenon
  <2> QED BY <1>4, <2>1, <2>2, <2>3
<1> QED BY <1>2, <1>4, <1>5, <1>6, Zenon

(* How the files change when a link, or a part of one, is made: c is the     *)
(* command.                                                                *)
LinkMade(c) ==
    /\ \A g \in files' : g \in files \/ (g.dir = c.path /\ g.id = c.id)
    /\ \A g \in files : g.input # Empty \/ g.dir # c.path \/ g.id # c.id => g \in files'
    /\ c.op # "create" => File(c.path, c.id, c.input) \in files'
    /\ c.op = "create" => \A g \in files' : g.dir = c.path /\ g.id = c.id => g.input = Empty

(* The links left after one is made. *)
LEMMA LinkingTail ==
    ASSUME Typed, Importing, Links0 >= 1, Step, UNCHANGED <<finds, stale>>,
           saved' \subseteq 1 .. finds, filed' \subseteq 1 .. finds,
           LinkMade(Next1)
    PROVE  Linking'
<1>1. /\ todo # << >> /\ Len(todo) \in Nat /\ Len(todo) >= 1 /\ DOMAIN todo = 1 .. Len(todo)
      /\ Links0 \in Int /\ Rests \in Nat /\ Rests >= 6 /\ Len(todo) = Links0 + Rests
      /\ Next1 = todo[1] /\ Pivots(1)
  BY ImportingHead
<1>2. /\ mem' = mem /\ Links0' = Links0 - 1
      /\ \A j \in 1 .. Len(todo) - 1 : todo'[j] = todo[j + 1]
  BY ImportingNext
<1> HIDE DEF Links0, Rests
<1>3. \A p \in 1 .. Links0 - 1 : todo'[p] = todo[p + 1] /\ p + 1 \in 1 .. Links0 /\ 1 < p + 1 /\ p + 1 # 1
  BY <1>1, <1>2
<1>4. /\ \A p \in 1 .. Links0 : Pivots(p)
      /\ \A p, q \in 1 .. Links0 :
           p < q /\ todo[p].path = todo[q].path /\ todo[p].id = todo[q].id =>
              p = 1 /\ q = 2 /\ IsPair(todo[1], todo[2])
      /\ \A k \in DOMAIN mem :
           \/ File(Queue, k - 1, mem[k].input) \in files
           \/ \E p \in 1 .. Links0 : todo[p].path = Queue /\ todo[p].id = k - 1
  <2> HIDE DEF Pivots, IsPair
  <2> QED BY Zenon DEF Importing, Linking
<1>5. 1 \in 1 .. Links0
  BY <1>1
<1>6. ASSUME NEW p \in 1 .. Links0 - 1 PROVE Pivots(p)'
  <2>0. PICK c : c = todo[p + 1]
    OBVIOUS
  <2>1. Pivots(p + 1) /\ todo'[p] = c /\ p + 1 # 1
    BY <1>3, <1>4, <2>0
  <2>2. /\ c.id + 1 \in DOMAIN mem
        /\ c.input = mem[c.id + 1].input
        /\ \/ c.path = Queue /\ c.op = "link"
           \/ c.path = Queue /\ c.op = "write" /\ p + 1 = 2 /\ IsPair(todo[1], c)
           \/ c.path = DetDone(Queue) /\ c.op = "create" /\ mem[c.id + 1].passedDet
        /\ c.op # "write" => ~Exists(c.path, c.id)
    <3> HIDE DEF IsPair, Exists, In
    <3> QED BY <2>0, <2>1 DEF Pivots
  <2>3. p + 1 = 2 => p = 1
    BY <1>1
  <2>4. ASSUME c.op # "write" PROVE ~Exists(c.path, c.id)'
    <3> SUFFICES ASSUME NEW g \in files', g.dir = c.path, g.id = c.id PROVE FALSE
      BY InPrimed DEF Exists
    <3>1. g \notin files
      BY <2>2, <2>4 DEF Exists, In
    <3>2. todo[1].path = c.path /\ todo[1].id = c.id
      BY <1>1, <3>1 DEF LinkMade
    <3>3. IsPair(todo[1], todo[2]) /\ p + 1 = 2
      BY <1>3, <1>4, <1>5, <2>0, <3>2
    <3>4. todo[2].op = "write" /\ c = todo[2]
      BY <2>0, <3>3 DEF IsPair
    <3> QED BY <2>4, <3>4
  <2>5. ASSUME c.op = "write", NEW f \in In(Queue)', f.id = c.id PROVE f.input = Empty
    <3>1. c.path = Queue /\ IsPair(todo[1], c)
      BY <2>2, <2>5
    <3>2. todo[1].op = "create" /\ todo[1].path = Queue /\ todo[1].id = c.id
      BY <3>1 DEF IsPair
    <3>3. f \in files' /\ f.dir = Queue
      BY <2>5, InPrimed
    <3> QED BY <1>1, <2>5, <3>2, <3>3 DEF LinkMade
  <2>6. c.path = Queue /\ c.op = "write" /\ p + 1 = 2 /\ IsPair(todo[1], c) => c.path = Queue /\ c.op = "write" /\ p = 1
    BY <2>3
  <2> HIDE DEF Exists, In, IsPair
  <2> QED BY <1>2, <2>1, <2>2, <2>4, <2>5, <2>6 DEF Pivots
<1>7. ASSUME NEW p \in 1 .. Links0', NEW q \in 1 .. Links0', p < q,
             todo'[p].path = todo'[q].path, todo'[p].id = todo'[q].id
      PROVE  FALSE
  <2>1. p \in 1 .. Links0 - 1 /\ q \in 1 .. Links0 - 1 /\ p + 1 < q + 1
    BY <1>1, <1>2, <1>7
  <2>2. todo'[p] = todo[p + 1] /\ todo'[q] = todo[q + 1] /\ p + 1 \in 1 .. Links0 /\ q + 1 \in 1 .. Links0 /\ p + 1 # 1
    BY <1>3, <2>1, Zenon
  <2>3. todo[p + 1].path = todo[q + 1].path /\ todo[p + 1].id = todo[q + 1].id
    BY <1>7, <2>2
  <2> QED BY <1>4, <2>1, <2>2, <2>3
<1>8. ASSUME NEW k \in DOMAIN mem, File(Queue, k - 1, mem[k].input) \notin files'
      PROVE  \E p \in 1 .. Links0 - 1 : todo'[p].path = Queue /\ todo'[p].id = k - 1
  <2>1. mem[k].input # Empty
    BY MemEntries DEF Empty
  <2>2. File(Queue, k - 1, mem[k].input) \notin files
    BY <1>8, <2>1 DEF LinkMade, File
  <2>3. PICK p \in 1 .. Links0 : todo[p].path = Queue /\ todo[p].id = k - 1
    BY <1>4, <2>2
  <2>4. CASE p # 1
    <3>1. p - 1 \in 1 .. Links0 - 1 /\ (p - 1) + 1 = p
      BY <1>1, <2>4
    <3>2. todo'[p - 1] = todo[p]
      BY <1>3, <3>1
    <3> QED BY <2>3, <3>1, <3>2
  <2>5. CASE p = 1
    <3>1. k \in Nat
      BY MemEntries
    <3>2. Next1.id = k - 1 /\ Next1.path = Queue /\ Next1.input = mem[Next1.id + 1].input
      BY <1>1, <2>3, <2>5 DEF Pivots
    <3>3. Next1.id + 1 = k
      BY <3>1, <3>2
    <3>4. Next1.op = "create"
      BY <1>8, <3>2, <3>3 DEF LinkMade
    <3>5. Queue # DetDone(Queue)
      BY InSub, StateNames, PathsDiffer DEF Bases
    <3>6. Links0 >= 2 /\ IsPair(todo[1], todo[2])
      BY <1>1, <3>2, <3>4, <3>5 DEF Pivots
    <3>7. 1 \in 1 .. Links0 - 1 /\ 1 + 1 = 2
      BY <1>1, <3>6
    <3>8. todo'[1] = todo[2]
      BY <1>3, <3>7
    <3>9. todo[2].path = Queue /\ todo[2].id = k - 1
      BY <1>1, <3>2, <3>6 DEF IsPair
    <3> QED BY <3>7, <3>8, <3>9
  <2> QED BY <2>4, <2>5
<1>9. 1 .. Links0' = 1 .. Links0 - 1
  BY <1>2
<1> HIDE DEF Pivots, IsPair
<1>10. \A p \in 1 .. Links0' : Pivots(p)'
  BY <1>6, <1>9
<1>11. \A k \in DOMAIN mem' : \/ File(Queue, k - 1, mem'[k].input) \in files'
                              \/ \E p \in 1 .. Links0' : todo'[p].path = Queue /\ todo'[p].id = k - 1
  BY <1>2, <1>8, <1>9
<1>12. \A p, q \in 1 .. Links0' :
         p < q /\ todo'[p].path = todo'[q].path /\ todo'[p].id = todo'[q].id =>
            p = 1 /\ q = 2 /\ IsPair(todo[1], todo[2])'
  BY <1>7
<1> QED BY <1>10, <1>11, <1>12, Zenon DEF Linking

(* A link made keeps the entries in order. *)
LEMMA ImportingMade ==
    ASSUME Typed, Importing, Links0 >= 1, Step, UNCHANGED <<dirs, plain, finds, stale, filed, backups, atRisk>>,
           Tree', LinkMade(Next1), saved \subseteq saved', saved' \subseteq saved \cup ({Next1.input} \ {Seed})
    PROVE  Typed' /\ Importing'
<1>0. PICK c : c = Next1
  OBVIOUS
<1>1. /\ Len(todo) \in Nat /\ Len(todo) >= 1
      /\ N \in Nat /\ N >= 1 /\ inPlace \in BOOLEAN
      /\ Links0 \in Int /\ Rests \in Nat /\ Rests >= 6 /\ Len(todo) = Links0 + Rests
      /\ c = todo[1] /\ Pivots(1)
  BY <1>0, ImportingHead
<1>2. /\ c.id + 1 \in DOMAIN mem /\ c.input = mem[c.id + 1].input
      /\ c.path = Queue \/ (c.path = DetDone(Queue) /\ mem[c.id + 1].passedDet)
  BY <1>1 DEF Pivots
<1>a. c.id \in Int
  <2>1. c \in Command
    BY <1>0, ImportingHead
  <2> QED BY <2>1 DEF Command
<1>3. saved \subseteq 1 .. finds /\ filed \subseteq 1 .. finds /\ finds \in Nat
  <2> HIDE DEF Command
  <2> QED BY DEF Typed
<1>b. saved' \subseteq 1 .. finds /\ filed' \subseteq 1 .. finds
  <2>1. c.input \in 0 .. finds
    BY <1>2, MemEntries
  <2> QED BY <1>0, <1>3, <2>1 DEF Seed
<1>4. /\ Typed' /\ Runs' /\ mem' = mem /\ mem # << >> /\ crashes' = 0 /\ crashes = 0 /\ inPlace' = inPlace
      /\ Len(todo') = Len(todo) - 1 /\ Links0' = Links0 - 1
      /\ \A j \in DOMAIN todo' : j > Links0' => todo'[j] = AfterLinks(inPlace')[j - Links0']
  BY <1>b, ImportingNext
<1>5. Linking'
  BY <1>b, LinkingTail
<1>6. /\ Resume # Queue /\ Resume # DetDone(Queue) /\ Crashes # Queue /\ Crashes # DetDone(Queue) /\ Queue # DetDone(Queue)
  BY InSub, StateNames, PathsDiffer DEF Bases, Leaves
<1>7. /\ \A g \in files' : g \in files \/ (g.dir = c.path /\ g.id = c.id)
      /\ \A g \in files : g.input # Empty \/ g.dir # c.path \/ g.id # c.id => g \in files'
  BY <1>0 DEF LinkMade
<1>8. \A d : d # Queue /\ d # DetDone(Queue) => In(d)' = In(d) /\ Holds(d)' = Holds(d)
  <2> SUFFICES ASSUME NEW d, d # Queue, d # DetDone(Queue) PROVE In(d)' = In(d) /\ Holds(d)' = Holds(d)
    OBVIOUS
  <2>1. \A g : g \in In(d)' <=> g \in In(d)
    BY <1>2, <1>7 DEF In
  <2>2. In(d)' = In(d)
    BY <2>1
  <2> QED BY <2>2 DEF Holds
<1> HIDE DEF Links0, Rests
<1>9. InMemory'
  <2>1. InMemory
    BY DEF Importing
  <2>2. ASSUME NEW f \in In(Queue)' PROVE f.id + 1 \in DOMAIN mem' /\ f.input \in {Empty, mem'[f.id + 1].input}
    <3>1. f \in files' /\ f.dir = Queue
      BY <2>2, InPrimed
    <3>2. CASE f \in files
      BY <1>4, <2>1, <3>1, <3>2 DEF InMemory, In
    <3>3. CASE f.dir = c.path /\ f.id = c.id
      <4>1. f.id + 1 \in DOMAIN mem' /\ mem'[f.id + 1].input = c.input
        BY <1>2, <1>4, <3>3
      <4>2. CASE c.op = "create"
        BY <1>0, <3>1, <3>3, <4>1, <4>2 DEF LinkMade
      <4>3. CASE c.op # "create"
        <5>1. PICK g \in files' : g = File(c.path, c.id, c.input)
          BY <1>0, <4>3 DEF LinkMade
        <5>2. g.dir = f.dir /\ g.id = f.id /\ g.input = c.input
          BY <3>3, <5>1 DEF File
        <5>3. f = g
          BY <3>1, <5>2, Zenon DEF Tree
        <5> QED BY <4>1, <5>2, <5>3
      <4> QED BY <4>2, <4>3
    <3> QED BY <1>7, <3>1, <3>2, <3>3
  <2>3. ASSUME NEW f \in In(DetDone(Queue))' PROVE f.id + 1 \in DOMAIN mem' /\ mem'[f.id + 1].passedDet
    <3>1. f \in files' /\ f.dir = DetDone(Queue)
      BY <2>3, InPrimed
    <3>2. CASE f \in files
      BY <1>4, <2>1, <3>1, <3>2 DEF InMemory, In
    <3>3. CASE f.dir = c.path /\ f.id = c.id
      BY <1>2, <1>4, <1>6, <3>1, <3>3
    <3> QED BY <1>7, <3>1, <3>2, <3>3
  <2>4. In(Crashes)' = In(Crashes)
    BY <1>6, <1>8
  <2>5. In(Crashes) = {} /\ {Queue, DetDone(Queue), Crashes} \subseteq dirs
    BY <1>4, <2>1 DEF InMemory
  <2> HIDE DEF In
  <2> QED BY <1>4, <2>2, <2>3, <2>4, <2>5 DEF InMemory
<1>10. EmptyingDirs'
  <2>1. Links0' \in Int /\ Links0' >= 0
    BY <1>1, <1>4
  <2> HIDE DEF N
  <2>2. ASSUME NEW n \in Nat, NEW x \in Int, x >= 0
        PROVE  (\A j \in 1 .. n : ~(0 - x >= j)) /\ ~(0 - x >= n + 1) /\ ~(0 - x >= n + 2)
    BY <2>2
  <2>3. (\A j \in 1 .. N : ~(0 - Links0' >= j)) /\ ~(0 - Links0' >= N + 1) /\ ~(0 - Links0' >= N + 2)
    BY <1>1, <2>1, <2>2
  <2> QED BY <2>3 DEF EmptyingDirs
<1>11. ~inPlace' => (~stale' => Resume \notin dirs')
  BY <1>4 DEF Importing
<1>12. Len(todo') >= 1 /\ Len(todo') # 5
  BY <1>1, <1>4
<1>13. ImportingKept'
  <2>1. Inputs' = Inputs /\ c.input \in Inputs
    BY <1>2, <1>4 DEF Inputs
  <2>2. /\ inPlace => /\ saved \subseteq atRisk \cup Holds(Resume)
                      /\ Inputs = Holds(Resume) \ {Empty}
        /\ ~inPlace => saved = {} /\ Inputs = {Seed}
        /\ CrashesKept
    <3>1. Links0 > 0
      BY <1>1
    <3> QED BY <3>1, Zenon DEF Importing, ImportingKept
  <2>3. CrashesKept'
    BY <1>6, <1>8, <2>2 DEF CrashesKept
  <2>4. inPlace' => /\ saved' \subseteq atRisk' \cup Holds(Resume)'
                    /\ Inputs' = Holds(Resume)' \ {Empty}
    BY <1>0, <1>4, <1>6, <1>8, <2>1, <2>2
  <2>5. ~inPlace' => saved' = {} /\ Inputs' = {Seed}
    BY <1>0, <1>4, <2>1, <2>2
  <2>6. Links0' <= 0 => saved' \subseteq atRisk' \cup Holds(Queue)'
    <3> SUFFICES ASSUME Links0' <= 0, NEW i \in saved', i \notin atRisk' PROVE i \in Holds(Queue)'
      OBVIOUS
    <3>1. i \in Inputs
      <4>1. CASE ~inPlace
        BY <1>4, <2>5, <4>1
      <4>2. CASE inPlace
        <5>1. i \in Holds(Resume)' /\ i # Empty
          BY <1>3, <1>b, <1>4, <2>4, <4>2 DEF Empty
        <5> QED BY <1>4, <2>1, <2>4, <4>2, <5>1
      <4> QED BY <4>1, <4>2
    <3>2. PICK k \in DOMAIN mem : i = mem[k].input
      BY <3>1 DEF Inputs
    <3>3. 1 .. Links0' = {}
      BY <1>1, <1>4
    <3>4. \A j \in DOMAIN mem' : \/ File(Queue, j - 1, mem'[j].input) \in files'
                                 \/ \E p \in 1 .. Links0' : todo'[p].path = Queue /\ todo'[p].id = j - 1
      <4> HIDE DEF Pivots, IsPair
      <4> QED BY <1>5, Zenon DEF Linking
    <3>5. File(Queue, k - 1, i) \in files'
      BY <1>4, <3>2, <3>3, <3>4
    <3> QED BY <3>5, HoldsAt DEF File
  <2> QED BY <2>3, <2>4, <2>5, <2>6 DEF ImportingKept
<1>14. mem' # << >>
  BY <1>4
<1> HIDE DEF Runs, Linking, InMemory, EmptyingDirs, ImportingKept
<1>15. Importing'
  BY <1>4, <1>5, <1>9, <1>10, <1>11, <1>12, <1>13, <1>14, Zenon DEF Importing
<1> QED BY <1>4, <1>15

(* A link or a write made in full. *)
LEMMA ImportingFile ==
    ASSUME Typed, Tree, Importing, Links0 >= 1, Step, Next1.op \in {"link", "write"},
           UNCHANGED <<dirs, plain, finds, stale, backups, atRisk>>,
           Written(File(Next1.path, Next1.id, Next1.input)), Noted(File(Next1.path, Next1.id, Next1.input))
    PROVE  Typed' /\ Tree' /\ Importing'
<1>0. PICK c : c = Next1
  OBVIOUS
<1>1. Pivots(1) /\ c = todo[1] /\ c \in Command
  BY <1>0, ImportingHead
<1>2. /\ c.id + 1 \in DOMAIN mem /\ c.input = mem[c.id + 1].input /\ c.path = Queue
      /\ c.op # "write" => ~Exists(c.path, c.id)
      /\ c.op = "write" => \A f \in In(Queue) : f.id = c.id => f.input = Empty
  <2>1. c.op # "create"
    BY <1>0
  <2> HIDE DEF Exists, In, IsPair
  <2> QED BY <1>1, <2>1 DEF Pivots
<1>3. c.input \in 0 .. finds /\ c.id \in Nat /\ finds \in Nat
  <2>1. c.id \in Int /\ DOMAIN mem = 1 .. Len(mem) /\ Len(mem) \in Nat
    BY <1>1, MemEntries DEF Command
  <2> QED BY <1>2, <2>1, MemEntries
<1>4. PICK f : f = File(Queue, c.id, c.input)
  OBVIOUS
<1>5. f.dir = Queue /\ f.id = c.id /\ f.input = c.input
  BY <1>4 DEF File
<1> DEFINE old == {File(Queue, c.id, Empty)}
<1>6. files' = (files \ old) \cup {f}
  BY <1>0, <1>2, <1>4, <1>5 DEF Written
<1>7. /\ saved' = IF f.dir = Queue /\ f.input # Seed THEN saved \cup {f.input} ELSE saved
      /\ filed' = IF f.dir = Crashes /\ f.id # NoId THEN filed \cup {f.input} ELSE filed
  BY <1>0, <1>2, <1>4, Zenon DEF Noted
<1>8. \A g \in files : g.dir = Queue /\ g.id = c.id => g \in old
  <2> SUFFICES ASSUME NEW g \in files, g.dir = Queue, g.id = c.id PROVE g \in old
    OBVIOUS
  <2>1. g \in In(Queue) /\ g = File(g.dir, g.id, g.input)
    BY FilesAt
  <2>2. c.op = "write"
    BY <1>2, <2>1 DEF Exists
  <2>3. g.input = Empty
    BY <1>2, <2>1, <2>2
  <2> QED BY <2>1, <2>3
<1>9. Queue # Crashes /\ Queue \in FileDirs /\ Queue \in dirs
  BY PathsDiffer DEF FileDirs, Importing, InMemory
<1>10. Tree'
  <2>1. f \in [dir : FileDirs, id : Nat \cup {NoId}, input : {Empty} \cup 0 .. finds]
    <3> HIDE DEF FileDirs
    <3> QED BY <1>3, <1>4, <1>9 DEF File
  <2>2. f.dir \in dirs /\ (f.id = NoId => f.dir = Crashes)
    BY <1>3, <1>5, <1>9 DEF NoId
  <2> HIDE DEF old
  <2> QED BY <1>5, <1>6, <1>8, <2>1, <2>2, TreeFile
<1>11. LinkMade(Next1)
  <2>1. LinkMade(c)
    <3>1. \A g \in files' : g \in files \/ (g.dir = c.path /\ g.id = c.id)
      BY <1>2, <1>5, <1>6
    <3>2. \A g \in files : g.input # Empty \/ g.dir # c.path \/ g.id # c.id => g \in files'
      BY <1>2, <1>6 DEF File
    <3>3. File(c.path, c.id, c.input) \in files'
      BY <1>2, <1>4, <1>6
    <3>4. c.op # "create"
      BY <1>0
    <3> QED BY <3>1, <3>2, <3>3, <3>4 DEF LinkMade
  <2> QED BY <1>0, <2>1
<1>12. saved \subseteq saved' /\ saved' \subseteq saved \cup ({Next1.input} \ {Seed}) /\ filed' = filed
  BY <1>0, <1>5, <1>7, <1>9
<1>13. Typed' /\ Importing'
  BY <1>10, <1>11, <1>12, ImportingMade
<1> QED BY <1>10, <1>13

(* The whole of a link or a write: what is in the queue is in memory, and    *)
(* once the last entry is linked every find is in queue.                     *)
LEMMA ImportingLinked ==
    ASSUME Typed, Importing, UNCHANGED <<session, disk, finds, history>>, Next1.op = "link",
           todo' = <<DoFile("create", File(Next1.path, Next1.id, Next1.input)),
                     DoFile("write", File(Next1.path, Next1.id, Next1.input))>> \o Tail(todo)
    PROVE  Typed' /\ Importing'
<1>0. PICK c : c = Next1
  OBVIOUS
<1> DEFINE f == File(c.path, c.id, c.input)
           x == DoFile("create", f)
           y == DoFile("write", f)
<1>1. /\ todo # << >> /\ Len(todo) \in Nat /\ Len(todo) >= 1 /\ DOMAIN todo = 1 .. Len(todo)
      /\ Links0 \in Int /\ Rests \in Nat /\ Rests >= 6 /\ Len(todo) = Links0 + Rests
      /\ c = todo[1] /\ c \in Command
      /\ (Links0 >= 1 => Pivots(1))
  BY <1>0, ImportingHead
<1>2. Links0 >= 1
  <2> SUFFICES ASSUME Links0 <= 0 PROVE FALSE
    BY <1>1
  <2>1. c = AfterLinks(inPlace)[1 - Links0] /\ 1 - Links0 \in 1 .. Rests
        /\ Rests = (IF inPlace THEN N + 2 ELSE 0) + 6 /\ inPlace \in BOOLEAN
    BY <1>0, ImportingHead
  <2> HIDE DEF Links0, Rests
  <2> QED BY <1>0, <2>1, LastHeads
<1>3. /\ c.id + 1 \in DOMAIN mem /\ c.input = mem[c.id + 1].input /\ c.path = Queue
      /\ ~Exists(c.path, c.id)
  <2>1. c.op # "create" /\ c.op # "write" /\ Pivots(1)
    BY <1>0, <1>1, <1>2
  <2> HIDE DEF Exists, In, IsPair
  <2> QED BY <1>1, <2>1 DEF Pivots
<1>4. x \in Command /\ y \in Command
  <2>1. "create" \in Ops /\ "write" \in Ops /\ Queue \in Paths
    BY KnownPaths DEF Ops, Bases
  <2>2. c.id \in Int /\ c.input \in Int
    BY <1>1 DEF Command
  <2> QED BY <1>3, <2>1, <2>2, CommandType
<1>5. /\ x.op = "create" /\ x.path = Queue /\ x.id = c.id /\ x.input = c.input
      /\ y.op = "write" /\ y.path = Queue /\ y.id = c.id /\ y.input = c.input
  BY <1>3 DEF DoFile, File
<1>6. todo' = <<x, y>> \o Tail(todo)
  BY <1>0
<1> HIDE DEF x, y
<1>7. PICK x0, y0 : x0 = x /\ y0 = y
  OBVIOUS
<1>8. /\ todo' \in Seq(Command) /\ Len(todo') = Len(todo) + 1 /\ DOMAIN todo' = 1 .. Len(todo) + 1
      /\ todo'[1] = x0 /\ todo'[2] = y0 /\ \A j \in 3 .. Len(todo) + 1 : todo'[j] = todo[j - 1]
  <2>1. todo \in Seq(Command)
    BY DEF Typed
  <2> DEFINE t == Tail(todo)
             u == <<x, y>>
  <2>2. t \in Seq(Command) /\ Len(t) = Len(todo) - 1 /\ \A j \in 1 .. Len(todo) - 1 : t[j] = todo[j + 1]
    BY <1>1, <2>1, HeadTailProperties, Zenon
  <2>3. u \in Seq(Command) /\ Len(u) = 2 /\ u[1] = x /\ u[2] = y
    BY <1>4, Double
  <2> HIDE DEF t, u
  <2>4. todo' = u \o t
    BY <1>6 DEF t, u
  <2>5. /\ u \o t \in Seq(Command) /\ Len(u \o t) = Len(u) + Len(t)
        /\ \A i \in 1 .. Len(u) : (u \o t)[i] = u[i]
        /\ \A i \in 1 .. Len(t) : (u \o t)[Len(u) + i] = t[i]
    <3>1. u \in Seq(Command) /\ t \in Seq(Command)
      BY <2>2, <2>3
    <3> QED BY <3>1, CatMore
  <2>6. /\ todo' \in Seq(Command) /\ Len(todo') = 2 + (Len(todo) - 1)
        /\ \A i \in 1 .. 2 : todo'[i] = u[i]
        /\ \A i \in 1 .. Len(todo) - 1 : todo'[2 + i] = t[i]
    BY <2>2, <2>3, <2>4, <2>5, Zenon
  <2>7. todo'[1] = x0 /\ todo'[2] = y0
    BY <1>7, <2>3, <2>6
  <2>8. Len(todo') = Len(todo) + 1
    BY <1>1, <2>6
  <2>9. ASSUME NEW j \in 3 .. Len(todo) + 1 PROVE todo'[j] = todo[j - 1]
    <3>1. j - 2 \in 1 .. Len(todo) - 1 /\ 2 + (j - 2) = j /\ (j - 2) + 1 = j - 1
      BY <1>1
    <3>2. todo'[2 + (j - 2)] = t[j - 2] /\ t[j - 2] = todo[(j - 2) + 1]
      BY <2>2, <2>6, <3>1, Zenon
    <3> QED BY <3>1, <3>2
  <2>10. DOMAIN todo' = 1 .. Len(todo) + 1
    BY <2>6, <2>8
  <2> QED BY <2>6, <2>7, <2>8, <2>9, <2>10
<1>9. Typed'
  <2> HIDE DEF Command
  <2> QED BY <1>8 DEF Typed, session, history
<1>10. inPlace' = inPlace /\ mem' = mem /\ crashes' = crashes /\ Runs' = Runs /\ files' = files /\ dirs' = dirs /\ plain' = plain
       /\ saved' = saved /\ filed' = filed /\ backups' = backups /\ atRisk' = atRisk /\ stale' = stale
  BY DEF session, disk, history, Runs
<1>11. Links0' = Links0 + 1
  <2>1. Rests' = Rests /\ Links0' = Len(todo') - Rests' /\ Links0 = Len(todo) - Rests
    BY <1>10 DEF Rests, Links0
  <2> HIDE DEF Rests, Links0
  <2> QED BY <1>1, <1>8, <2>1
<1> HIDE DEF Links0, Rests
<1>12. ASSUME NEW j \in DOMAIN todo', j > Links0' PROVE todo'[j] = AfterLinks(inPlace')[j - Links0']
  <2>1. j \in 3 .. Len(todo) + 1 /\ j - 1 \in DOMAIN todo /\ j - 1 > Links0 /\ (j - 1) - Links0 = j - Links0'
    <3>1. j \in 1 .. Len(todo) + 1 /\ j > Links0 + 1
      BY <1>8, <1>11, <1>12
    <3> QED BY <1>1, <1>2, <1>11, <3>1
  <2>2. todo[j - 1] = AfterLinks(inPlace)[(j - 1) - Links0]
    BY <2>1, Zenon DEF Importing
  <2>3. todo'[j] = todo[j - 1]
    BY <1>8, <2>1, Zenon
  <2> QED BY <1>10, <2>1, <2>2, <2>3
<1>13. /\ \A p \in 1 .. Links0 : Pivots(p)
       /\ \A p, q \in 1 .. Links0 :
            p < q /\ todo[p].path = todo[q].path /\ todo[p].id = todo[q].id =>
               p = 1 /\ q = 2 /\ IsPair(todo[1], todo[2])
       /\ \A k \in DOMAIN mem :
            \/ File(Queue, k - 1, mem[k].input) \in files
            \/ \E p \in 1 .. Links0 : todo[p].path = Queue /\ todo[p].id = k - 1
  <2> HIDE DEF Pivots, IsPair
  <2> QED BY Zenon DEF Importing, Linking
<1>14. ~IsPair(todo[1], todo[2])
  BY <1>0, <1>1 DEF IsPair
<1>15. IsPair(x0, y0)
  BY <1>5, <1>7 DEF IsPair
<1>16. \A p \in 3 .. Links0' : p - 1 \in 1 .. Links0 /\ p - 1 # 1 /\ todo'[p] = todo[p - 1]
  BY <1>1, <1>8, <1>11
<1>17. Pivots(1)'
  <2>1. /\ x0.id + 1 \in DOMAIN mem' /\ x0.input = mem'[x0.id + 1].input
        /\ x0.path = Queue /\ x0.op = "create" /\ ~Exists(x0.path, x0.id)'
    <3>1. ~Exists(x0.path, x0.id)'
      BY <1>3, <1>5, <1>7, <1>10 DEF Exists, In
    <3> QED BY <1>3, <1>5, <1>7, <1>10, <3>1
  <2>2. Links0' >= 2
    BY <1>1, <1>2, <1>11
  <2>3. IsPair(x0, todo'[2])
    BY <1>8, <1>15
  <2> HIDE DEF Exists, In, IsPair
  <2> QED BY <1>8, <2>1, <2>2, <2>3 DEF Pivots
<1>18. Pivots(2)'
  <2>1. /\ y0.id + 1 \in DOMAIN mem' /\ y0.input = mem'[y0.id + 1].input
        /\ y0.path = Queue /\ y0.op = "write"
    BY <1>3, <1>5, <1>7, <1>10
  <2>2. \A g \in In(Queue)' : g.id # y0.id
    BY <1>3, <1>5, <1>7, <1>10 DEF Exists, In
  <2>3. IsPair(todo'[1], y0)
    BY <1>8, <1>15
  <2> HIDE DEF Exists, In, IsPair
  <2> QED BY <1>8, <2>1, <2>2, <2>3 DEF Pivots
<1>19. ASSUME NEW p \in 3 .. Links0' PROVE Pivots(p)'
  <2>0. PICK e : e = todo[p - 1]
    OBVIOUS
  <2>1. Pivots(p - 1) /\ todo'[p] = e /\ p - 1 # 1
    BY <1>13, <1>16, <2>0
  <2>2. /\ e.id + 1 \in DOMAIN mem
        /\ e.input = mem[e.id + 1].input
        /\ \/ e.path = Queue /\ e.op = "link"
           \/ p - 1 = 2 /\ IsPair(todo[1], e)
           \/ e.path = DetDone(Queue) /\ e.op = "create" /\ mem[e.id + 1].passedDet
        /\ e.op # "write" => ~Exists(e.path, e.id)
        /\ e.op = "write" => \A g \in In(Queue) : g.id = e.id => g.input = Empty
    <3> HIDE DEF IsPair, Exists, In
    <3> QED BY <2>0, <2>1 DEF Pivots
  <2>3. ~(p - 1 = 2 /\ IsPair(todo[1], e))
    BY <1>14, <2>0
  <2>4. In(Queue)' = In(Queue) /\ (~Exists(e.path, e.id) => ~Exists(e.path, e.id)')
    BY <1>10 DEF In, Exists
  <2> HIDE DEF Exists, In, IsPair
  <2> QED BY <1>10, <2>1, <2>2, <2>3, <2>4 DEF Pivots
<1>20. \A p \in 1 .. Links0' : Pivots(p)'
  <2> SUFFICES ASSUME NEW p \in 1 .. Links0' PROVE Pivots(p)'
    OBVIOUS
  <2>1. p = 1 \/ p = 2 \/ p \in 3 .. Links0'
    BY <1>1, <1>11
  <2> HIDE DEF Pivots
  <2> QED BY <1>17, <1>18, <1>19, <2>1
<1>21. ASSUME NEW p \in 1 .. Links0', NEW q \in 1 .. Links0', p < q,
              todo'[p].path = todo'[q].path, todo'[p].id = todo'[q].id
       PROVE  p = 1 /\ q = 2 /\ IsPair(todo[1], todo[2])'
  <2>1. CASE q \notin 3 .. Links0'
    <3>1. p = 1 /\ q = 2
      BY <1>1, <1>11, <1>21, <2>1
    <3> QED BY <1>8, <1>15, <3>1 DEF IsPair
  <2>2. CASE q \in 3 .. Links0'
    <3>1. q - 1 \in 1 .. Links0 /\ q - 1 # 1 /\ todo'[q] = todo[q - 1] /\ 1 < q - 1
      <4>1. q - 1 \in 1 .. Links0 /\ q - 1 # 1 /\ todo'[q] = todo[q - 1]
        BY <1>16, <2>2, Zenon
      <4>2. 1 < q - 1
        BY <2>2
      <4> QED BY <4>1, <4>2, Zenon
    <3>2. CASE p \in 3 .. Links0'
      <4>1. p - 1 \in 1 .. Links0 /\ p - 1 # 1 /\ todo'[p] = todo[p - 1] /\ p - 1 < q - 1
        <5>1. p - 1 \in 1 .. Links0 /\ p - 1 # 1 /\ todo'[p] = todo[p - 1]
          BY <1>16, <3>2, Zenon
        <5>2. p - 1 < q - 1
          BY <1>21, <2>2, <3>2
        <5> QED BY <5>1, <5>2, Zenon
      <4> QED BY <1>13, <1>21, <3>1, <4>1
    <3>3. CASE p = 1 \/ p = 2
      <4>1. todo'[p].path = todo[1].path /\ todo'[p].id = todo[1].id
        BY <1>1, <1>3, <1>5, <1>7, <1>8, <3>3
      <4>2. 1 \in 1 .. Links0
        BY <1>1, <1>2
      <4> QED BY <1>13, <1>14, <1>21, <3>1, <4>1, <4>2
    <3> QED BY <1>1, <1>11, <3>2, <3>3
  <2> QED BY <2>1, <2>2
<1>22. ASSUME NEW k \in DOMAIN mem', File(Queue, k - 1, mem'[k].input) \notin files'
       PROVE  \E p \in 1 .. Links0' : todo'[p].path = Queue /\ todo'[p].id = k - 1
  <2>1. PICK p \in 1 .. Links0 : todo[p].path = Queue /\ todo[p].id = k - 1
    BY <1>10, <1>13, <1>22
  <2>2. CASE p = 1
    <3>1. 1 \in 1 .. Links0'
      BY <1>1, <1>2, <1>11
    <3> QED BY <1>1, <1>5, <1>7, <1>8, <2>1, <2>2, <3>1
  <2>3. CASE p # 1
    <3>1. p + 1 \in 3 .. Links0' /\ (p + 1) - 1 = p /\ p + 1 \in 1 .. Links0'
      BY <1>1, <1>11, <2>3
    <3>2. todo'[p + 1] = todo[p]
      BY <1>16, <3>1
    <3> QED BY <2>1, <3>1, <3>2
  <2> QED BY <2>2, <2>3
<1>23. Linking'
  <2> HIDE DEF Pivots, IsPair
  <2> QED BY <1>20, <1>21, <1>22 DEF Linking
<1>24. InMemory'
  <2>1. \A d : In(d)' = In(d)
    BY <1>10 DEF In
  <2>2. InMemory
    BY DEF Importing
  <2> HIDE DEF In
  <2> QED BY <1>10, <2>1, <2>2 DEF InMemory
<1>25. EmptyingDirs'
  <2>1. Links0' \in Int /\ Links0' >= 0 /\ N \in Nat
    BY <1>1, <1>2, <1>11, StateNames
  <2>2. ASSUME NEW n \in Nat, NEW z \in Int, z >= 0
        PROVE  (\A j \in 1 .. n : ~(0 - z >= j)) /\ ~(0 - z >= n + 1) /\ ~(0 - z >= n + 2)
    BY <2>2
  <2>3. (\A j \in 1 .. N : ~(0 - Links0' >= j)) /\ ~(0 - Links0' >= N + 1) /\ ~(0 - Links0' >= N + 2)
    BY <2>1, <2>2
  <2> QED BY <2>3 DEF EmptyingDirs
<1>26. ImportingKept'
  <2>1. /\ inPlace => /\ saved \subseteq atRisk \cup Holds(Resume)
                      /\ Inputs = Holds(Resume) \ {Empty}
        /\ ~inPlace => saved = {} /\ Inputs = {Seed}
        /\ CrashesKept
    <3>1. Links0 > 0
      BY <1>1, <1>2
    <3> QED BY <3>1, Zenon DEF Importing, ImportingKept
  <2>2. (\A d : Holds(d)' = Holds(d)) /\ Inputs' = Inputs
    BY <1>10 DEF Holds, In, Inputs
  <2>3. CrashesKept'
    BY <1>10, <2>1, <2>2 DEF CrashesKept
  <2>4. ~(Links0' <= 0)
    BY <1>1, <1>2, <1>11
  <2> QED BY <1>10, <2>1, <2>2, <2>3, <2>4 DEF ImportingKept
<1>27. Len(todo') >= 1 /\ Len(todo') # 5
  BY <1>1, <1>2, <1>8
<1>28. Runs' /\ mem' # << >> /\ crashes' = 0 /\ (~inPlace' => (~stale' => Resume \notin dirs'))
  BY <1>10 DEF Importing
<1> HIDE DEF Runs, Linking, InMemory, EmptyingDirs, ImportingKept
<1>29. Importing'
  BY <1>12, <1>23, <1>24, <1>25, <1>26, <1>27, <1>28, Zenon DEF Importing
<1> QED BY <1>9, <1>29

(* A link, or a copy begun, which is executed in two steps. *)
LEMMA ImportingLink ==
    ASSUME Typed, Tree, Importing, Link, UNCHANGED <<finds, stale>>
    PROVE  Typed' /\ Tree' /\ Importing'
<1> DEFINE f == File(Next1.path, Next1.id, Next1.input)
<1>1. Next1.op = "link" /\ UNCHANGED <<dirs, plain, stats, finds, starts, marked, backups, atRisk, stale>>
  BY DEF Link, Does
<1>2. Links0 >= 1 /\ ~Exists(Next1.path, Next1.id)
  <2>1. Links0 \in Int /\ (Links0 >= 1 => Pivots(1)) /\ Next1 = todo[1]
    BY ImportingHead
  <2>2. Links0 >= 1
    <3> SUFFICES ASSUME Links0 <= 0 PROVE FALSE
      BY <2>1
    <3>1. Next1 = AfterLinks(inPlace)[1 - Links0] /\ 1 - Links0 \in 1 .. Rests
          /\ Rests = (IF inPlace THEN N + 2 ELSE 0) + 6 /\ inPlace \in BOOLEAN
      BY ImportingHead
    <3> HIDE DEF Links0, Rests
    <3> QED BY <1>1, <3>1, LastHeads
  <2>3. Pivots(1) /\ todo[1].op # "write"
    BY <1>1, <2>1, <2>2
  <2> HIDE DEF Exists, IsPair, In
  <2> QED BY <2>1, <2>2, <2>3 DEF Pivots
<1>3. f.dir = Next1.path /\ f.id = Next1.id
  BY DEF File
<1>4. \/ Step /\ Written(f) /\ Noted(f)
      \/ /\ todo' = <<DoFile("create", f), DoFile("write", f)>> \o Tail(todo)
         /\ UNCHANGED <<session, files, saved, filed>>
  <2> HIDE DEF f, Exists
  <2> QED BY <1>2, <1>3 DEF Link, f
<1>5. CASE Step /\ Written(f) /\ Noted(f)
  BY <1>1, <1>2, <1>5, ImportingFile
<1>6. CASE /\ todo' = <<DoFile("create", f), DoFile("write", f)>> \o Tail(todo)
           /\ UNCHANGED <<session, files, saved, filed>>
  <2>1. UNCHANGED <<session, disk, finds, history>>
    BY <1>1, <1>6 DEF disk, history
  <2>2. Typed' /\ Importing'
    BY <1>1, <1>6, <2>1, ImportingLinked
  <2>3. Tree'
    BY <1>1, <1>6, SameTree
  <2> QED BY <2>2, <2>3
<1> QED BY <1>4, <1>5, <1>6

(* The operations tell the links from what follows. *)
LEMMA ImportingOps ==
    ASSUME Typed, Importing
    PROVE  /\ Links0 \in Int
           /\ Next1.op \notin {"link", "create", "write"} => Links0 <= 0
           /\ Next1.op \in {"link", "write"} => Links0 >= 1
<1>1. /\ Links0 \in Int /\ Next1 = todo[1]
      /\ Links0 >= 1 => Pivots(1)
      /\ Links0 <= 0 => /\ Next1 = AfterLinks(inPlace)[1 - Links0]
                        /\ 1 - Links0 \in 1 .. Rests
      /\ Rests = (IF inPlace THEN N + 2 ELSE 0) + 6
      /\ inPlace \in BOOLEAN
  BY ImportingHead
<1>2. Links0 >= 1 => Next1.op \in {"link", "create", "write"}
  <2> HIDE DEF Links0, Exists, In, IsPair
  <2> QED BY <1>1 DEF Pivots
<1>3. Links0 <= 0 => Next1.op \notin {"link", "write"}
  <2> HIDE DEF Links0, Rests
  <2> QED BY <1>1, LastHeads
<1> HIDE DEF Links0, Rests
<1>4. Links0 <= 0 \/ Links0 >= 1
  BY <1>1
<1> QED BY <1>1, <1>2, <1>3, <1>4

(* The second half of a copy. *)
LEMMA ImportingWrite ==
    ASSUME Typed, Tree, Importing, Write, UNCHANGED <<finds, stale>>
    PROVE  Typed' /\ Tree' /\ Importing'
<1>1. Next1.op = "write" /\ Step /\ UNCHANGED <<dirs, plain, backups, atRisk>>
      /\ Written(File(Next1.path, Next1.id, Next1.input))
      /\ Noted(File(Next1.path, Next1.id, Next1.input))
  BY DEF Write, Does
<1>2. Links0 >= 1
  BY <1>1, ImportingOps
<1> QED BY <1>1, <1>2, ImportingFile

(* The first half of a copy, or a mark. *)
LEMMA ImportingCreateLink ==
    ASSUME Typed, Tree, Importing, Create, Links0 >= 1, UNCHANGED <<finds, stale>>
    PROVE  Typed' /\ Tree' /\ Importing'
<1>0. PICK c : c = Next1
  OBVIOUS
<1>1. Pivots(1) /\ c = todo[1] /\ c \in Command /\ c.op = "create"
      /\ UNCHANGED <<dirs, stats, saved, filed, backups, atRisk>>
  BY <1>0, ImportingHead DEF Create, Does
<1>2. /\ c.id + 1 \in DOMAIN mem /\ c.path \in {Queue, DetDone(Queue)}
      /\ ~Exists(c.path, c.id)
  <2> HIDE DEF Exists, In, IsPair
  <2> QED BY <1>1 DEF Pivots
<1>3. c.id \in Nat /\ c.id # NoId
  <2>1. c.id \in Int /\ DOMAIN mem = 1 .. Len(mem) /\ Len(mem) \in Nat
    BY <1>1, MemEntries DEF Command
  <2> QED BY <1>2, <2>1 DEF NoId
<1>4. c.path \in dirs /\ c.path \in FileDirs
  BY <1>2 DEF Importing, InMemory, FileDirs
<1>5. PICK f : f = File(c.path, c.id, Empty)
  OBVIOUS
<1>6. f.dir = c.path /\ f.id = c.id /\ f.input = Empty
  BY <1>5 DEF File
<1>7. Step /\ files' = files \cup {f} /\ UNCHANGED plain
  <2> HIDE DEF Exists, Step
  <2> QED BY <1>0, <1>2, <1>3, <1>4, <1>5, <1>6, Zenon DEF Create
<1>8. \A g \in files : ~(g.dir = c.path /\ g.id = c.id)
  BY <1>2 DEF Exists, In
<1>9. Tree'
  <2>1. f \in [dir : FileDirs, id : Nat \cup {NoId}, input : {Empty} \cup 0 .. finds]
    <3> HIDE DEF FileDirs
    <3> QED BY <1>3, <1>4, <1>5 DEF File
  <2>2. files' = (files \ {}) \cup {f}
    BY <1>7
  <2>3. f.dir \in dirs /\ (f.id = NoId => f.dir = Crashes)
    BY <1>3, <1>4, <1>6
  <2>4. \A g \in files : g.dir = f.dir /\ g.id = f.id => g \in {}
    BY <1>6, <1>8
  <2> QED BY <1>1, <1>7, <2>1, <2>2, <2>3, <2>4, TreeFile
<1>10. LinkMade(c)
  BY <1>1, <1>6, <1>7, <1>8 DEF LinkMade
<1>11. Typed' /\ Importing'
  <2>1. LinkMade(Next1)
    BY <1>0, <1>10
  <2>2. saved \subseteq saved' /\ saved' \subseteq saved \cup ({Next1.input} \ {Seed})
    BY <1>1
  <2> QED BY <1>1, <1>7, <1>9, <2>1, <2>2, ImportingMade
<1> QED BY <1>9, <1>11

(* The commands after the links. *)
LEMMA LastHead ==
    ASSUME Typed, Importing, Links0 <= 0, NEW p, p = 1 - Links0, NEW o, o = (IF inPlace THEN N + 2 ELSE 0)
    PROVE
    /\ N \in Nat /\ N >= 1 /\ o \in Nat /\ Links0 \in Int /\ inPlace \in BOOLEAN
    /\ p \in 1 .. o + 6 /\ Len(todo) = o + 7 - p
    /\ Next1 = AfterLinks(inPlace)[p]
    /\ Next1.id = NoId
    /\ Next1.op \in {"clear", "rmdir", "unlink", "create", "seek", "truncate", "stats", "enter"}
    /\ Next1.op = "clear" => inPlace /\ ((p \in 1 .. N /\ Next1.path = Sub(Resume, StateDirs[p])) \/ (p = N + 2 /\ Next1.path = Resume))
    /\ Next1.op = "rmdir" => inPlace /\ p = N + 1 /\ Next1.path = State(Resume)
    /\ Next1.op = "unlink" => p = o + 1 /\ Next1.path = CurInput
    /\ Next1.op = "create" => p = o + 2 /\ Next1.path = CurInput
    /\ Next1.op = "seek" => p = o + 3
    /\ Next1.op = "truncate" => p = o + 4
    /\ Next1.op = "stats" => p = o + 5
    /\ Next1.op = "enter" => p = o + 6
<1>1. /\ N \in Nat /\ N >= 1 /\ inPlace \in BOOLEAN
      /\ Links0 \in Int /\ Len(todo) = Links0 + Rests
      /\ Next1 = AfterLinks(inPlace)[p]
      /\ p \in 1 .. Rests
      /\ Rests = o + 6
  BY ImportingHead
<1> HIDE DEF Links0, Rests, N
<1>2. o \in Nat
  BY <1>1
<1>3. p \in 1 .. o + 6 /\ Len(todo) = o + 7 - p
  BY <1>1, <1>2
<1>4. PICK c : c = AfterLinks(inPlace)[p]
  OBVIOUS
<1>5. c = Next1
  BY <1>1, <1>4
<1>6. /\ c.id = NoId
      /\ c.op \in {"clear", "rmdir", "unlink", "create", "seek", "truncate", "stats", "enter"}
      /\ c.op = "clear" => inPlace /\ ((p \in 1 .. N /\ c.path = Sub(Resume, StateDirs[p])) \/ (p = N + 2 /\ c.path = Resume))
      /\ c.op = "rmdir" => inPlace /\ p = N + 1 /\ c.path = State(Resume)
      /\ c.op = "unlink" => p = o + 1 /\ c.path = CurInput
      /\ c.op = "create" => p = o + 2 /\ c.path = CurInput
      /\ c.op = "seek" => p = o + 3
      /\ c.op = "truncate" => p = o + 4
      /\ c.op = "stats" => p = o + 5
      /\ c.op = "enter" => p = o + 6
  BY <1>1, <1>3, <1>4, LastHeads
<1> QED BY <1>1, <1>2, <1>3, <1>5, <1>6, Zenon

(* A command after the links executed. *)
LEMMA ImportingLast ==
    ASSUME Typed, Importing, Links0 <= 0, Step, Next1.op # "enter",
           UNCHANGED <<finds, stale, saved, filed, backups, atRisk>>,
           \A d \in {Queue, DetDone(Queue), Crashes} : In(d)' = In(d) /\ d \in dirs',
           inPlace => EmptyingDirs', ~inPlace => (~stale => Resume \notin dirs'),
           Len(todo') = 5 => CurInput \notin plain'
    PROVE  Typed' /\ Importing'
<1> DEFINE o == IF inPlace THEN N + 2 ELSE 0
           p == 1 - Links0
<1>1. /\ o \in Nat /\ Links0 \in Int /\ inPlace \in BOOLEAN
      /\ p \in 1 .. o + 6 /\ Len(todo) = o + 7 - p
      /\ Next1 = AfterLinks(inPlace)[p]
  BY LastHead
<1>2. p # o + 6
  <2>1. AfterLinks(inPlace)[o + 6].op = "enter"
    <3>1. AfterLinks(inPlace)[o + 6] = Do("enter", Queue)
      BY <1>1, AfterLinksAt, Zenon
    <3>2. Do("enter", Queue).op = "enter"
      BY DEF Do
    <3> QED BY <3>1, <3>2, Zenon
  <2> QED BY <1>1, <2>1
<1>3. saved' \subseteq 1 .. finds /\ filed' \subseteq 1 .. finds
  <2> HIDE DEF Command
  <2> QED BY DEF Typed
<1>4. /\ Typed' /\ Runs' /\ mem' = mem /\ mem # << >> /\ crashes' = 0 /\ crashes = 0 /\ inPlace' = inPlace
      /\ Len(todo') = Len(todo) - 1 /\ Links0' = Links0 - 1
      /\ \A j \in DOMAIN todo' : j > Links0' => todo'[j] = AfterLinks(inPlace')[j - Links0']
  BY <1>3, ImportingNext
<1> HIDE DEF Links0, N
<1>5. Len(todo') >= 1
  <2> HIDE DEF o
  <2> QED BY <1>1, <1>2, <1>4
<1>6. 1 .. Links0' = {} /\ 1 .. Links0 = {} /\ Links0' <= 0 /\ ~(Links0' > 0) /\ Links0 <= 0
  BY <1>1, <1>4
<1>7. Linking'
  <2>1. \A k \in DOMAIN mem : File(Queue, k - 1, mem[k].input) \in In(Queue)
    <3>1. \A k \in DOMAIN mem : File(Queue, k - 1, mem[k].input) \in files
                                \/ \E q \in 1 .. Links0 : todo[q].path = Queue /\ todo[q].id = k - 1
      <4> HIDE DEF Pivots, IsPair
      <4> QED BY Zenon DEF Importing, Linking
    <3> QED BY <1>6, <3>1 DEF In, File
  <2>2. \A k \in DOMAIN mem' : File(Queue, k - 1, mem'[k].input) \in files'
    <3>1. In(Queue)' = In(Queue)
      OBVIOUS
    <3>2. \A f \in In(Queue) : f \in files'
      BY <3>1, InPrimed
    <3> QED BY <1>4, <2>1, <3>2
  <2> HIDE DEF Pivots, IsPair
  <2> QED BY <1>6, <2>2 DEF Linking
<1>8. InMemory'
  <2>1. InMemory
    BY DEF Importing
  <2>2. In(Queue)' = In(Queue) /\ In(DetDone(Queue))' = In(DetDone(Queue)) /\ In(Crashes)' = In(Crashes)
        /\ {Queue, DetDone(Queue), Crashes} \subseteq dirs'
    OBVIOUS
  <2> HIDE DEF In
  <2> QED BY <1>4, <2>1, <2>2 DEF InMemory
<1>9. ImportingKept'
  <2>1. /\ saved \subseteq atRisk \cup Holds(Queue)
        /\ ~inPlace => saved = {} /\ Inputs = {Seed}
        /\ CrashesKept
    BY <1>6, Zenon DEF Importing, ImportingKept
  <2>2. Holds(Queue)' = Holds(Queue) /\ Holds(Crashes)' = Holds(Crashes)
    <3>1. In(Queue)' = In(Queue) /\ In(Crashes)' = In(Crashes)
      OBVIOUS
    <3> HIDE DEF In
    <3> QED BY <3>1 DEF Holds
  <2>3. CrashesKept' /\ Inputs' = Inputs
    BY <1>4, <2>1, <2>2 DEF CrashesKept, Inputs
  <2> QED BY <1>4, <1>6, <2>1, <2>2, <2>3 DEF ImportingKept
<1>10. (inPlace' => EmptyingDirs') /\ (~inPlace' => (~stale' => Resume \notin dirs')) /\ mem' # << >>
  BY <1>4
<1> HIDE DEF Runs, Linking, InMemory, EmptyingDirs, ImportingKept
<1>11. Importing'
  BY <1>4, <1>5, <1>7, <1>8, <1>9, <1>10, Zenon DEF Importing
<1> QED BY <1>4, <1>11

(* One command more on the way through nuke_resume_dir. *)
LEMMA EmptyingMore ==
    ASSUME EmptyingDirs, Links0 \in Int, Links0 <= 0, Links0' = Links0 - 1, dirs' \subseteq dirs, NEW p, p = 1 - Links0,
           p \in 1 .. N => Sub(Resume, StateDirs[p]) \notin dirs',
           p = N + 1 => State(Resume) \notin dirs', p = N + 2 => Resume \notin dirs'
    PROVE  EmptyingDirs'
<1>1. N \in Nat
  BY StateNames
<1>2. /\ \A j \in 1 .. N : 0 - Links0 >= j => Sub(Resume, StateDirs[j]) \notin dirs
      /\ 0 - Links0 >= N + 1 => State(Resume) \notin dirs
      /\ 0 - Links0 >= N + 2 => Resume \notin dirs
  BY DEF EmptyingDirs
<1> HIDE DEF Links0, N
<1>3. 0 - Links0' = p /\ p \in Int /\ 0 - Links0 = p - 1
  BY <1>1
<1>4. \A j \in 1 .. N : 0 - Links0' >= j => Sub(Resume, StateDirs[j]) \notin dirs'
  <2> SUFFICES ASSUME NEW j \in 1 .. N, p >= j PROVE Sub(Resume, StateDirs[j]) \notin dirs'
    BY <1>3
  <2>1. p = j \/ p - 1 >= j
    BY <1>1, <1>3
  <2> QED BY <1>2, <1>3, <2>1
<1>5. 0 - Links0' >= N + 1 => State(Resume) \notin dirs'
  <2>1. p >= N + 1 => p = N + 1 \/ p - 1 >= N + 1
    BY <1>1, <1>3
  <2> QED BY <1>2, <1>3, <2>1
<1>6. 0 - Links0' >= N + 2 => Resume \notin dirs'
  <2>1. p >= N + 2 => p = N + 2 \/ p - 1 >= N + 2
    BY <1>1, <1>3
  <2> QED BY <1>2, <1>3, <2>1
<1> QED BY <1>4, <1>5, <1>6 DEF EmptyingDirs

(* A file removed from _resume. *)
LEMMA ImportingSame ==
    ASSUME Typed, Importing, Links0 <= 0,
           UNCHANGED <<todo, session, dirs, plain, finds, stale, saved, filed, backups, atRisk>>,
           \A d \in {Queue, DetDone(Queue), Crashes} : In(d)' = In(d)
    PROVE  Typed' /\ Importing'
<1>1. /\ running' = running /\ inPlace' = inPlace /\ mem' = mem /\ crashes' = crashes /\ fatal' = fatal
      /\ todo' = todo
  BY DEF session
<1>2. Typed'
  <2> HIDE DEF Command
  <2> QED BY <1>1 DEF Typed
<1>3. Links0' = Links0
  BY <1>1 DEF Links0, Rests
<1>4. Runs' /\ mem' # << >> /\ crashes' = 0 /\ Len(todo') >= 1 /\ (Len(todo') = 5 => CurInput \notin plain')
      /\ (~inPlace' => (~stale' => Resume \notin dirs'))
  <2> HIDE DEF Links0
  <2> QED BY <1>1 DEF Importing, Runs
<1>5. \A j \in DOMAIN todo' : j > Links0' => todo'[j] = AfterLinks(inPlace')[j - Links0']
  <2> HIDE DEF Links0, AfterLinks
  <2>1. \A j \in DOMAIN todo : j > Links0 => todo[j] = AfterLinks(inPlace)[j - Links0]
    BY DEF Importing
  <2> QED BY <1>1, <1>3, <2>1
<1>6. Links0 \in Int
  BY ImportingHead
<1>7. Linking'
  <2> HIDE DEF Links0
  <2>1. 1 .. Links0 = {}
    BY <1>6
  <2>2. \A k \in DOMAIN mem : File(Queue, k - 1, mem[k].input) \in In(Queue)
    <3>1. \A k \in DOMAIN mem : File(Queue, k - 1, mem[k].input) \in files
                                \/ \E q \in 1 .. Links0 : todo[q].path = Queue /\ todo[q].id = k - 1
      <4> HIDE DEF Pivots, IsPair
      <4> QED BY Zenon DEF Importing, Linking
    <3> QED BY <2>1, <3>1 DEF In, File
  <2>3. \A f \in In(Queue) : f \in files'
    BY InPrimed
  <2>4. \A k \in DOMAIN mem' : File(Queue, k - 1, mem'[k].input) \in files'
    BY <1>1, <2>2, <2>3
  <2>5. 1 .. Links0' = {}
    BY <1>3, <2>1
  <2> HIDE DEF Pivots, IsPair
  <2> QED BY <2>4, <2>5 DEF Linking
<1>8. InMemory'
  <2>1. InMemory
    BY DEF Importing
  <2>2. In(Queue)' = In(Queue) /\ In(DetDone(Queue))' = In(DetDone(Queue)) /\ In(Crashes)' = In(Crashes)
    OBVIOUS
  <2> HIDE DEF In
  <2> QED BY <1>1, <2>1, <2>2 DEF InMemory
<1>9. inPlace' => EmptyingDirs'
  <2>1. inPlace => EmptyingDirs
    BY DEF Importing
  <2> HIDE DEF Links0, N
  <2> QED BY <1>1, <1>3, <2>1 DEF EmptyingDirs
<1>10. ImportingKept'
  <2>1. /\ saved \subseteq atRisk \cup Holds(Queue)
        /\ ~inPlace => saved = {} /\ Inputs = {Seed}
        /\ CrashesKept
    BY Zenon DEF Importing, ImportingKept
  <2>2. Holds(Queue)' = Holds(Queue) /\ Holds(Crashes)' = Holds(Crashes)
    <3>1. In(Queue)' = In(Queue) /\ In(Crashes)' = In(Crashes)
      OBVIOUS
    <3> HIDE DEF In
    <3> QED BY <3>1 DEF Holds
  <2>3. CrashesKept' /\ Inputs' = Inputs
    BY <1>1, <2>1, <2>2 DEF CrashesKept, Inputs
  <2> HIDE DEF Links0
  <2>4. ~(Links0' > 0)
    BY <1>3, <1>6
  <2> QED BY <1>1, <2>1, <2>2, <2>3, <2>4 DEF ImportingKept
<1> HIDE DEF Runs, Linking, InMemory, EmptyingDirs, ImportingKept
<1>11. Importing'
  BY <1>4, <1>5, <1>7, <1>8, <1>9, <1>10, Zenon DEF Importing
<1> QED BY <1>2, <1>11

(* Nothing of _resume is among the files a session works with. *)
LEMMA Apart ==
    /\ \A d \in {Queue, DetDone(Queue), Crashes} :
         /\ d # Resume /\ d # State(Resume) /\ (\A j \in 1 .. N : d # Sub(Resume, StateDirs[j]))
         /\ d # CurInput /\ d # << >>
    /\ Resume # << >> /\ State(Resume) # << >> /\ \A j \in 1 .. N : Sub(Resume, StateDirs[j]) # << >>
<1>1. \A d \in {Queue, DetDone(Queue), Crashes} :
         d # Resume /\ d # State(Resume) /\ (\A j \in 1 .. N : d # Sub(Resume, StateDirs[j])) /\ d # << >>
  BY PathsDiffer, StateNames, InSub DEF Bases, Leaves
<1>2. Resume # << >> /\ State(Resume) # << >> /\ \A j \in 1 .. N : Sub(Resume, StateDirs[j]) # << >>
  BY PathsDiffer, StateNames DEF Bases
<1>3. CurInput \in Seq({".cur_input"}) /\ Len(CurInput) = 1 /\ CurInput[1] = ".cur_input"
  BY DEF CurInput
<1>4. CurInput # Queue /\ CurInput # Crashes
  <2>1. Queue[1] = "queue" /\ Crashes[1] = "crashes" /\ ".cur_input" # "queue" /\ ".cur_input" # "crashes"
    BY TopPath
  <2> QED BY <1>3, <2>1
<1>5. CurInput # DetDone(Queue)
  <2>1. Len(DetDone(Queue)) = 3
    BY SubPath, InSub, StateNames DEF Bases
  <2> QED BY <1>3, <2>1
<1> QED BY <1>1, <1>2, <1>4, <1>5

(* A command of nuke_resume_dir that has removed d. *)
LEMMA Nuke ==
    ASSUME Typed, Tree, Importing, Links0 <= 0, inPlace, Step, Next1.op # "enter", NEW d, dirs' = dirs \ {d},
           UNCHANGED <<files, plain, finds, stale, saved, filed, backups, atRisk>>,
           \A e \in dirs : ~IsStrictPrefix(d, e), \A f \in files : f.dir # d,
           NEW p, p = 1 - Links0,
           \/ p \in 1 .. N /\ d = Sub(Resume, StateDirs[p])
           \/ p = N + 1 /\ d = State(Resume)
           \/ p = N + 2 /\ d = Resume
    PROVE  Typed' /\ Tree' /\ Importing'
<1> DEFINE o == IF inPlace THEN N + 2 ELSE 0
<1>1. /\ N \in Nat /\ N >= 1 /\ o \in Nat /\ Links0 \in Int /\ inPlace \in BOOLEAN
      /\ p \in 1 .. o + 6 /\ Len(todo) = o + 7 - p
  BY LastHead
<1>2. \A e \in {Queue, DetDone(Queue), Crashes} : e # d
  BY Apart, <1>1
<1>3. d # << >>
  BY Apart, <1>1
<1>4. Tree'
  BY <1>3, TreeWithout
<1>5. \A e \in {Queue, DetDone(Queue), Crashes} : In(e)' = In(e) /\ e \in dirs'
  <2>1. \A e : In(e)' = In(e)
    BY DEF In
  <2>2. {Queue, DetDone(Queue), Crashes} \subseteq dirs
    BY DEF Importing, InMemory
  <2> QED BY <1>2, <2>1, <2>2
<1>6. saved' \subseteq 1 .. finds /\ filed' \subseteq 1 .. finds
  <2> HIDE DEF Command
  <2> QED BY DEF Typed
<1>7. Links0' = Links0 - 1 /\ Len(todo') = Len(todo) - 1
  BY <1>6, ImportingNext
<1>8. EmptyingDirs'
  <2>1. EmptyingDirs
    BY DEF Importing
  <2> HIDE DEF Links0
  <2>2. /\ dirs' \subseteq dirs
        /\ p \in 1 .. N => Sub(Resume, StateDirs[p]) \notin dirs'
        /\ p = N + 1 => State(Resume) \notin dirs'
        /\ p = N + 2 => Resume \notin dirs'
    BY <1>1
  <2> QED BY <1>1, <1>7, <2>1, <2>2, EmptyingMore
<1>9. Len(todo') # 5
  <2> HIDE DEF Links0
  <2>1. p <= N + 2 /\ o = N + 2
    BY <1>1
  <2> HIDE DEF o
  <2> QED BY <1>1, <1>7, <2>1
<1>10. ~inPlace => (~stale => Resume \notin dirs')
  OBVIOUS
<1>11. Typed' /\ Importing'
  BY <1>5, <1>8, <1>9, <1>10, ImportingLast
<1> QED BY <1>4, <1>11

(* nuke_resume_dir, of files and of directories it finds empty. *)
LEMMA ImportingClear ==
    ASSUME Typed, Tree, Importing, Clear, UNCHANGED <<finds, stale>>
    PROVE  Typed' /\ Tree' /\ Importing'
<1> DEFINE d == Next1.path
           p == 1 - Links0
<1>1. Next1.op = "clear" /\ UNCHANGED <<plain, saved, filed, marked, backups, atRisk>>
  BY DEF Clear, Does, history
<1>2. Links0 <= 0
  BY <1>1, ImportingOps
<1>3. /\ N \in Nat /\ N >= 1 /\ Links0 \in Int
      /\ inPlace /\ ((p \in 1 .. N /\ d = Sub(Resume, StateDirs[p])) \/ (p = N + 2 /\ d = Resume))
  BY <1>1, <1>2, LastHead
<1>4. d # Crashes /\ \A e \in {Queue, DetDone(Queue), Crashes} : e # d
  BY <1>3, Apart
<1>5. ASSUME {f \in In(d) : f.id # NoId} = {} PROVE \A f \in files : f.dir # d
  <2>1. SUFFICES ASSUME NEW f \in files, f.dir = d PROVE FALSE
    OBVIOUS
  <2>2. f.id # NoId
    BY <1>4, <2>1, FilesAt
  <2> QED BY <1>5, <2>1, <2>2 DEF In
<1>6. \A e \in dirs : ~IsStrictPrefix(d, e)
  <2> SUFFICES ASSUME NEW e \in dirs, IsStrictPrefix(d, e) PROVE FALSE
    OBVIOUS
  <2>1. e \in KnownDirs
    BY Zenon DEF Tree
  <2>2. CASE p \in 1 .. N /\ d = Sub(Resume, StateDirs[p])
    BY <2>1, <2>2, Below, StateNames DEF Bases
  <2>3. CASE p = N + 2 /\ d = Resume
    <3>1. e = State(Resume) \/ \E s \in Range(StateDirs) : e = Sub(Resume, s)
      BY <2>1, <2>3, Below DEF Bases
    <3>2. State(Resume) \in dirs
      BY <3>1, Zenon DEF Tree
    <3>3. 0 - Links0 >= N + 1
      <4> HIDE DEF Links0, N
      <4> QED BY <1>3, <2>3
    <3>4. State(Resume) \notin dirs
      BY <1>3, <3>3 DEF Importing, EmptyingDirs
    <3> QED BY <3>2, <3>4
  <2> QED BY <1>3, <2>2, <2>3
<1>7. ASSUME {f \in In(d) : f.id # NoId} = {}, Step, dirs' = dirs \ {d}, UNCHANGED files
      PROVE  Typed' /\ Tree' /\ Importing'
  <2>1. \A f \in files : f.dir # d
    BY <1>5, <1>7
  <2>2. PICK q : q = p
    OBVIOUS
  <2> HIDE DEF d, p, Links0
  <2>3. q = 1 - Links0
    BY <2>2 DEF p
  <2>4. \/ q \in 1 .. N /\ d = Sub(Resume, StateDirs[q])
        \/ q = N + 1 /\ d = State(Resume)
        \/ q = N + 2 /\ d = Resume
    BY <1>3, <2>2
  <2>5. Next1.op # "enter" /\ UNCHANGED <<files, plain, finds, stale, saved, filed, backups, atRisk>>
    BY <1>1, <1>7
  <2> QED BY <1>2, <1>3, <1>6, <1>7, <2>1, <2>3, <2>4, <2>5, Nuke
<1>8. CASE d \notin dirs /\ Step /\ UNCHANGED <<dirs, files>>
  <2>1. dirs' = dirs \ {d}
    BY <1>8
  <2>2. {f \in In(d) : f.id # NoId} = {}
    BY <1>8, FilesAt
  <2> QED BY <1>7, <1>8, <2>1, <2>2
<1>9. CASE d \in dirs /\ {f \in In(d) : f.id # NoId} = {}
  <2>1. IsEmpty(d)
    BY <1>5, <1>6, <1>9 DEF IsEmpty, In
  <2>2. Step /\ dirs' = dirs \ {d} /\ UNCHANGED files
    BY <1>9, <2>1 DEF Clear
  <2> QED BY <1>7, <1>9, <2>2
<1>10. CASE d \in dirs /\ (\E f \in {f \in In(d) : f.id # NoId} : files' = files \ {f}) /\ UNCHANGED <<dirs, todo, session>>
  <2>1. PICK f \in files : f.dir = d /\ files' = files \ {f}
    BY <1>10 DEF In
  <2>2. Tree'
    BY <1>1, <1>10, <2>1, TreeLess
  <2>3. \A e \in {Queue, DetDone(Queue), Crashes} : In(e)' = In(e)
    BY <1>4, <2>1 DEF In
  <2>4. Typed' /\ Importing'
    BY <1>1, <1>2, <1>10, <2>3, ImportingSame
  <2> QED BY <2>2, <2>4
<1> QED BY <1>8, <1>9, <1>10 DEF Clear

LEMMA ImportingRmdir ==
    ASSUME Typed, Tree, Importing, Rmdir, UNCHANGED <<finds, stale>>
    PROVE  Typed' /\ Tree' /\ Importing'
<1> DEFINE d == Next1.path
           p == 1 - Links0
<1>1. Next1.op = "rmdir" /\ UNCHANGED <<files, plain, saved, filed, marked, backups, atRisk>>
  BY DEF Rmdir, Does, history
<1>2. Links0 <= 0
  BY <1>1, ImportingOps
<1>3. N \in Nat /\ N >= 1 /\ Links0 \in Int /\ inPlace /\ p = N + 1 /\ d = State(Resume)
  BY <1>1, <1>2, LastHead
<1>4. \A f \in files : f.dir # d
  <2>1. \A f \in files : f.dir \in FileDirs
    <3> HIDE DEF FileDirs
    <3> QED BY DEF Tree
  <2>2. d \notin FileDirs
    BY <1>3, InSub, StateNames, PathsDiffer DEF FileDirs, Bases, Leaves
  <2> QED BY <2>1, <2>2
<1>5. \A e \in dirs : ~IsStrictPrefix(d, e)
  <2> SUFFICES ASSUME NEW e \in dirs, IsStrictPrefix(d, e) PROVE FALSE
    OBVIOUS
  <2>1. e \in KnownDirs
    BY Zenon DEF Tree
  <2>2. PICK s \in Range(StateDirs) : e = Sub(Resume, s)
    BY <1>3, <2>1, Below DEF Bases
  <2>3. PICK j \in 1 .. N : s = StateDirs[j]
    BY StateNames
  <2>4. 0 - Links0 >= j
    <3> HIDE DEF Links0, N
    <3> QED BY <1>3
  <2> QED BY <1>3, <2>2, <2>3, <2>4 DEF Importing, EmptyingDirs
<1>6. Step /\ dirs' = dirs \ {d}
  BY <1>4, <1>5 DEF Rmdir, IsEmpty, In
<1>7. PICK q : q = p
  OBVIOUS
<1> HIDE DEF d, p, Links0
<1>8. q = 1 - Links0 /\ q = N + 1
  BY <1>3, <1>7 DEF p
<1> QED BY <1>1, <1>2, <1>3, <1>4, <1>5, <1>6, <1>8, Nuke

(* .cur_input removed and made anew. *)
LEMMA ImportingUnlink ==
    ASSUME Typed, Tree, Importing, Unlink, UNCHANGED <<finds, stale>>
    PROVE  Typed' /\ Tree' /\ Importing'
<1> DEFINE o == IF inPlace THEN N + 2 ELSE 0
           p == 1 - Links0
<1>1. Next1.op = "unlink" /\ Step /\ UNCHANGED <<dirs, saved, filed, marked, backups, atRisk>>
      /\ files' = {f \in files : f.dir # Next1.path \/ f.id # Next1.id} /\ plain' = plain \ {Next1.path}
  BY DEF Unlink, Does, history
<1>2. Links0 <= 0
  BY <1>1, ImportingOps
<1>3. Next1.path = CurInput
  BY <1>1, <1>2, LastHead
<1>4. Tree'
  BY <1>1, TreeLess
<1>5. \A d \in {Queue, DetDone(Queue), Crashes} : In(d)' = In(d) /\ d \in dirs'
  <2>1. \A d \in {Queue, DetDone(Queue), Crashes} : In(d)' = In(d)
    BY <1>1, <1>3, Apart DEF In
  <2>2. {Queue, DetDone(Queue), Crashes} \subseteq dirs
    BY DEF Importing, InMemory
  <2> QED BY <1>1, <2>1, <2>2
<1>6. inPlace => EmptyingDirs'
  <2> SUFFICES ASSUME inPlace PROVE EmptyingDirs'
    OBVIOUS
  <2>0. N \in Nat /\ Links0 \in Int /\ p = o + 1
    BY <1>1, <1>2, LastHead
  <2>1. N \in Nat /\ Links0 \in Int /\ p = N + 3
    <3>1. o = N + 2
      OBVIOUS
    <3> HIDE DEF o, p, N, Links0
    <3> QED BY <2>0, <3>1
  <2>2. EmptyingDirs
    BY DEF Importing
  <2>3. Links0' = Links0 - 1
    <3>1. saved' \subseteq 1 .. finds /\ filed' \subseteq 1 .. finds
      <4> HIDE DEF Command
      <4> QED BY <1>1 DEF Typed
    <3> QED BY <1>1, <3>1, ImportingNext
  <2>4. dirs' \subseteq dirs
    BY <1>1
  <2>5. PICK q : q = p
    OBVIOUS
  <2> HIDE DEF Links0, N, p
  <2>6. ~(q \in 1 .. N) /\ q # N + 1 /\ q # N + 2
    BY <2>1, <2>5
  <2>7. q = 1 - Links0
    BY <2>5 DEF p
  <2> QED BY <1>2, <2>1, <2>2, <2>3, <2>4, <2>6, <2>7, EmptyingMore
<1>7. ~inPlace => (~stale => Resume \notin dirs')
  BY <1>1 DEF Importing
<1>8. CurInput \notin plain'
  BY <1>1, <1>3
<1>9. Typed' /\ Importing'
  BY <1>1, <1>2, <1>5, <1>6, <1>7, <1>8, ImportingLast
<1> QED BY <1>4, <1>9

(* What the last commands do not touch. *)
LEMMA ImportingRest ==
    ASSUME Typed, Importing, Links0 <= 0, Step, Next1.op \in {"create", "seek", "truncate", "stats"},
           UNCHANGED <<dirs, files, finds, stale, saved, filed, backups, atRisk>>
    PROVE  Typed' /\ Importing'
<1> DEFINE o == IF inPlace THEN N + 2 ELSE 0
           p == 1 - Links0
<1>0. saved' \subseteq 1 .. finds /\ filed' \subseteq 1 .. finds
  <2> HIDE DEF Command
  <2> QED BY DEF Typed
<1>1. /\ N \in Nat /\ o \in Nat /\ Links0 \in Int /\ p \in 1 .. o + 6 /\ Len(todo) = o + 7 - p
      /\ p > o + 1
  <2>1. /\ N \in Nat /\ o \in Nat /\ Links0 \in Int /\ p \in 1 .. o + 6 /\ Len(todo) = o + 7 - p
    BY LastHead
  <2>2. p = o + 2 \/ p = o + 3 \/ p = o + 4 \/ p = o + 5
    <3>1. /\ Next1.op = "create" => p = o + 2
          /\ Next1.op = "seek" => p = o + 3
          /\ Next1.op = "truncate" => p = o + 4
          /\ Next1.op = "stats" => p = o + 5
      BY LastHead, Zenon
    <3> HIDE DEF o, p
    <3> QED BY <3>1
  <2> HIDE DEF o, p
  <2> QED BY <2>1, <2>2
<1>2. Links0' = Links0 - 1 /\ Len(todo') = Len(todo) - 1
  BY <1>0, ImportingNext
<1>3. \A d \in {Queue, DetDone(Queue), Crashes} : In(d)' = In(d) /\ d \in dirs'
  <2>1. \A d : In(d)' = In(d)
    BY DEF In
  <2>2. {Queue, DetDone(Queue), Crashes} \subseteq dirs
    BY DEF Importing, InMemory
  <2> QED BY <2>1, <2>2
<1>4. inPlace => EmptyingDirs'
  <2> SUFFICES ASSUME inPlace PROVE EmptyingDirs'
    OBVIOUS
  <2>1. EmptyingDirs
    BY DEF Importing
  <2>2. o = N + 2
    OBVIOUS
  <2>3. PICK q : q = p
    OBVIOUS
  <2> HIDE DEF Links0, N, p, o
  <2>4. ~(q \in 1 .. N) /\ q # N + 1 /\ q # N + 2
    BY <1>1, <2>2, <2>3
  <2>5. q = 1 - Links0
    BY <2>3 DEF p
  <2> QED BY <1>1, <1>2, <2>1, <2>4, <2>5, EmptyingMore
<1>5. ~inPlace => (~stale => Resume \notin dirs')
  BY DEF Importing
<1>6. Len(todo') # 5
  <2> HIDE DEF p, o
  <2> QED BY <1>1, <1>2
<1> QED BY <1>3, <1>4, <1>5, <1>6, ImportingLast

LEMMA ImportingCreate ==
    ASSUME Typed, Tree, Importing, Create, UNCHANGED <<finds, stale>>
    PROVE  Typed' /\ Tree' /\ Importing'
<1>1. Next1.op = "create" /\ UNCHANGED <<dirs, saved, filed, backups, atRisk>>
  BY DEF Create, Does
<1>2. CASE Links0 >= 1
  BY <1>2, ImportingCreateLink
<1>3. CASE Links0 <= 0
  <2> DEFINE o == IF inPlace THEN N + 2 ELSE 0
             p == 1 - Links0
  <2>1. o \in Nat /\ Len(todo) = o + 7 - p /\ p = o + 2 /\ Next1.path = CurInput /\ Next1.id = NoId
    BY <1>1, <1>3, LastHead
  <2>2. Len(todo) = 5
    <3> HIDE DEF o, p
    <3> QED BY <2>1
  <2>3. CurInput \notin plain
    BY <2>2 DEF Importing
  <2>4. Len(CurInput) = 1
    BY DEF CurInput
  <2> HIDE DEF o, p
  <2>5. Step /\ plain' = plain \cup {CurInput} /\ UNCHANGED <<files, marked>>
    BY <2>1, <2>3, <2>4, Zenon DEF Create
  <2>6. Tree'
    <3>1. << >> \in dirs
      <4>1. Queue \in dirs
        BY DEF Importing, InMemory
      <4> HIDE DEF KnownDirs, FileDirs
      <4> QED BY <4>1 DEF Tree
    <3> HIDE DEF KnownDirs, FileDirs
    <3> QED BY <1>1, <2>5, <3>1 DEF Tree
  <2>7. Typed' /\ Importing'
    BY <1>1, <1>3, <2>5, ImportingRest
  <2> QED BY <2>6, <2>7
<1>4. Links0 >= 1 \/ Links0 <= 0
  <2>1. Links0 \in Int
    BY ImportingHead
  <2> HIDE DEF Links0
  <2> QED BY <2>1
<1> QED BY <1>2, <1>3, <1>4

(* Positions and reports. *)
LEMMA ImportingPosition ==
    ASSUME Typed, Tree, Importing, FindStartPosition \/ WriteStats
    PROVE  Typed' /\ Tree' /\ Importing'
<1>1. Next1.op \in {"seek", "truncate", "stats"} /\ Step /\ UNCHANGED <<dirs, files, plain, finds, history>>
  BY DEF FindStartPosition, WriteStats, Does, disk
<1>2. Links0 <= 0
  BY <1>1, ImportingOps
<1>3. UNCHANGED <<stale, saved, filed, backups, atRisk>>
  BY <1>1 DEF history
<1>4. Typed' /\ Importing'
  BY <1>1, <1>2, <1>3, ImportingRest
<1>5. Tree'
  BY <1>1, SameTree
<1> QED BY <1>4, <1>5

(* Fuzzing begins. *)
LEMMA ImportingEnter ==
    ASSUME Typed, Tree, Importing, EnterQueue
    PROVE  Typed' /\ Tree' /\ Fuzzing'
<1> DEFINE o == IF inPlace THEN N + 2 ELSE 0
           p == 1 - Links0
<1>1. Next1.op = "enter" /\ Step /\ UNCHANGED <<dirs, files, plain, finds, stale, saved, filed, backups, atRisk>>
  BY DEF EnterQueue, Does, disk, history
<1>2. Links0 <= 0
  BY <1>1, ImportingOps
<1>3. N \in Nat /\ o \in Nat /\ Links0 \in Int /\ inPlace \in BOOLEAN /\ Len(todo) = o + 7 - p /\ p = o + 6
  BY <1>1, <1>2, LastHead
<1>4. saved' \subseteq 1 .. finds /\ filed' \subseteq 1 .. finds
  <2> HIDE DEF Command
  <2> QED BY <1>1 DEF Typed
<1>5. /\ Typed' /\ Runs' /\ mem' = mem /\ mem # << >> /\ crashes' = 0 /\ crashes = 0 /\ inPlace' = inPlace
      /\ Len(todo') = Len(todo) - 1
  BY <1>1, <1>4, ImportingNext
<1>6. Tree' /\ (\A d : Holds(d)' = Holds(d) /\ In(d)' = In(d))
  BY <1>1, SameTree
<1>7. todo' = << >>
  <2>1. Len(todo') = 0
    <3> HIDE DEF o, p
    <3> QED BY <1>3, <1>5
  <2>2. todo' \in Seq(Command)
    BY <1>5 DEF Typed
  <2> QED BY <2>1, <2>2
<1>8. NoOldQueue'
  <2>1. CASE inPlace
    <3>1. 0 - Links0 >= N + 2
      <4>1. o = N + 2
        BY <2>1
      <4> HIDE DEF Links0, N, o
      <4> QED BY <1>3, <4>1
    <3>2. EmptyingDirs
      BY <2>1 DEF Importing
    <3>3. Resume \notin dirs
      BY <3>1, <3>2 DEF EmptyingDirs
    <3> QED BY <1>1, <3>3 DEF NoOldQueue
  <2>2. CASE ~inPlace
    <3>1. ~stale => Resume \notin dirs
      BY <2>2 DEF Importing
    <3> QED BY <1>1, <1>5, <2>2, <3>1 DEF NoOldQueue
  <2> QED BY <1>3, <2>1, <2>2
<1>9. InMemory'
  <2>1. InMemory
    BY DEF Importing
  <2> HIDE DEF In
  <2> QED BY <1>1, <1>5, <1>6, <2>1 DEF InMemory
<1>10. saved' \subseteq atRisk' \cup Holds(Queue)'
  <2>1. saved \subseteq atRisk \cup Holds(Queue)
    BY <1>2, Zenon DEF Importing, ImportingKept
  <2> QED BY <1>1, <1>6, <2>1
<1>11. CrashesKept'
  <2>1. CrashesKept
    BY DEF Importing, ImportingKept
  <2> QED BY <1>1, <1>6, <2>1 DEF CrashesKept
<1>12. saved' \subseteq atRisk' \cup Holds(Queue)' \cup Pending'
  BY <1>10
<1>13. mem' # << >>
  BY <1>5
<1> HIDE DEF Runs, InMemory, NoOldQueue, CrashesKept
<1>14. Fuzzing'
  BY <1>5, <1>7, <1>8, <1>9, <1>11, <1>12, <1>13, Zenon DEF Fuzzing
<1> QED BY <1>5, <1>6, <1>14

(* A session dies before it fuzzes.  If not everything is linked, the finds  *)
(* are in _resume; if nuke_resume_dir has begun, those that are not in what  *)
(* is left of _resume are endangered from now on.                            *)
LEMMA KillImporting ==
    ASSUME Typed, Tree, Importing, Kill
    PROVE  Typed' /\ Tree' /\ Rest'
<1>1. Ends("none") /\ UNCHANGED <<dirs, files, plain, finds, saved, filed, marked, backups, stale>>
      /\ atRisk' = atRisk \cup Trimmed \cup IF Nuking THEN Nuked ELSE {}
  BY DEF Kill, disk
<1>2. Typed'
  BY <1>1, Typed0 DEF Ends
<1>3. Tree' /\ (\A d : Holds(d)' = Holds(d) /\ In(d)' = In(d))
  BY <1>1, SameTree
<1>4. Free(Resume)' <=> Free(Resume)
  BY <1>1, <1>3 DEF Free
<1>5. /\ todo # << >> /\ Len(todo) \in Nat /\ Len(todo) >= 1 /\ DOMAIN todo = 1 .. Len(todo)
      /\ N \in Nat /\ N >= 1 /\ inPlace \in BOOLEAN
      /\ Links0 \in Int /\ Rests \in Nat /\ Rests >= 6 /\ Len(todo) = Links0 + Rests
      /\ Rests = (IF inPlace THEN N + 2 ELSE 0) + 6
  BY ImportingHead
<1>6. /\ inPlace /\ Links0 > 0 => saved \subseteq atRisk \cup Holds(Resume)
      /\ Links0 <= 0 => saved \subseteq atRisk \cup Holds(Queue)
      /\ ~inPlace => saved = {}
      /\ CrashesKept
  BY Zenon DEF Importing, ImportingKept
<1>7. \A i \in saved : i \in atRisk' \/ i \in Holds(Resume) \/ (i \in Holds(Queue) /\ (stale \/ Free(Resume)))
  <2> SUFFICES ASSUME NEW i \in saved, i \notin atRisk', i \notin Holds(Resume)
               PROVE  i \in Holds(Queue) /\ (stale \/ Free(Resume))
    OBVIOUS
  <2>1. inPlace /\ Links0 <= 0 /\ i \in Holds(Queue)
    <3>1. i \notin atRisk
      BY <1>1
    <3>2. Links0 > 0 \/ Links0 <= 0
      <4> HIDE DEF Links0
      <4> QED BY <1>5
    <3> HIDE DEF Links0
    <3> QED BY <1>5, <1>6, <3>1, <3>2
  <2>2. ~Nuking
    <3>1. Nuking => i \in Nuked
      BY <2>1 DEF Nuked
    <3> QED BY <1>1, <3>1
  <2>3. 0 - Links0 >= N + 2
    <3> SUFFICES ASSUME ~(0 - Links0 >= N + 2) PROVE FALSE
      OBVIOUS
    <3> HIDE DEF Links0, Rests, N
    <3>1. N + 2 + Links0 \in DOMAIN todo /\ N + 2 + Links0 > Links0 /\ (N + 2 + Links0) - Links0 = N + 2
      BY <1>5, <2>1
    <3>2. todo[N + 2 + Links0] = AfterLinks(inPlace)[(N + 2 + Links0) - Links0]
      BY <3>1, Zenon DEF Importing
    <3>3. AfterLinks(inPlace)[N + 2] = Do("clear", Resume)
      <4>1. AfterLinks(TRUE)[N + 2] = Do("clear", Resume)
        BY AfterLinksAt, Zenon
      <4>2. inPlace = TRUE
        BY <1>5, <2>1
      <4> QED BY <4>1, <4>2
    <3> QED BY <2>2, <3>1, <3>2, <3>3 DEF Nuking
  <2>4. Resume \notin dirs
    BY <2>1, <2>3 DEF Importing, EmptyingDirs
  <2>5. Free(Resume)
    <3>1. State(Resume) \notin dirs
      BY <2>4, Zenon DEF Tree
    <3> QED BY <2>4, <3>1, FilesAt DEF Free
  <2> QED BY <2>1, <2>5
<1>8. CrashesKept'
  BY <1>1, <1>3, <1>6 DEF CrashesKept
<1>9. Rest'
  <2>1. /\ ~running' /\ todo' = << >> /\ mem' = << >> /\ fatal' = "none"
    BY <1>1 DEF Ends
  <2>2. \A i \in saved' : \/ i \in atRisk' \/ i \in Holds(Resume)'
                          \/ i \in Holds(Queue)' /\ (stale' \/ Free(Resume)')
    BY <1>1, <1>3, <1>4, <1>7
  <2> HIDE DEF Free
  <2> QED BY <1>8, <2>1, <2>2 DEF Rest
<1> QED BY <1>2, <1>3, <1>9

-----------------------------------------------------------------------------
(* Fuzzing: an action executed command by command. *)

(* The next command tells what is left of the action. *)
LEMMA FuzzingHead ==
    ASSUME Typed, Fuzzing, todo # << >>
    PROVE  /\ todo \in Seq(Command) /\ Len(todo) \in {1, 2, 3} /\ DOMAIN todo = 1 .. Len(todo)
           /\ Next1 = todo[1]
           /\ Next1.op \in {"write", "create", "unlink", "truncate", "stats"}
           /\ Next1.op = "write" => ToWrite
           /\ Next1.op = "create" => ToMake \/ ToMark
           /\ Next1.op = "unlink" => ToReplace
           /\ Next1.op \in {"truncate", "stats"} => ToReport
<1>1. todo \in Seq(Command)
  BY DEF Typed
<1>2. ToWrite \/ ToMake \/ ToReplace \/ ToMark \/ ToReport
  BY Zenon DEF Fuzzing
<1>3. Len(todo) \in {1, 2, 3}
  BY <1>2 DEF ToWrite, ToMake, ToReplace, ToMark, ToReport
<1>4. Next1 = todo[1] /\ DOMAIN todo = 1 .. Len(todo)
  BY <1>1 DEF Next1
<1>5. /\ ToWrite => todo[1].op = "write"
      /\ ToMake \/ ToMark => todo[1].op = "create"
      /\ ToReplace => todo[1].op = "unlink"
      /\ ToReport => todo[1].op \in {"truncate", "stats"}
  <2>1. ToWrite => todo[1].op = "write"
    BY DEF ToWrite, WriteFits
  <2>2. ToMake => todo[1].op = "create"
    BY Zenon DEF ToMake, IsPair
  <2>3. ToMark => todo[1].op = "create"
    BY DEF ToMark
  <2>4. ToReplace => todo[1].op = "unlink"
    BY DEF ToReplace
  <2>5. ToReport => todo[1].op \in {"truncate", "stats"}
    BY DEF ToReport
  <2> QED BY <2>1, <2>2, <2>3, <2>4, <2>5, Zenon
<1>6. PICK op : op = todo[1].op
  OBVIOUS
<1> HIDE DEF ToWrite, ToMake, ToReplace, ToMark, ToReport
<1>7. /\ op \in {"write", "create", "unlink", "truncate", "stats"}
      /\ op = "write" => ToWrite
      /\ op = "create" => ToMake \/ ToMark
      /\ op = "unlink" => ToReplace
      /\ op \in {"truncate", "stats"} => ToReport
  BY <1>2, <1>5, <1>6
<1> QED BY <1>1, <1>3, <1>4, <1>6, <1>7

(* A command of fuzzing executed. *)
LEMMA FuzzingNext ==
    ASSUME Typed, Fuzzing, todo # << >>, Step, UNCHANGED <<dirs, finds, stale>>,
           saved' \subseteq 1 .. finds, filed' \subseteq 1 .. finds
    PROVE  /\ Typed' /\ Runs' /\ mem' = mem /\ mem # << >> /\ crashes' = crashes /\ inPlace' = inPlace /\ NoOldQueue'
           /\ Len(todo') = Len(todo) - 1
           /\ \A j \in 1 .. Len(todo) - 1 : todo'[j] = todo[j + 1]
           /\ DOMAIN todo' = 1 .. Len(todo) - 1
           /\ Len(todo) = 1 => todo' = << >>
<1>1. /\ Typed' /\ Len(todo') = Len(todo) - 1 /\ Len(todo) \in Nat
      /\ \A j \in 1 .. Len(todo) - 1 : todo'[j] = todo[j + 1]
      /\ DOMAIN todo = 1 .. Len(todo) /\ DOMAIN todo' = 1 .. Len(todo) - 1
  BY TypedMore
<1>2. UNCHANGED <<running, inPlace, mem, crashes, fatal>>
  BY DEF Step, session
<1>3. Runs' /\ mem # << >> /\ NoOldQueue'
  BY <1>2 DEF Fuzzing, Runs, NoOldQueue
<1>4. Len(todo) = 1 => todo' = << >>
  <2>1. todo' \in Seq(Command)
    BY <1>1 DEF Typed
  <2> HIDE DEF Command
  <2> QED BY <1>1, <2>1
<1> QED BY <1>1, <1>2, <1>3, <1>4

(* An entry or a crash is written. *)
LEMMA FuzzingWrite ==
    ASSUME Typed, Tree, Fuzzing, Write, UNCHANGED <<finds, stale>>
    PROVE  Typed' /\ Tree' /\ Fuzzing'
<1>1. Next1.op = "write" /\ todo # << >> /\ Step /\ UNCHANGED <<dirs, plain, backups, atRisk>>
      /\ Written(File(Next1.path, Next1.id, Next1.input))
      /\ Noted(File(Next1.path, Next1.id, Next1.input))
  BY DEF Write, Does
<1>2. PICK c : c = todo[1]
  OBVIOUS
<1>3. Next1 = c /\ ToWrite /\ c \in Command
  BY <1>1, <1>2, FuzzingHead, Element
<1>4. Len(todo) = 1 /\ WriteFits(c) /\ \A f \in Others(c) : f.input = Empty
  BY <1>2, <1>3 DEF ToWrite
<1>5. mem \in Entries /\ DOMAIN mem = 1 .. Len(mem) /\ Len(mem) \in Nat /\ finds \in Nat
      /\ \A k \in DOMAIN mem : mem[k].input \in 0 .. finds
  BY MemEntries
<1>6. /\ c.op = "write" /\ c.id \in Nat /\ c.input \in 0 .. finds /\ c.path \in {Queue, Crashes}
      /\ c.path = Queue => c.id + 1 \in DOMAIN mem /\ c.input = mem[c.id + 1].input
      /\ c.path = Crashes => c.id < crashes /\ crashes # 0 /\ c.input # 0
  <2>1. c.id \in Int /\ crashes \in Nat
    BY <1>3 DEF Command, Typed
  <2>2. Queue # Crashes
    BY PathsDiffer
  <2>3. CASE c.path = Queue /\ c.id + 1 \in DOMAIN mem /\ c.input = mem[c.id + 1].input
    <3>1. c.id \in Nat /\ c.input \in 0 .. finds
      BY <1>5, <2>1, <2>3
    <3> QED BY <1>4, <2>2, <2>3, <3>1 DEF WriteFits
  <2>4. CASE c.path = Crashes /\ crashes > 0 /\ c.id = crashes - 1 /\ c.input \in 1 .. finds
    <3>1. c.id \in Nat /\ c.input \in 0 .. finds /\ c.input # 0 /\ c.id < crashes /\ crashes # 0
      BY <1>5, <2>1, <2>4
    <3> QED BY <1>4, <2>2, <2>4, <3>1 DEF WriteFits
  <2> QED BY <1>4, <2>3, <2>4 DEF WriteFits
<1>7. PICK f : f = File(c.path, c.id, c.input)
  OBVIOUS
<1>8. f.dir = c.path /\ f.id = c.id /\ f.input = c.input
  BY <1>7 DEF File
<1> DEFINE old == {File(c.path, c.id, Empty)}
<1>9. files' = (files \ old) \cup {f}
  <2>1. Written(f)
    BY <1>1, <1>3, <1>7
  <2> QED BY <1>8, <2>1 DEF Written
<1>10. /\ saved' = IF f.dir = Queue /\ f.input # Seed THEN saved \cup {f.input} ELSE saved
       /\ filed' = IF f.dir = Crashes /\ f.id # NoId THEN filed \cup {f.input} ELSE filed
  BY <1>1, <1>3, <1>7, Zenon DEF Noted
<1>11. \A g \in files : g.dir = c.path /\ g.id = c.id => g \in old
  <2> SUFFICES ASSUME NEW g \in files, g.dir = c.path, g.id = c.id PROVE g \in old
    OBVIOUS
  <2>1. g.input = Empty
    BY <1>4 DEF Others
  <2>2. g = File(g.dir, g.id, g.input)
    BY FilesAt
  <2> QED BY <2>1, <2>2
<1>12. \A g \in old : g.dir = c.path /\ g.id = c.id /\ g.input = Empty
  BY DEF File
<1>13. c.path \in FileDirs /\ c.path \in dirs
  BY <1>6 DEF FileDirs, Fuzzing, InMemory
<1> HIDE DEF old
<1>14. Tree'
  <2>1. f \in [dir : FileDirs, id : Nat \cup {NoId}, input : {Empty} \cup 0 .. finds]
    <3> HIDE DEF FileDirs
    <3> QED BY <1>6, <1>7, <1>13 DEF File
  <2>2. f.dir \in dirs /\ (f.id = NoId => f.dir = Crashes)
    BY <1>6, <1>8, <1>13 DEF NoId
  <2>3. \A g \in files : g.dir = f.dir /\ g.id = f.id => g \in old
    BY <1>8, <1>11
  <2> QED BY <1>1, <1>9, <2>1, <2>2, <2>3, TreeFile
<1>15. saved' \subseteq 1 .. finds /\ filed' \subseteq 1 .. finds
  <2>1. saved \subseteq 1 .. finds /\ filed \subseteq 1 .. finds
    <3> HIDE DEF Command
    <3> QED BY DEF Typed
  <2>2. c.input # 0 => c.input \in 1 .. finds
    BY <1>5, <1>6
  <2>3. f.dir = Crashes => c.input # 0
    BY <1>6, <1>8
  <2>4. saved' \subseteq 1 .. finds
    BY <1>8, <1>10, <2>1, <2>2 DEF Seed
  <2>5. filed' \subseteq 1 .. finds
    BY <1>8, <1>10, <2>1, <2>2, <2>3
  <2> QED BY <2>4, <2>5
<1>16. Typed' /\ Runs' /\ mem' = mem /\ mem # << >> /\ crashes' = crashes /\ NoOldQueue' /\ todo' = << >>
  BY <1>1, <1>4, <1>15, FuzzingNext
<1>17. InMemory'
  <2>1. InMemory
    BY DEF Fuzzing
  <2>2. ASSUME NEW g \in In(Queue)' PROVE g.id + 1 \in DOMAIN mem' /\ g.input \in {Empty, mem'[g.id + 1].input}
    <3>1. g \in files' /\ g.dir = Queue
      BY <2>2, InPrimed
    <3>2. CASE g = f
      BY <1>6, <1>8, <1>16, <3>1, <3>2
    <3>3. CASE g \in files
      BY <1>16, <2>1, <3>1, <3>3 DEF InMemory, In
    <3> QED BY <1>9, <3>1, <3>2, <3>3
  <2>3. \A g \in In(DetDone(Queue))' : g \in In(DetDone(Queue))
    <3>1. DetDone(Queue) # Queue /\ DetDone(Queue) # Crashes
      BY InSub, StateNames, PathsDiffer DEF Bases, Leaves
    <3> QED BY <1>6, <1>8, <1>9, <3>1 DEF In
  <2>4. ASSUME NEW g \in In(Crashes)' PROVE g.id < crashes /\ crashes # 0
    <3>1. g \in files' /\ g.dir = Crashes
      BY <2>4, InPrimed
    <3>2. CASE g = f
      BY <1>6, <1>8, <3>1, <3>2
    <3>3. CASE g \in files
      BY <2>1, <3>1, <3>3 DEF InMemory, In
    <3> QED BY <1>9, <3>1, <3>2, <3>3
  <2>5. crashes = 0 => In(Crashes)' = {}
    BY <2>4
  <2> HIDE DEF In
  <2> QED BY <1>1, <1>16, <2>1, <2>2, <2>3, <2>4, <2>5 DEF InMemory
<1>18. \A d, i : i \in Holds(d) /\ i # Empty => i \in Holds(d)'
  <2> SUFFICES ASSUME NEW d, NEW i, i \in Holds(d), i # Empty PROVE i \in Holds(d)'
    OBVIOUS
  <2>1. PICK g \in files : g.dir = d /\ g.input = i
    BY HoldsAt
  <2>2. g \in files'
    BY <1>9, <1>12, <2>1
  <2> QED BY <2>1, <2>2, HoldsAt
<1>19. c.input \in Holds(c.path)'
  BY <1>8, <1>9, HoldsAt
<1>20. saved' \subseteq atRisk' \cup Holds(Queue)'
  <2> SUFFICES ASSUME NEW i \in saved', i \notin atRisk' PROVE i \in Holds(Queue)'
    OBVIOUS
  <2>1. i # Empty
    BY <1>15, <1>5 DEF Empty
  <2>2. CASE i = c.input /\ c.path = Queue
    BY <1>19, <2>2
  <2>3. CASE i \in saved
    <3>1. i \in Holds(Queue) \/ i \in Pending
      BY <1>1, <2>3 DEF Fuzzing
    <3>2. CASE i \in Pending
      <4>1. PICK k \in DOMAIN todo : todo[k].op = "write" /\ todo[k].path = Queue /\ todo[k].input = i
        BY <3>2 DEF Pending
      <4>2. k = 1
        BY <1>1, <1>4, FuzzingHead
      <4> QED BY <1>2, <1>19, <4>1, <4>2
    <3> QED BY <1>18, <2>1, <3>1, <3>2
  <2> QED BY <1>8, <1>10, <2>2, <2>3
<1>21. CrashesKept'
  <2> SUFFICES ASSUME NEW i \in filed', i \notin backups' PROVE i \in Holds(Crashes)'
    BY DEF CrashesKept
  <2>1. i # Empty
    BY <1>15, <1>5 DEF Empty
  <2>2. CASE i = c.input /\ c.path = Crashes
    BY <1>19, <2>2
  <2>3. CASE i \in filed
    BY <1>1, <1>18, <2>1, <2>3 DEF Fuzzing, CrashesKept
  <2> QED BY <1>8, <1>10, <2>2, <2>3
<1>22. saved' \subseteq atRisk' \cup Holds(Queue)' \cup Pending' /\ mem' # << >>
  BY <1>16, <1>20
<1> HIDE DEF Runs, InMemory, NoOldQueue, CrashesKept
<1>23. Fuzzing'
  BY <1>16, <1>17, <1>21, <1>22, Zenon DEF Fuzzing
<1> QED BY <1>14, <1>16, <1>23

(* An entry that is about to be written still is. *)
LEMMA PendingTail ==
    ASSUME Typed, Fuzzing, todo # << >>, Step, UNCHANGED <<dirs, finds, stale>>,
           saved' \subseteq 1 .. finds, filed' \subseteq 1 .. finds, todo[1].op # "write"
    PROVE  Pending \subseteq Pending'
<1>1. /\ Len(todo') = Len(todo) - 1 /\ DOMAIN todo' = 1 .. Len(todo) - 1
      /\ \A j \in 1 .. Len(todo) - 1 : todo'[j] = todo[j + 1]
  BY FuzzingNext
<1>2. SUFFICES ASSUME NEW i \in Pending PROVE i \in Pending'
  OBVIOUS
<1>3. PICK k \in DOMAIN todo : todo[k].op = "write" /\ todo[k].path = Queue /\ todo[k].input = i
  BY DEF Pending
<1>4. DOMAIN todo = 1 .. Len(todo) /\ Len(todo) \in {1, 2, 3}
  BY FuzzingHead
<1>5. k # 1
  BY <1>3
<1>6. k - 1 \in 1 .. Len(todo) - 1 /\ (k - 1) + 1 = k
  BY <1>4, <1>5
<1>7. k - 1 \in DOMAIN todo' /\ todo'[k - 1] = todo[k]
  <2>1. todo'[k - 1] = todo[(k - 1) + 1]
    BY <1>1, <1>6, Zenon
  <2> QED BY <1>1, <1>6, <2>1
<1> QED BY <1>3, <1>7 DEF Pending

(* A file created for what is to be written, or as a mark. *)
LEMMA FuzzingFile ==
    ASSUME Typed, Tree, Fuzzing, Create, UNCHANGED <<finds, stale>>, NEW c, c = todo[1],
           c.path \in {Queue, DetDone(Queue), Crashes}, c.id \in Nat,
           c.path = Queue => c.id + 1 \in DOMAIN mem,
           c.path = DetDone(Queue) => c.id + 1 \in DOMAIN mem /\ mem[c.id + 1].passedDet,
           c.path = Crashes => c.id < crashes /\ crashes # 0,
           Others(c) = {}, NEW f, f = File(c.path, c.id, Empty)
    PROVE  /\ Step /\ files' = files \cup {f} /\ Tree' /\ InMemory' /\ CrashesKept'
           /\ UNCHANGED <<dirs, plain, saved, filed, backups, atRisk>>
           /\ f.dir = c.path /\ f.id = c.id /\ f.input = Empty
           /\ Typed' /\ Runs' /\ mem' = mem /\ mem # << >> /\ crashes' = crashes /\ inPlace' = inPlace /\ NoOldQueue'
           /\ Pending \subseteq Pending'
           /\ saved' \subseteq atRisk' \cup Holds(Queue)' \cup Pending'
<1>1. todo # << >> /\ Next1.op = "create" /\ UNCHANGED <<dirs, stats, saved, filed, backups, atRisk>>
  BY DEF Create, Does
<1>2. Next1 = c
  BY <1>1, FuzzingHead
<1>3. f.dir = c.path /\ f.id = c.id /\ f.input = Empty
  BY DEF File
<1>4. ~(Len(c.path) = 1 /\ c.id = NoId)
  BY DEF NoId
<1>5. c.path \in dirs /\ c.path \in FileDirs
  BY DEF Fuzzing, InMemory, FileDirs
<1>6. ~Exists(c.path, c.id)
  BY DEF Others, Exists, In
<1>7. Step /\ files' = files \cup {f} /\ UNCHANGED plain
  <2> HIDE DEF Exists, Step
  <2> QED BY <1>2, <1>3, <1>4, <1>5, <1>6, Zenon DEF Create
<1>8. Tree'
  <2>1. f \in [dir : FileDirs, id : Nat \cup {NoId}, input : {Empty} \cup 0 .. finds]
    <3> HIDE DEF FileDirs
    <3> QED BY <1>5 DEF File
  <2> DEFINE none == {}
  <2>2. files' = (files \ none) \cup {f}
    BY <1>7
  <2>3. f.dir \in dirs /\ (f.id = NoId => f.dir = Crashes)
    BY <1>3, <1>5 DEF NoId
  <2>4. \A g \in files : g.dir = f.dir /\ g.id = f.id => g \in none
    BY <1>3 DEF Others
  <2>5. UNCHANGED <<dirs, plain>> /\ finds' = finds
    BY <1>1, <1>7
  <2> HIDE DEF none, FileDirs
  <2> QED BY <2>1, <2>2, <2>3, <2>4, <2>5, TreeFile
<1>9. saved' \subseteq 1 .. finds /\ filed' \subseteq 1 .. finds
  <2> HIDE DEF Command
  <2> QED BY <1>1 DEF Typed
<1>10. Typed' /\ Runs' /\ mem' = mem /\ mem # << >> /\ crashes' = crashes /\ inPlace' = inPlace /\ NoOldQueue'
  BY <1>1, <1>7, <1>9, FuzzingNext
<1>11. InMemory'
  <2>1. InMemory
    BY DEF Fuzzing
  <2>2. ASSUME NEW g \in In(Queue)' PROVE g.id + 1 \in DOMAIN mem' /\ g.input \in {Empty, mem'[g.id + 1].input}
    <3>1. g \in files' /\ g.dir = Queue
      BY <2>2, InPrimed
    <3>2. CASE g = f
      BY <1>3, <1>10, <3>1, <3>2
    <3>3. CASE g \in files
      BY <1>10, <2>1, <3>1, <3>3 DEF InMemory, In
    <3> QED BY <1>7, <3>1, <3>2, <3>3
  <2>3. ASSUME NEW g \in In(DetDone(Queue))' PROVE g.id + 1 \in DOMAIN mem' /\ mem'[g.id + 1].passedDet
    <3>1. g \in files' /\ g.dir = DetDone(Queue)
      BY <2>3, InPrimed
    <3>2. CASE g = f
      BY <1>3, <1>10, <3>1, <3>2
    <3>3. CASE g \in files
      BY <1>10, <2>1, <3>1, <3>3 DEF InMemory, In
    <3> QED BY <1>7, <3>1, <3>2, <3>3
  <2>4. ASSUME NEW g \in In(Crashes)' PROVE g.id < crashes /\ crashes # 0
    <3>1. g \in files' /\ g.dir = Crashes
      BY <2>4, InPrimed
    <3>2. CASE g = f
      BY <1>3, <3>1, <3>2
    <3>3. CASE g \in files
      BY <2>1, <3>1, <3>3 DEF InMemory, In
    <3> QED BY <1>7, <3>1, <3>2, <3>3
  <2>5. crashes = 0 => In(Crashes)' = {}
    BY <2>4
  <2> HIDE DEF In
  <2> QED BY <1>1, <1>10, <2>1, <2>2, <2>3, <2>4, <2>5 DEF InMemory
<1>12. \A d, i : i \in Holds(d) => i \in Holds(d)'
  BY <1>7, HoldsAt
<1>13. Pending \subseteq Pending'
  <2>1. todo[1].op # "write"
    BY <1>1, <1>2
  <2> QED BY <1>1, <1>7, <1>9, <2>1, PendingTail
<1>14. CrashesKept'
  <2>1. CrashesKept
    BY DEF Fuzzing
  <2> QED BY <1>1, <1>12, <2>1 DEF CrashesKept
<1>15. saved' \subseteq atRisk' \cup Holds(Queue)' \cup Pending'
  <2>1. saved \subseteq atRisk \cup Holds(Queue) \cup Pending
    BY DEF Fuzzing
  <2> QED BY <1>1, <1>12, <1>13, <2>1
<1> QED BY <1>1, <1>3, <1>7, <1>8, <1>10, <1>11, <1>13, <1>14, <1>15

(* A file made. *)
LEMMA FuzzingCreate ==
    ASSUME Typed, Tree, Fuzzing, Create, UNCHANGED <<finds, stale>>
    PROVE  Typed' /\ Tree' /\ Fuzzing'
<1>1. Next1.op = "create" /\ todo # << >>
  BY DEF Create, Does
<1>2. ToMake \/ ToMark
  BY <1>1, FuzzingHead
<1>3. PICK c : c = todo[1]
  OBVIOUS
<1>4. todo \in Seq(Command) /\ crashes \in Nat /\ c \in Command /\ DOMAIN mem = 1 .. Len(mem) /\ Len(mem) \in Nat
  <2>1. todo \in Seq(Command) /\ crashes \in Nat /\ DOMAIN todo = 1 .. Len(todo) /\ Len(todo) \in {1, 2, 3}
    BY <1>1, FuzzingHead DEF Typed
  <2> QED BY <1>3, <2>1, Element, MemEntries
<1>a. c.id \in Int
  BY <1>4 DEF Command
<1>5. PICK f : f = File(c.path, c.id, Empty)
  OBVIOUS
<1>b. Queue # DetDone(Queue) /\ Queue # Crashes /\ DetDone(Queue) # Crashes
  BY InSub, StateNames, PathsDiffer DEF Bases, Leaves
<1>6. CASE ToMake
  <2>1. PICK w : w = todo[2]
    OBVIOUS
  <2>2. Len(todo) = 2 /\ WriteFits(w) /\ IsPair(c, w) /\ Others(w) = {}
    BY <1>3, <1>6, <2>1 DEF ToMake
  <2>3. c.path = w.path /\ c.id = w.id /\ Others(c) = {}
    BY <2>2 DEF IsPair, Others
  <2>4. /\ c.path \in {Queue, Crashes}
        /\ c.path = Queue => c.id + 1 \in DOMAIN mem
        /\ c.path = Crashes => crashes > 0 /\ c.id = crashes - 1
    BY <1>b, <2>2, <2>3 DEF WriteFits
  <2>5. c.id \in Nat /\ (c.path = Crashes => c.id < crashes /\ crashes # 0) /\ c.path # DetDone(Queue)
    BY <1>a, <1>b, <1>4, <2>4
  <2>6. /\ Step /\ files' = files \cup {f} /\ Tree' /\ InMemory' /\ CrashesKept'
        /\ UNCHANGED <<dirs, plain, saved, filed, backups, atRisk>>
        /\ f.dir = c.path /\ f.id = c.id /\ f.input = Empty
        /\ Typed' /\ Runs' /\ mem' = mem /\ mem # << >> /\ crashes' = crashes /\ inPlace' = inPlace /\ NoOldQueue'
        /\ saved' \subseteq atRisk' \cup Holds(Queue)' \cup Pending'
    BY <1>3, <1>5, <2>3, <2>4, <2>5, FuzzingFile
  <2>7. Len(todo') = 1 /\ todo'[1] = w
    <3>1. /\ Len(todo') = Len(todo) - 1
          /\ \A j \in 1 .. Len(todo) - 1 : todo'[j] = todo[j + 1]
      <4>1. saved' \subseteq 1 .. finds /\ filed' \subseteq 1 .. finds
        BY <2>6 DEF Typed
      <4> QED BY <1>1, <2>6, <4>1, FuzzingNext
    <3> QED BY <2>1, <2>2, <3>1
  <2>8. ToWrite'
    <3>1. WriteFits(w)'
      BY <2>2, <2>6 DEF WriteFits
    <3>2. \A g \in Others(w)' : g.input = Empty
      BY <2>2, <2>6 DEF Others
    <3> HIDE DEF WriteFits, Others
    <3> QED BY <2>7, <3>1, <3>2 DEF ToWrite
  <2>9. mem' # << >>
    BY <2>6
  <2> HIDE DEF Runs, InMemory, NoOldQueue, CrashesKept, ToWrite
  <2> QED BY <2>6, <2>8, <2>9, Zenon DEF Fuzzing
<1>7. CASE ToMark
  <2>1. /\ Len(todo) = 1 /\ c.path = DetDone(Queue)
        /\ c.id + 1 \in DOMAIN mem /\ mem[c.id + 1].passedDet
        /\ Others(c) = {}
    BY <1>3, <1>7 DEF ToMark
  <2>2. c.id \in Nat /\ c.path # Queue /\ c.path # Crashes
    BY <1>a, <1>b, <1>4, <2>1
  <2>3. /\ Step /\ files' = files \cup {f} /\ Tree' /\ InMemory' /\ CrashesKept'
        /\ UNCHANGED <<dirs, plain, saved, filed, backups, atRisk>>
        /\ Typed' /\ Runs' /\ mem' = mem /\ mem # << >> /\ crashes' = crashes /\ inPlace' = inPlace /\ NoOldQueue'
        /\ saved' \subseteq atRisk' \cup Holds(Queue)' \cup Pending'
    BY <1>3, <1>5, <2>1, <2>2, FuzzingFile
  <2>4. todo' = << >>
    <3>1. saved' \subseteq 1 .. finds /\ filed' \subseteq 1 .. finds
      BY <2>3 DEF Typed
    <3> QED BY <1>1, <2>1, <2>3, <3>1, FuzzingNext
  <2>5. mem' # << >>
    BY <2>3
  <2> HIDE DEF Runs, InMemory, NoOldQueue, CrashesKept
  <2> QED BY <2>3, <2>4, <2>5, Zenon DEF Fuzzing
<1> QED BY <1>2, <1>6, <1>7

(* trim_case removes the file: its input is about to be written. *)
LEMMA FuzzingUnlink ==
    ASSUME Typed, Tree, Fuzzing, Unlink, UNCHANGED <<finds, stale>>
    PROVE  Typed' /\ Tree' /\ Fuzzing'
<1>1. Next1.op = "unlink" /\ todo # << >> /\ Step /\ UNCHANGED <<dirs, saved, filed, marked, backups, atRisk>>
      /\ files' = {f \in files : f.dir # Next1.path \/ f.id # Next1.id} /\ plain' = plain \ {Next1.path}
  BY DEF Unlink, Does, history
<1>2. PICK c, a, w : c = todo[1] /\ a = todo[2] /\ w = todo[3]
  OBVIOUS
<1>3. Next1 = c /\ ToReplace
  BY <1>1, <1>2, FuzzingHead
<1>4. /\ Len(todo) = 3 /\ WriteFits(w) /\ IsPair(a, w) /\ w.path = Queue
      /\ c.path = Queue /\ c.id = w.id
  BY <1>2, <1>3 DEF ToReplace
<1>5. w.op = "write" /\ w.id + 1 \in DOMAIN mem /\ w.input = mem[w.id + 1].input
  BY <1>4, PathsDiffer DEF WriteFits
<1>6. files' \subseteq files /\ plain' \subseteq plain
      /\ (\A g \in files : ~(g.dir = Queue /\ g.id = w.id) => g \in files')
      /\ \A g \in files' : ~(g.dir = Queue /\ g.id = w.id)
  BY <1>1, <1>3, <1>4
<1>7. Tree'
  BY <1>1, <1>6, TreeLess
<1>8. saved' \subseteq 1 .. finds /\ filed' \subseteq 1 .. finds /\ finds \in Nat
  <2> HIDE DEF Command
  <2> QED BY <1>1 DEF Typed
<1>9. /\ Typed' /\ Runs' /\ mem' = mem /\ mem # << >> /\ crashes' = crashes /\ NoOldQueue'
      /\ Len(todo') = Len(todo) - 1
      /\ \A j \in 1 .. Len(todo) - 1 : todo'[j] = todo[j + 1]
  BY <1>1, <1>8, FuzzingNext
<1>10. Len(todo') = 2 /\ todo'[1] = a /\ todo'[2] = w
  BY <1>2, <1>4, <1>9
<1>11. ToMake'
  <2>1. WriteFits(w)'
    BY <1>1, <1>4, <1>9 DEF WriteFits
  <2>2. Others(w)' = {}
    BY <1>4, <1>6 DEF Others
  <2>3. IsPair(a, w)
    BY <1>4
  <2> HIDE DEF WriteFits, Others, IsPair
  <2>4. IsPair(todo'[1], todo'[2])
    BY <1>10, <2>3
  <2> QED BY <1>10, <2>1, <2>2, <2>4 DEF ToMake
<1>12. InMemory'
  <2>1. InMemory
    BY DEF Fuzzing
  <2>2. \A d, f : f \in In(d)' => f \in In(d)
    BY <1>6 DEF In
  <2>3. crashes = 0 => In(Crashes)' = {}
    BY <2>1, <2>2 DEF InMemory
  <2> HIDE DEF In
  <2> QED BY <1>1, <1>9, <2>1, <2>2, <2>3 DEF InMemory
<1>13. Pending \subseteq Pending'
  <2>1. todo[1].op # "write"
    BY <1>1, <1>2, <1>3
  <2> QED BY <1>1, <1>8, <2>1, PendingTail
<1>14. CrashesKept'
  <2>1. CrashesKept
    BY DEF Fuzzing
  <2>2. \A i \in Holds(Crashes) : i \in Holds(Crashes)'
    BY <1>6, HoldsAt, PathsDiffer
  <2> QED BY <1>1, <2>1, <2>2 DEF CrashesKept
<1>15. saved' \subseteq atRisk' \cup Holds(Queue)' \cup Pending'
  <2> SUFFICES ASSUME NEW i \in saved, i \notin atRisk, i \notin Pending PROVE i \in Holds(Queue)' \cup Pending'
    BY <1>1, <1>13
  <2>1. i \in Holds(Queue)
    BY DEF Fuzzing
  <2>2. PICK g \in files : g.dir = Queue /\ g.input = i
    BY <2>1, HoldsAt
  <2>3. CASE g \in files'
    BY <2>2, <2>3, HoldsAt
  <2>4. CASE g \notin files'
    <3>1. g.id = w.id /\ g \in In(Queue)
      BY <1>6, <2>2, <2>4, FilesAt
    <3>2. i # Empty
      BY <1>1, <1>8 DEF Empty
    <3>3. i = w.input
      BY <1>5, <2>2, <3>1, <3>2 DEF Fuzzing, InMemory
    <3>4. 3 \in DOMAIN todo
      BY <1>1, <1>4, FuzzingHead
    <3>5. i \in Pending
      BY <1>2, <1>4, <1>5, <3>3, <3>4 DEF Pending
    <3> QED BY <3>5
  <2> QED BY <2>3, <2>4
<1>16. mem' # << >>
  BY <1>9
<1> HIDE DEF Runs, InMemory, NoOldQueue, CrashesKept, ToMake
<1>17. Fuzzing'
  BY <1>9, <1>11, <1>12, <1>14, <1>15, <1>16, Zenon DEF Fuzzing
<1> QED BY <1>7, <1>9, <1>17

(* write_stats_file. *)
LEMMA FuzzingReport ==
    ASSUME Typed, Tree, Fuzzing, WriteStats
    PROVE  Typed' /\ Tree' /\ Fuzzing'
<1>1. /\ Next1.op \in {"truncate", "stats"} /\ todo # << >> /\ Step
      /\ UNCHANGED <<dirs, files, plain, finds, saved, filed, marked, backups, atRisk, stale>>
  BY DEF WriteStats, Does, history
<1>2. ToReport
  BY <1>1, FuzzingHead
<1>3. saved' \subseteq 1 .. finds /\ filed' \subseteq 1 .. finds /\ finds \in Nat
  <2> HIDE DEF Command
  <2> QED BY <1>1 DEF Typed
<1>4. /\ Typed' /\ Runs' /\ mem' = mem /\ mem # << >> /\ crashes' = crashes /\ NoOldQueue'
      /\ Len(todo') = Len(todo) - 1
      /\ \A j \in 1 .. Len(todo) - 1 : todo'[j] = todo[j + 1]
      /\ Len(todo) = 1 => todo' = << >>
  BY <1>1, <1>3, FuzzingNext
<1>5. Tree' /\ (\A d : Holds(d)' = Holds(d) /\ In(d)' = In(d))
  BY <1>1, SameTree
<1>6. todo' = << >> \/ ToReport'
  <2>1. CASE Len(todo) = 1
    BY <1>4, <2>1
  <2>2. CASE Len(todo) = 2
    <3>1. Len(todo') = 1 /\ todo'[1] = todo[2]
      BY <1>4, <2>2
    <3> QED BY <1>2, <2>2, <3>1 DEF ToReport
  <2> QED BY <1>2, <2>1, <2>2 DEF ToReport
<1>7. InMemory'
  <2>1. InMemory
    BY DEF Fuzzing
  <2> HIDE DEF In
  <2> QED BY <1>1, <1>4, <1>5, <2>1 DEF InMemory
<1>8. CrashesKept'
  <2>1. CrashesKept
    BY DEF Fuzzing
  <2> QED BY <1>1, <1>5, <2>1 DEF CrashesKept
<1>9. saved' \subseteq atRisk' \cup Holds(Queue)' \cup Pending'
  <2>1. todo[1].op # "write"
    BY <1>1, FuzzingHead
  <2>2. Pending \subseteq Pending'
    BY <1>1, <1>3, <2>1, PendingTail
  <2>3. saved \subseteq atRisk \cup Holds(Queue) \cup Pending
    BY DEF Fuzzing
  <2> QED BY <1>1, <1>5, <2>2, <2>3
<1>10. mem' # << >>
  BY <1>4
<1> HIDE DEF Runs, InMemory, NoOldQueue, CrashesKept, ToReport
<1>11. Fuzzing'
  BY <1>4, <1>6, <1>7, <1>8, <1>9, <1>10, Zenon DEF Fuzzing
<1> QED BY <1>4, <1>5, <1>11

(* A session dies while it fuzzes: a file removed by trim_case is            *)
(* endangered from now on.                                                   *)
LEMMA KillFuzzing ==
    ASSUME Typed, Tree, Fuzzing, Kill
    PROVE  Typed' /\ Tree' /\ Rest'
<1>1. Ends("none") /\ UNCHANGED <<dirs, files, plain, finds, saved, filed, marked, backups, stale>>
      /\ atRisk' = atRisk \cup Trimmed \cup IF Nuking THEN Nuked ELSE {}
  BY DEF Kill, disk
<1>2. Typed'
  BY <1>1, Typed0 DEF Ends
<1>3. Tree' /\ (\A d : Holds(d)' = Holds(d) /\ In(d)' = In(d))
  BY <1>1, SameTree
<1>4. Free(Resume)' <=> Free(Resume)
  BY <1>1, <1>3 DEF Free
<1>5. stale \/ Free(Resume)
  <2> SUFFICES ASSUME ~stale PROVE Free(Resume)
    OBVIOUS
  <2>1. Resume \notin dirs
    BY DEF Fuzzing, NoOldQueue
  <2>2. State(Resume) \notin dirs
    BY <2>1, Zenon DEF Tree
  <2> QED BY <2>1, <2>2, FilesAt DEF Free
<1>6. Trimmed = Pending \ Holds(Resume)
  BY DEF Trimmed, Pending
<1>7. saved \subseteq atRisk \cup Holds(Queue) \cup Pending /\ CrashesKept
  BY DEF Fuzzing
<1>8. CrashesKept'
  BY <1>1, <1>3, <1>7 DEF CrashesKept
<1>9. /\ ~running' /\ todo' = << >> /\ mem' = << >> /\ fatal' = "none"
  BY <1>1 DEF Ends
<1> HIDE DEF Free
<1>10. \A i \in saved' : \/ i \in atRisk' \/ i \in Holds(Resume)'
                         \/ i \in Holds(Queue)' /\ (stale' \/ Free(Resume)')
  BY <1>1, <1>3, <1>4, <1>5, <1>6, <1>7
<1>11. Rest'
  BY <1>8, <1>9, <1>10 DEF Rest
<1> QED BY <1>2, <1>3, <1>11

-----------------------------------------------------------------------------
(* Fuzzing: an action begins. *)

Shape == todo = << >> \/ ToWrite \/ ToMake \/ ToReplace \/ ToMark \/ ToReport

(* The commands of NewFile. *)
LEMMA NewFileAt ==
    ASSUME NEW path \in Paths, NEW id \in Int, NEW input \in Int, NEW f, f = File(path, id, input),
           NEW a, a = DoFile("create", f), NEW w, w = DoFile("write", f)
    PROVE  /\ a \in Command /\ w \in Command
           /\ a.op = "create" /\ w.op = "write" /\ w.path = path /\ w.id = id /\ w.input = input /\ IsPair(a, w)
           /\ NewFile(f) \in Seq(Command) /\ Len(NewFile(f)) = 2 /\ NewFile(f)[1] = a /\ NewFile(f)[2] = w
           /\ \A c \in Command : LET t == <<c>> \o NewFile(f)
                                 IN  t \in Seq(Command) /\ Len(t) = 3 /\ t[1] = c /\ t[2] = a /\ t[3] = w
<1>1. a \in Command /\ w \in Command
  BY CommandType DEF Ops
<1>2. a.op = "create" /\ w.op = "write" /\ w.path = path /\ w.id = id /\ w.input = input /\ IsPair(a, w)
  BY DEF DoFile, File, IsPair
<1> HIDE DEF Command
<1>3. NewFile(f) = <<a, w>>
  BY DEF NewFile
<1>4. <<a, w>> \in Seq(Command) /\ Len(<<a, w>>) = 2 /\ <<a, w>>[1] = a /\ <<a, w>>[2] = w
  BY <1>1, Double
<1>5. ASSUME NEW c \in Command
      PROVE  LET t == <<c>> \o <<a, w>>
             IN  t \in Seq(Command) /\ Len(t) = 3 /\ t[1] = c /\ t[2] = a /\ t[3] = w
  <2> DEFINE d == <<c>>
  <2>1. d \in Seq(Command) /\ Len(d) = 1 /\ d[1] = c
    BY Single
  <2> HIDE DEF d
  <2>2. /\ d \o <<a, w>> \in Seq(Command) /\ Len(d \o <<a, w>>) = 3
        /\ (d \o <<a, w>>)[1] = d[1] /\ (d \o <<a, w>>)[2] = a /\ (d \o <<a, w>>)[3] = w
    BY <1>1, <2>1, ConcatTo
  <2> QED BY <2>1, <2>2 DEF d
<1> QED BY <1>1, <1>2, <1>3, <1>4, <1>5

(* An action that changes the queue in memory and decides what to write. *)
LEMMA FuzzingActs ==
    ASSUME Typed, Tree, Fuzzing, Idle, UNCHANGED <<disk, running, inPlace, fatal, history>>,
           finds' = finds \/ finds' = finds + 1, crashes' = crashes \/ crashes' = crashes + 1,
           todo' \in Seq(Command), mem' \in Seq([input : 0 .. finds', passedDet : BOOLEAN]),
           \A k \in DOMAIN mem : /\ k \in DOMAIN mem' /\ mem'[k].input = mem[k].input
                                 /\ mem[k].passedDet => mem'[k].passedDet,
           Shape'
    PROVE  Typed' /\ Tree' /\ Fuzzing'
<1>1. UNCHANGED <<dirs, files, plain, saved, filed, marked, backups, atRisk, stale, running, inPlace, fatal>> /\ todo = << >>
  BY DEF disk, history, Idle
<1>2. /\ finds \in Nat /\ crashes \in Nat /\ running \in BOOLEAN /\ inPlace \in BOOLEAN /\ stale \in BOOLEAN
      /\ saved \subseteq 1 .. finds /\ filed \subseteq 1 .. finds
  <2> HIDE DEF Command
  <2> QED BY DEF Typed
<1>3. finds' \in Nat /\ finds' >= finds /\ crashes' \in Nat /\ crashes' >= crashes
  BY <1>2
<1>4. 1 .. finds \subseteq 1 .. finds' /\ 0 .. finds \subseteq 0 .. finds'
  BY <1>2, <1>3
<1>5. Typed'
  <2> HIDE DEF Command
  <2>1. saved' \subseteq 1 .. finds' /\ filed' \subseteq 1 .. finds'
    BY <1>1, <1>2, <1>4
  <2> QED BY <1>1, <1>2, <1>3, <2>1 DEF Typed
<1>6. Tree'
  <2>1. [dir : FileDirs, id : Nat \cup {NoId}, input : {Empty} \cup 0 .. finds]
           \subseteq [dir : FileDirs, id : Nat \cup {NoId}, input : {Empty} \cup 0 .. finds']
    <3> DEFINE A == {Empty} \cup 0 .. finds
               B == {Empty} \cup 0 .. finds'
               C == Nat \cup {NoId}
    <3>1. A \subseteq B
      BY <1>4
    <3> HIDE DEF A, B, C, FileDirs
    <3>2. [dir : FileDirs, id : C, input : A] \subseteq [dir : FileDirs, id : C, input : B]
      BY <3>1
    <3> QED BY <3>2 DEF A, B, C
  <2> DEFINE R(n) == [dir : FileDirs, id : Nat \cup {NoId}, input : {Empty} \cup 0 .. n]
  <2> HIDE DEF R
  <2>2. files' \subseteq R(finds')
    <3>1. files \subseteq R(finds)
      BY DEF Tree, R
    <3>2. R(finds) \subseteq R(finds')
      BY <2>1 DEF R
    <3> QED BY <1>1, <3>1, <3>2
  <2>3. files' \subseteq [dir : FileDirs, id : Nat \cup {NoId}, input : {Empty} \cup 0 .. finds']
    BY <2>2 DEF R
  <2>4. /\ dirs' \subseteq KnownDirs
        /\ dirs' # {} => << >> \in dirs'
        /\ \A d \in {Queue, Resume} :
             /\ State(d) \in dirs' => d \in dirs'
             /\ \A s \in Range(StateDirs) : Sub(d, s) \in dirs' => State(d) \in dirs'
    BY <1>1, Zenon DEF Tree
  <2>5. /\ \A f \in files' : f.dir \in dirs' /\ (f.id = NoId => f.dir = Crashes)
        /\ \A f, g \in files' : f.dir = g.dir /\ f.id = g.id => f = g
    BY <1>1, Zenon DEF Tree
  <2>6. IsFiniteSet(files') /\ plain' \subseteq {CurInput, PlotData} /\ (<< >> \notin dirs' => plain' = {})
    BY <1>1, Zenon DEF Tree
  <2> QED BY <2>3, <2>4, <2>5, <2>6, Zenon DEF Tree
<1>7. \A d : Holds(d)' = Holds(d) /\ In(d)' = In(d)
  BY <1>1 DEF Holds, In
<1>8. Runs' /\ NoOldQueue'
  BY <1>1 DEF Fuzzing, Runs, NoOldQueue
<1>9. mem' # << >>
  <2>1. Len(mem) \in Nat /\ DOMAIN mem = 1 .. Len(mem) /\ mem \in Entries
    BY MemEntries
  <2>2. mem # << >>
    BY DEF Fuzzing
  <2>3. 1 \in DOMAIN mem
    BY <2>1, <2>2 DEF Entries
  <2>4. 1 \in DOMAIN mem'
    BY <2>3
  <2> QED BY <2>4
<1>10. InMemory'
  <2>1. InMemory
    BY DEF Fuzzing
  <2>2. ASSUME NEW f \in In(Queue) PROVE f.id + 1 \in DOMAIN mem' /\ f.input \in {Empty, mem'[f.id + 1].input}
    BY <2>1 DEF InMemory
  <2>3. ASSUME NEW f \in In(DetDone(Queue)) PROVE f.id + 1 \in DOMAIN mem' /\ mem'[f.id + 1].passedDet
    <3>1. f.id + 1 \in DOMAIN mem /\ mem[f.id + 1].passedDet
      BY <2>1 DEF InMemory
    <3> QED BY <3>1, Zenon
  <2>4. ASSUME NEW f \in In(Crashes) PROVE f.id < crashes'
    <3>1. f.id < crashes /\ f \in files
      BY <2>1, FilesAt DEF InMemory
    <3>2. f.id \in Nat \cup {NoId}
      BY <3>1, FilesAt
    <3>3. f.id \in Int
      BY <3>2 DEF NoId
    <3> QED BY <1>2, <1>3, <3>1, <3>3
  <2>5. crashes' = 0 => In(Crashes) = {}
    <3>1. crashes' = 0 => crashes = 0
      BY <1>2, <1>3
    <3> QED BY <2>1, <3>1 DEF InMemory
  <2>6. {Queue, DetDone(Queue), Crashes} \subseteq dirs'
    BY <1>1, <2>1 DEF InMemory
  <2> HIDE DEF In
  <2> QED BY <1>7, <2>2, <2>3, <2>4, <2>5, <2>6 DEF InMemory
<1>11. CrashesKept'
  <2>1. CrashesKept
    BY DEF Fuzzing
  <2> QED BY <1>1, <1>7, <2>1 DEF CrashesKept
<1>12. saved' \subseteq atRisk' \cup Holds(Queue)' \cup Pending'
  <2>1. saved \subseteq atRisk \cup Holds(Queue) \cup Pending
    BY DEF Fuzzing
  <2>2. Pending = {}
    BY <1>1 DEF Pending
  <2> QED BY <1>1, <1>7, <2>1, <2>2
<1> HIDE DEF Runs, InMemory, NoOldQueue, CrashesKept, ToWrite, ToMake, ToReplace, ToMark, ToReport
<1>13. (todo' = << >> \/ ToWrite' \/ ToMake' \/ ToReplace' \/ ToMark' \/ ToReport')
  BY Zenon DEF Shape
<1>14. Fuzzing'
  BY <1>8, <1>9, <1>10, <1>11, <1>12, <1>13, Zenon DEF Fuzzing
<1> QED BY <1>5, <1>6, <1>14

(* save_if_interesting: an entry, or a crash, under a new number. *)
LEMMA FuzzingSaveEntry ==
    ASSUME Typed, Tree, Fuzzing, SaveEntry
    PROVE  Typed' /\ Tree' /\ Fuzzing'
<1>1. /\ Idle /\ finds' = finds + 1
      /\ mem' = Append(mem, [input |-> finds + 1, passedDet |-> FALSE])
      /\ todo' = NewFile(File(Queue, Len(mem), finds + 1))
      /\ UNCHANGED <<disk, running, inPlace, crashes, fatal, history>>
  BY DEF SaveEntry
<1>2. mem \in Entries /\ DOMAIN mem = 1 .. Len(mem) /\ Len(mem) \in Nat /\ finds \in Nat
      /\ \A k \in DOMAIN mem : mem[k].input \in 0 .. finds /\ mem[k].passedDet \in BOOLEAN
  BY MemEntries
<1> DEFINE S == [input : 0 .. finds + 1, passedDet : BOOLEAN]
           e == [input |-> finds + 1, passedDet |-> FALSE]
           n == Len(mem)
<1>3. mem \in Seq(S) /\ e \in S /\ e.input = finds + 1
  <2>1. mem \in Seq([input : 0 .. finds, passedDet : BOOLEAN])
    <3> HIDE DEF Command
    <3> QED BY DEF Typed
  <2>2. [input : 0 .. finds, passedDet : BOOLEAN] \subseteq S
    <3>1. 0 .. finds \subseteq 0 .. finds + 1
      BY <1>2
    <3> QED BY <3>1
  <2>3. e \in S /\ e.input = finds + 1
    BY <1>2
  <2> HIDE DEF S, e
  <2>4. mem \in Seq(S)
    BY <2>1, <2>2, SeqWider
  <2> QED BY <2>3, <2>4
<1> HIDE DEF S, e, n
<1>4. /\ mem' \in Seq(S) /\ Len(mem') = n + 1
      /\ \A i \in 1 .. n : mem'[i] = mem[i]
      /\ mem'[n + 1] = e
  <2>1. n \in Nat /\ Len(mem) = n
    BY <1>2 DEF n
  <2>2. /\ Append(mem, e) \in Seq(S) /\ Len(Append(mem, e)) = n + 1
        /\ \A i \in 1 .. n : Append(mem, e)[i] = mem[i]
        /\ Append(mem, e)[n + 1] = e
    BY <1>3, <2>1, AppendTo
  <2>3. mem' = Append(mem, e)
    BY <1>1 DEF e
  <2> QED BY <2>2, <2>3
<1>5. DOMAIN mem' = 1 .. n + 1 /\ n + 1 \in DOMAIN mem' /\ n \in Nat
  <2>1. n \in Nat
    BY <1>2 DEF n
  <2> QED BY <1>4, <2>1
<1>6. \A k \in DOMAIN mem : k \in DOMAIN mem' /\ mem'[k] = mem[k]
  <2>1. DOMAIN mem = 1 .. n
    BY <1>2 DEF n
  <2> QED BY <1>4, <1>5, <2>1
<1>7. PICK f, a, w : f = File(Queue, n, finds + 1) /\ a = DoFile("create", f) /\ w = DoFile("write", f)
  OBVIOUS
<1>8. /\ w.op = "write" /\ w.path = Queue /\ w.id = n /\ w.input = finds + 1 /\ IsPair(a, w)
      /\ todo' \in Seq(Command) /\ Len(todo') = 2 /\ todo'[1] = a /\ todo'[2] = w
  <2>1. Queue \in Paths /\ n \in Int /\ finds + 1 \in Int
    BY <1>2, <1>5, KnownPaths DEF Bases
  <2>2. todo' = NewFile(f)
    BY <1>1, <1>7 DEF n
  <2> HIDE DEF Command, Paths
  <2> QED BY <1>7, <2>1, <2>2, NewFileAt
<1>9. ToMake'
  <2>1. WriteFits(w)'
    BY <1>3, <1>4, <1>5, <1>8 DEF WriteFits
  <2>2. Others(w)' = {}
    <3> SUFFICES ASSUME NEW g \in files, g.dir = Queue, g.id = n PROVE FALSE
      BY <1>1, <1>8 DEF Others, disk
    <3>1. g.id + 1 \in DOMAIN mem
      BY DEF Fuzzing, InMemory, In
    <3> QED BY <1>2, <1>5, <3>1 DEF n
  <2>3. IsPair(a, w)
    BY <1>8
  <2> HIDE DEF WriteFits, Others, IsPair
  <2>4. IsPair(todo'[1], todo'[2])
    BY <1>8, <2>3
  <2> QED BY <1>8, <2>1, <2>2, <2>4 DEF ToMake
<1>10. Shape'
  BY <1>9 DEF Shape
<1>11. mem' \in Seq([input : 0 .. finds', passedDet : BOOLEAN])
  <2> HIDE DEF e, n
  <2> QED BY <1>1, <1>4 DEF S
<1>12. \A k \in DOMAIN mem : /\ k \in DOMAIN mem' /\ mem'[k].input = mem[k].input
                             /\ mem[k].passedDet => mem'[k].passedDet
  BY <1>6
<1> HIDE DEF Shape, Command, Idle
<1> QED BY <1>1, <1>8, <1>10, <1>11, <1>12, FuzzingActs

LEMMA FuzzingSaveCrash ==
    ASSUME Typed, Tree, Fuzzing, SaveCrash
    PROVE  Typed' /\ Tree' /\ Fuzzing'
<1>1. /\ Idle /\ finds' = finds + 1 /\ crashes' = crashes + 1
      /\ todo' = NewFile(File(Crashes, crashes, finds + 1))
      /\ UNCHANGED <<disk, running, inPlace, mem, fatal, history>>
  BY DEF SaveCrash
<1>2. mem \in Entries /\ DOMAIN mem = 1 .. Len(mem) /\ Len(mem) \in Nat /\ finds \in Nat
      /\ \A k \in DOMAIN mem : mem[k].input \in 0 .. finds /\ mem[k].passedDet \in BOOLEAN
  BY MemEntries
<1>3. crashes \in Nat
  BY DEF Typed
<1>4. PICK f, a, w : f = File(Crashes, crashes, finds + 1) /\ a = DoFile("create", f) /\ w = DoFile("write", f)
  OBVIOUS
<1>5. Crashes \in Paths /\ crashes \in Int /\ finds + 1 \in Int
  BY <1>2, <1>3, KnownPaths
<1>6. /\ w.op = "write" /\ w.path = Crashes /\ w.id = crashes /\ w.input = finds + 1 /\ IsPair(a, w)
      /\ NewFile(f) \in Seq(Command) /\ Len(NewFile(f)) = 2 /\ NewFile(f)[1] = a /\ NewFile(f)[2] = w
  <2> HIDE DEF Command, Paths
  <2> QED BY <1>4, <1>5, NewFileAt
<1>7. todo' \in Seq(Command) /\ Len(todo') = 2 /\ todo'[1] = a /\ todo'[2] = w
  <2> HIDE DEF Command, NewFile
  <2> QED BY <1>1, <1>4, <1>6
<1>8. WriteFits(w)'
  <2>1. crashes + 1 > 0 /\ crashes = (crashes + 1) - 1 /\ finds + 1 \in 1 .. finds + 1
    BY <1>2, <1>3
  <2> QED BY <1>1, <1>6, <2>1 DEF WriteFits
<1>9. Others(w)' = {}
  <2> SUFFICES ASSUME NEW g \in files, g.dir = Crashes, g.id = crashes PROVE FALSE
    BY <1>1, <1>6 DEF Others, disk
  <2>1. g.id < crashes
    BY DEF Fuzzing, InMemory, In
  <2> QED BY <1>3, <2>1
<1>10. Shape'
  <2> HIDE DEF WriteFits, Others, IsPair, In
  <2>1. IsPair(todo'[1], todo'[2])
    BY <1>6, <1>7
  <2>2. ToMake'
    BY <1>7, <1>8, <1>9, <2>1 DEF ToMake
  <2> QED BY <2>2 DEF Shape
<1>11. mem' \in Seq([input : 0 .. finds', passedDet : BOOLEAN])
  <2> DEFINE S == [input : 0 .. finds + 1, passedDet : BOOLEAN]
             T == [input : 0 .. finds, passedDet : BOOLEAN]
  <2>1. mem \in Seq(T)
    <3> HIDE DEF Command
    <3> QED BY DEF Typed
  <2>2. T \subseteq S
    <3>1. 0 .. finds \subseteq 0 .. finds + 1
      BY <1>2
    <3> QED BY <3>1
  <2> HIDE DEF S, T
  <2>3. mem \in Seq(S)
    BY <2>1, <2>2, SeqWider
  <2> QED BY <1>1, <2>3 DEF S
<1>12. \A k \in DOMAIN mem : /\ k \in DOMAIN mem' /\ mem'[k].input = mem[k].input
                             /\ mem[k].passedDet => mem'[k].passedDet
  BY <1>1
<1> HIDE DEF Shape, Command, Idle
<1> QED BY <1>1, <1>7, <1>10, <1>11, <1>12, FuzzingActs

(* The actions that concern an entry, and the report. *)
LEMMA FuzzingTrim ==
    ASSUME Typed, Tree, Fuzzing, TrimCase
    PROVE  Typed' /\ Tree' /\ Fuzzing'
<1>1. Idle /\ UNCHANGED <<disk, session, finds, history>>
  BY DEF TrimCase
<1>2. mem \in Entries /\ DOMAIN mem = 1 .. Len(mem) /\ Len(mem) \in Nat /\ finds \in Nat
      /\ \A k \in DOMAIN mem : mem[k].input \in 0 .. finds /\ mem[k].passedDet \in BOOLEAN
  BY MemEntries
<1>3. PICK k \in DOMAIN mem :
         todo' = <<DoFile("unlink", File(Queue, k - 1, mem[k].input))>> \o NewFile(File(Queue, k - 1, mem[k].input))
  BY DEF TrimCase
<1>4. PICK f, a, w, c : /\ f = File(Queue, k - 1, mem[k].input) /\ a = DoFile("create", f) /\ w = DoFile("write", f)
                        /\ c = DoFile("unlink", f)
  OBVIOUS
<1>5. Queue \in Paths /\ k - 1 \in Int /\ mem[k].input \in Int /\ (k - 1) + 1 = k
  BY <1>2, KnownPaths DEF Bases
<1>6. c \in Command /\ c.op = "unlink" /\ c.path = Queue /\ c.id = k - 1
  <2>1. c \in Command
    <3> HIDE DEF Command, Paths
    <3> QED BY <1>4, <1>5, CommandType DEF Ops
  <2> QED BY <1>4, <2>1 DEF DoFile, File
<1>7. /\ w.op = "write" /\ w.path = Queue /\ w.id = k - 1 /\ w.input = mem[k].input /\ IsPair(a, w)
      /\ \A d \in Command : LET t == <<d>> \o NewFile(f)
                            IN  t \in Seq(Command) /\ Len(t) = 3 /\ t[1] = d /\ t[2] = a /\ t[3] = w
  <2> HIDE DEF Command, Paths
  <2> QED BY <1>4, <1>5, NewFileAt
<1>8. todo' \in Seq(Command) /\ Len(todo') = 3 /\ todo'[1] = c /\ todo'[2] = a /\ todo'[3] = w
  <2> HIDE DEF Command, Paths, NewFile
  <2>1. todo' = <<c>> \o NewFile(f)
    BY <1>3, <1>4
  <2> QED BY <1>6, <1>7, <2>1
<1>9. mem' = mem /\ UNCHANGED <<running, inPlace, crashes, fatal>>
  BY <1>1 DEF session
<1>10. WriteFits(w)'
  BY <1>5, <1>7, <1>9 DEF WriteFits
<1>11. Shape'
  <2> HIDE DEF WriteFits, IsPair
  <2>1. IsPair(todo'[2], todo'[3])
    BY <1>7, <1>8
  <2>2. ToReplace'
    BY <1>6, <1>7, <1>8, <1>10, <2>1 DEF ToReplace
  <2> QED BY <2>2 DEF Shape
<1>12. mem' \in Seq([input : 0 .. finds', passedDet : BOOLEAN])
  <2> HIDE DEF Command
  <2> QED BY <1>1, <1>9 DEF Typed
<1>13. \A j \in DOMAIN mem : /\ j \in DOMAIN mem' /\ mem'[j].input = mem[j].input
                             /\ mem[j].passedDet => mem'[j].passedDet
  BY <1>9
<1> HIDE DEF Shape, Command, Idle
<1> QED BY <1>1, <1>8, <1>9, <1>11, <1>12, <1>13, FuzzingActs

LEMMA FuzzingMark ==
    ASSUME Typed, Tree, Fuzzing, MarkAsDetDone
    PROVE  Typed' /\ Tree' /\ Fuzzing'
<1>1. Idle /\ UNCHANGED <<disk, running, inPlace, crashes, fatal, finds, history>>
  BY DEF MarkAsDetDone
<1>2. mem \in Entries /\ DOMAIN mem = 1 .. Len(mem) /\ Len(mem) \in Nat /\ finds \in Nat
      /\ \A k \in DOMAIN mem : mem[k].input \in 0 .. finds /\ mem[k].passedDet \in BOOLEAN
  BY MemEntries
<1>3. PICK k \in DOMAIN mem :
         /\ ~mem[k].passedDet
         /\ mem' = [mem EXCEPT ![k].passedDet = TRUE]
         /\ todo' = <<DoFile("create", File(DetDone(Queue), k - 1, mem[k].input))>>
  BY DEF MarkAsDetDone
<1>4. PICK c : c = DoFile("create", File(DetDone(Queue), k - 1, mem[k].input))
  OBVIOUS
<1>5. DetDone(Queue) \in Paths /\ k - 1 \in Int /\ mem[k].input \in Int /\ (k - 1) + 1 = k
  BY <1>2, KnownPaths, StateNames DEF Bases, DetDone
<1>6. c \in Command /\ c.op = "create" /\ c.path = DetDone(Queue) /\ c.id = k - 1
  <2>1. c \in Command
    <3> HIDE DEF Command, Paths
    <3> QED BY <1>4, <1>5, CommandType DEF Ops
  <2> QED BY <1>4, <2>1 DEF DoFile, File
<1>7. todo' \in Seq(Command) /\ Len(todo') = 1 /\ todo'[1] = c
  <2> HIDE DEF Command
  <2> QED BY <1>3, <1>4, <1>6, Single
<1> DEFINE S == [input : 0 .. finds, passedDet : BOOLEAN]
<1>8. mem \in Seq(S)
  <2> HIDE DEF Command
  <2> QED BY DEF Typed
<1>9. [mem[k] EXCEPT !.passedDet = TRUE] \in S
  <2>1. mem[k] \in S
    <3> HIDE DEF S
    <3> QED BY <1>8, Element
  <2> QED BY <2>1
<1>10. mem' = [mem EXCEPT ![k] = [mem[k] EXCEPT !.passedDet = TRUE]]
  BY <1>3
<1> HIDE DEF S
<1>11. /\ mem' \in Seq(S) /\ DOMAIN mem' = DOMAIN mem
       /\ mem'[k] = [mem[k] EXCEPT !.passedDet = TRUE]
       /\ \A j \in DOMAIN mem : j # k => mem'[j] = mem[j]
  <2> DEFINE e == [mem[k] EXCEPT !.passedDet = TRUE]
  <2>1. e \in S
    BY <1>9
  <2>2. mem' = [mem EXCEPT ![k] = e]
    BY <1>10
  <2> HIDE DEF e
  <2>3. /\ mem' \in Seq(S) /\ DOMAIN mem' = DOMAIN mem /\ mem'[k] = e
        /\ \A j \in DOMAIN mem : j # k => mem'[j] = mem[j]
    BY <1>8, <2>1, <2>2
  <2> QED BY <2>3 DEF e
<1>12. /\ \A j \in DOMAIN mem : /\ j \in DOMAIN mem' /\ mem'[j].input = mem[j].input
                                /\ mem[j].passedDet => mem'[j].passedDet
       /\ mem'[k].passedDet
  <2>1. mem[k] \in S
    BY <1>8, Element
  <2>2. mem'[k].passedDet /\ mem'[k].input = mem[k].input
    BY <1>11, <2>1 DEF S
  <2>3. ASSUME NEW j \in DOMAIN mem
        PROVE  j \in DOMAIN mem' /\ mem'[j].input = mem[j].input /\ (mem[j].passedDet => mem'[j].passedDet)
    <3>1. CASE j = k
      BY <1>11, <2>2, <3>1, Zenon
    <3>2. CASE j # k
      BY <1>11, <3>2, Zenon
    <3> QED BY <3>1, <3>2
  <2> QED BY <2>2, <2>3
<1>13. Others(c)' = {}
  <2> SUFFICES ASSUME NEW g \in files, g.dir = DetDone(Queue), g.id = k - 1 PROVE FALSE
    BY <1>1, <1>6 DEF Others, disk
  <2>1. g.id + 1 \in DOMAIN mem /\ mem[g.id + 1].passedDet
    <3>1. g \in In(DetDone(Queue))
      BY FilesAt
    <3> QED BY <3>1 DEF Fuzzing, InMemory
  <2>2. g.id + 1 = k
    BY <1>5
  <2> QED BY <1>3, <2>1, <2>2
<1>14. ToMark'
  <2>1. todo'[1].id + 1 = k
    BY <1>5, <1>6, <1>7
  <2>2. k \in DOMAIN mem'
    BY <1>12
  <2> HIDE DEF Others
  <2>3. mem'[todo'[1].id + 1].passedDet
    BY <1>12, <2>1, Zenon
  <2> QED BY <1>6, <1>7, <1>13, <2>1, <2>2, <2>3 DEF ToMark
<1>15. Shape'
  BY <1>14 DEF Shape
<1>16. mem' \in Seq([input : 0 .. finds', passedDet : BOOLEAN])
  BY <1>1, <1>11 DEF S
<1> HIDE DEF Shape, Command, Idle
<1> QED BY <1>1, <1>7, <1>12, <1>15, <1>16, FuzzingActs

LEMMA FuzzingUpdate ==
    ASSUME Typed, Tree, Fuzzing, UpdateStats
    PROVE  Typed' /\ Tree' /\ Fuzzing'
<1>1. Idle /\ UNCHANGED <<disk, session, finds, history>>
  BY DEF UpdateStats
<1>2. PICK a, b : a = Do("truncate", <<"fuzzer_stats">>) /\ b = Do("stats", <<"fuzzer_stats">>)
  OBVIOUS
<1>3. a \in Command /\ b \in Command /\ a.op = "truncate" /\ b.op = "stats"
  <2>1. a \in Command /\ b \in Command
    <3> HIDE DEF Command, Paths
    <3> QED BY <1>2, KnownPaths, CommandType DEF Ops
  <2> QED BY <1>2, <2>1 DEF Do
<1>4. todo' \in Seq(Command) /\ Len(todo') = 2 /\ todo'[1] = a /\ todo'[2] = b
  <2>1. todo' = <<a, b>>
    BY <1>2 DEF UpdateStats
  <2> HIDE DEF Command
  <2> QED BY <1>3, <2>1, Double
<1>5. ToReport'
  BY <1>3, <1>4 DEF ToReport
<1>6. Shape'
  BY <1>5 DEF Shape
<1>7. mem' = mem /\ UNCHANGED <<running, inPlace, crashes, fatal>>
  BY <1>1 DEF session
<1>8. mem' \in Seq([input : 0 .. finds', passedDet : BOOLEAN])
  <2> HIDE DEF Command
  <2> QED BY <1>1, <1>7 DEF Typed
<1>9. \A j \in DOMAIN mem : /\ j \in DOMAIN mem' /\ mem'[j].input = mem[j].input
                            /\ mem[j].passedDet => mem'[j].passedDet
  BY <1>7
<1> HIDE DEF Shape, Command, Idle
<1> QED BY <1>1, <1>4, <1>6, <1>7, <1>8, <1>9, FuzzingActs

(* A step that leaves alone all the invariant speaks of. *)
LEMMA PhasesStill ==
    ASSUME Typed, Tree, UNCHANGED <<disk, todo, session, finds, history>>
    PROVE  /\ Typed' /\ Tree'
           /\ (Rest => Rest') /\ (Starting => Starting') /\ (Importing => Importing') /\ (Fuzzing => Fuzzing')
<1>1. UNCHANGED <<dirs, files, plain, stats, todo, running, inPlace, mem, crashes, fatal, finds,
                  saved, filed, marked, backups, atRisk, stale>>
  BY DEF disk, session, history
<1>2. Typed'
  BY <1>1 DEF Typed
<1>3. /\ Tree'
      /\ \A d : Holds(d)' = Holds(d) /\ In(d)' = In(d)
      /\ \A d, i : Exists(d, i)' <=> Exists(d, i)
  BY <1>1 DEF Tree, In, Holds, Exists
<1>4. Done' = Done /\ Rests' = Rests /\ Links0' = Links0 /\ Inputs' = Inputs /\ Pending' = Pending /\ Total' = Total
      /\ (\A c : Others(c)' = Others(c)) /\ (\A c : WriteFits(c)' <=> WriteFits(c)) /\ (CrashesKept' <=> CrashesKept)
      /\ (Runs' <=> Runs) /\ (NoOldQueue' <=> NoOldQueue) /\ (\A d : Free(d)' <=> Free(d))
  <2>1. Done' = Done /\ Rests' = Rests /\ Links0' = Links0 /\ Inputs' = Inputs /\ Pending' = Pending /\ Total' = Total
    BY <1>1 DEF Done, Total, Rests, Links0, Inputs, Pending
  <2>2. (\A c : Others(c)' = Others(c)) /\ (\A c : WriteFits(c)' <=> WriteFits(c))
    BY <1>1 DEF Others, WriteFits
  <2>3. (CrashesKept' <=> CrashesKept) /\ (Runs' <=> Runs) /\ (NoOldQueue' <=> NoOldQueue) /\ (\A d : Free(d)' <=> Free(d))
    <3> HIDE DEF In
    <3> QED BY <1>1, <1>3 DEF CrashesKept, Runs, NoOldQueue, Free
  <2> QED BY <2>1, <2>2, <2>3
<1> HIDE DEF Exists, In, Holds, Done, Rests, Links0, Inputs, Pending, Total, Others, WriteFits, CrashesKept, Runs, NoOldQueue, Free
<1>5. Rest => Rest'
  BY <1>1, <1>3, <1>4 DEF Rest
<1>6. Starting => Starting'
  <2>1. StartingDirs => StartingDirs'
    BY <1>1, <1>3, <1>4 DEF StartingDirs, Absent, Present
  <2>2. StartingKept => StartingKept'
    BY <1>1, <1>3, <1>4 DEF StartingKept
  <2> HIDE DEF StartingDirs, StartingKept, Program
  <2> QED BY <1>1, <1>4, <2>1, <2>2 DEF Starting
<1>7. InMemory => InMemory'
  BY <1>1, <1>3 DEF InMemory
<1>8. Importing => Importing'
  <2>1. Linking => Linking'
    <3>1. \A p : Pivots(p)' <=> Pivots(p)
      BY <1>1, <1>3, <1>4, Zenon DEF Pivots
    <3> HIDE DEF Pivots, IsPair
    <3> QED BY <1>1, <1>4, <3>1 DEF Linking
  <2>2. EmptyingDirs => EmptyingDirs'
    BY <1>1, <1>4 DEF EmptyingDirs
  <2>3. ImportingKept => ImportingKept'
    BY <1>1, <1>3, <1>4 DEF ImportingKept
  <2> HIDE DEF Linking, EmptyingDirs, ImportingKept, InMemory, AfterLinks
  <2> QED BY <1>1, <1>4, <1>7, <2>1, <2>2, <2>3 DEF Importing
<1>9. Fuzzing => Fuzzing'
  <2>1. /\ ToWrite' <=> ToWrite
        /\ ToMake' <=> ToMake
        /\ ToReplace' <=> ToReplace
        /\ ToMark' <=> ToMark
        /\ ToReport' <=> ToReport
    <3> HIDE DEF IsPair
    <3>1. ToWrite' <=> ToWrite
      BY <1>1, <1>4 DEF ToWrite
    <3>2. ToMake' <=> ToMake
      BY <1>1, <1>4 DEF ToMake
    <3>3. ToReplace' <=> ToReplace
      BY <1>1, <1>4 DEF ToReplace
    <3>4. ToMark' <=> ToMark
      BY <1>1, <1>4 DEF ToMark
    <3>5. ToReport' <=> ToReport
      BY <1>1, <1>4 DEF ToReport
    <3> QED BY <3>1, <3>2, <3>3, <3>4, <3>5, Zenon
  <2> HIDE DEF ToWrite, ToMake, ToReplace, ToMark, ToReport, InMemory
  <2> QED BY <1>1, <1>3, <1>4, <1>7, <2>1 DEF Fuzzing
<1> QED BY <1>2, <1>3, <1>5, <1>6, <1>8, <1>9

LEMMA NothingMoves ==
    ASSUME Inv, UNCHANGED <<disk, todo, session, finds, history>>
    PROVE  Inv'
<1> HIDE DEF Typed, Tree, Rest, Starting, Importing, Fuzzing
<1> QED BY PhasesStill DEF Inv

-----------------------------------------------------------------------------
(* The invariant is kept, and the theorems. *)

(* Which commands are the next in each phase, and that none is at rest. *)
LEMMA PhaseOps ==
    ASSUME Typed
    PROVE  /\ Rest => todo = << >> /\ ~running
           /\ Starting => /\ running /\ todo # << >>
                          /\ Next1.op \in {"rename", "clear", "rmdir", "backup", "unlink", "mkdir", "create", "read"}
           /\ Importing => /\ running /\ todo # << >>
                           /\ Next1.op \notin {"mkdir", "rename", "backup", "read"}
           /\ Fuzzing => /\ running
                         /\ todo # << >> => Next1.op \in {"write", "create", "unlink", "truncate", "stats"}
<1>1. Rest => todo = << >> /\ ~running
  BY DEF Rest
<1>2. ASSUME Starting
      PROVE  /\ running /\ todo # << >>
             /\ Next1.op \in {"rename", "clear", "rmdir", "backup", "unlink", "mkdir", "create", "read"}
  <2>1. todo # << >> /\ Done + 1 \in 1 .. Total /\ Next1 = Program(inPlace)[Done + 1] /\ inPlace \in BOOLEAN
    BY <1>2, StartingHead
  <2>2. PICK p \in 1 .. Total, r \in BOOLEAN : p = Done + 1 /\ r = inPlace
    BY <2>1
  <2>3. Next1 = Program(r)[p]
    BY <2>1, <2>2
  <2>4. Next1.op \in {"rename", "clear", "rmdir", "backup", "unlink", "mkdir", "create", "read"}
    BY <2>3, Heads
  <2>5. running
    BY <1>2 DEF Starting, Runs
  <2> QED BY <2>1, <2>4, <2>5
<1>3. ASSUME Importing
      PROVE  running /\ todo # << >> /\ Next1.op \notin {"mkdir", "rename", "backup", "read"}
  <2>1. todo # << >> /\ running
    BY <1>3, ImportingHead DEF Importing, Runs
  <2> SUFFICES ASSUME Next1.op \in {"mkdir", "rename", "backup", "read"} PROVE FALSE
    BY <2>1
  <2>2. Links0 <= 0
    BY <1>3, ImportingOps
  <2>3. PICK p, o : p = 1 - Links0 /\ o = (IF inPlace THEN N + 2 ELSE 0)
    OBVIOUS
  <2>4. Next1.op \in {"clear", "rmdir", "unlink", "create", "seek", "truncate", "stats", "enter"}
    BY <1>3, <2>2, <2>3, LastHead
  <2> QED BY <2>4
<1>4. ASSUME Fuzzing
      PROVE  running /\ (todo # << >> => Next1.op \in {"write", "create", "unlink", "truncate", "stats"})
  <2>1. running
    BY <1>4 DEF Fuzzing, Runs
  <2> QED BY <1>4, <2>1, FuzzingHead
<1> QED BY <1>1, <1>2, <1>3, <1>4, Zenon

(* Each kind of step keeps the invariant. *)
LEMMA BeginKeepsInv ==
    ASSUME Inv, NEW resume \in BOOLEAN, Begin(resume)
    PROVE  Inv'
<1>1. ~running
  BY DEF Begin
<1>2. Rest
  BY <1>1, PhaseOps DEF Inv
<1> HIDE DEF Typed, Tree, Rest, Starting, Begin
<1>3. Typed' /\ Tree' /\ (Rest \/ Starting)'
  BY <1>2, BeginKeeps DEF Inv
<1> QED BY <1>3 DEF Inv

LEMMA KillKeepsInv ==
    ASSUME Inv, Kill
    PROVE  Inv'
<1>1. running
  BY DEF Kill
<1>2. Starting \/ Importing \/ Fuzzing
  BY <1>1, PhaseOps DEF Inv
<1>3. Typed' /\ Tree' /\ Rest'
  BY <1>2, KillStarting, KillImporting, KillFuzzing, Zenon DEF Inv
<1> QED BY <1>3, Zenon DEF Inv

LEMMA ExecuteKeepsInv ==
    ASSUME Inv, Execute
    PROVE  Inv'
<1>1. Typed /\ Tree
  BY DEF Inv
<1>2. UNCHANGED <<finds, stale>>
  BY DEF Execute, Clear, Rmdir, Mkdir, RenameQueue, Backup, Unlink, Create, Write, Link, ReadTestcases, history
<1>3. todo # << >>
  BY DEF Execute, Clear, Rmdir, Mkdir, RenameQueue, Backup, Unlink, Create, Write, Link, ReadTestcases, Does
<1>4. Starting \/ Importing \/ Fuzzing
  BY <1>1, <1>3, PhaseOps DEF Inv
<1>5. /\ Starting => Next1.op \in {"rename", "clear", "rmdir", "backup", "unlink", "mkdir", "create", "read"}
      /\ Importing => Next1.op \notin {"mkdir", "rename", "backup", "read"}
      /\ Fuzzing => Next1.op \in {"write", "create", "unlink", "truncate", "stats"}
  BY <1>1, <1>3, PhaseOps
<1>6. CASE Clear
  <2>1. Next1.op = "clear"
    BY <1>6 DEF Clear, Does
  <2>2. ~Fuzzing
    BY <1>5, <2>1
  <2> QED BY <1>1, <1>2, <1>4, <1>6, <2>2, StartingClear, ImportingClear, Zenon DEF Inv
<1>7. CASE Rmdir
  <2>1. Next1.op = "rmdir"
    BY <1>7 DEF Rmdir, Does
  <2>2. ~Fuzzing
    BY <1>5, <2>1
  <2> QED BY <1>1, <1>2, <1>4, <1>7, <2>2, StartingRmdir, ImportingRmdir, Zenon DEF Inv
<1>8. CASE Mkdir
  <2>1. Next1.op = "mkdir"
    BY <1>8 DEF Mkdir, Does
  <2>2. ~Fuzzing /\ ~Importing
    BY <1>5, <2>1
  <2> QED BY <1>1, <1>2, <1>4, <1>8, <2>2, StartingMkdir, Zenon DEF Inv
<1>9. CASE RenameQueue
  <2>1. Next1.op = "rename"
    BY <1>9 DEF RenameQueue, Does
  <2>2. ~Fuzzing /\ ~Importing
    BY <1>5, <2>1
  <2> QED BY <1>1, <1>2, <1>4, <1>9, <2>2, StartingRename, Zenon DEF Inv
<1>10. CASE Backup
  <2>1. Next1.op = "backup"
    BY <1>10 DEF Backup, Does
  <2>2. ~Fuzzing /\ ~Importing
    BY <1>5, <2>1
  <2> QED BY <1>1, <1>2, <1>4, <1>10, <2>2, StartingBackup, Zenon DEF Inv
<1>11. CASE Unlink
  BY <1>1, <1>2, <1>4, <1>11, StartingUnlink, ImportingUnlink, FuzzingUnlink, Zenon DEF Inv
<1>12. CASE Create
  BY <1>1, <1>2, <1>4, <1>12, StartingCreate, ImportingCreate, FuzzingCreate, Zenon DEF Inv
<1>13. CASE Write
  <2>1. Next1.op = "write"
    BY <1>13 DEF Write, Does
  <2>2. ~Starting
    BY <1>5, <2>1
  <2> QED BY <1>1, <1>2, <1>4, <1>13, <2>2, ImportingWrite, FuzzingWrite, Zenon DEF Inv
<1>14. CASE Link
  <2>1. Next1.op = "link"
    BY <1>14 DEF Link, Does
  <2>2. ~Starting /\ ~Fuzzing
    BY <1>5, <2>1
  <2> QED BY <1>1, <1>2, <1>4, <1>14, <2>2, ImportingLink, Zenon DEF Inv
<1>15. CASE ReadTestcases
  <2>1. Next1.op = "read"
    BY <1>15 DEF ReadTestcases, Does
  <2>2. ~Importing /\ ~Fuzzing
    BY <1>5, <2>1
  <2> HIDE DEF Typed, Tree, Rest, Importing, ReadTestcases
  <2>3. Typed' /\ Tree' /\ (Rest \/ Importing)'
    BY <1>1, <1>4, <1>15, <2>2, StartingRead
  <2> QED BY <2>3 DEF Inv
<1> QED
  BY <1>6, <1>7, <1>8, <1>9, <1>10, <1>11, <1>12, <1>13, <1>14, <1>15, Zenon DEF Execute

LEMMA FuzzKeepsInv ==
    ASSUME Inv, Fuzz
    PROVE  Inv'
<1>1. Typed /\ Tree
  BY DEF Inv
<1>2. running /\ todo = << >>
  BY DEF Fuzz, SaveEntry, SaveCrash, TrimCase, MarkAsDetDone, UpdateStats, Idle
<1>3. Fuzzing
  BY <1>1, <1>2, PhaseOps DEF Inv
<1>4. Typed' /\ Tree' /\ Fuzzing'
  BY <1>1, <1>3, FuzzingSaveEntry, FuzzingSaveCrash, FuzzingTrim, FuzzingMark, FuzzingUpdate, Zenon DEF Fuzz
<1> QED BY <1>4, Zenon DEF Inv

LEMMA PositionKeepsInv ==
    ASSUME Inv, FindStartPosition \/ WriteStats \/ EnterQueue
    PROVE  Inv'
<1>1. Typed /\ Tree
  BY DEF Inv
<1>2. todo # << >> /\ Next1.op \in {"seek", "truncate", "stats", "enter"}
  BY DEF FindStartPosition, WriteStats, EnterQueue, Does
<1>3. ~Rest /\ ~Starting
  BY <1>1, <1>2, PhaseOps
<1>4. CASE Importing
  <2>1. CASE FindStartPosition \/ WriteStats
    <3>1. Typed' /\ Tree' /\ Importing'
      BY <1>1, <1>4, <2>1, ImportingPosition, Zenon
    <3> QED BY <3>1, Zenon DEF Inv
  <2>2. CASE EnterQueue
    <3>1. Typed' /\ Tree' /\ Fuzzing'
      BY <1>1, <1>4, <2>2, ImportingEnter, Zenon
    <3> QED BY <3>1, Zenon DEF Inv
  <2> QED BY <2>1, <2>2
<1>5. CASE Fuzzing
  <2>1. Next1.op \in {"truncate", "stats"}
    BY <1>1, <1>2, <1>5, PhaseOps
  <2>2. WriteStats
    BY <2>1 DEF FindStartPosition, EnterQueue, Does
  <2>3. Typed' /\ Tree' /\ Fuzzing'
    BY <1>1, <1>5, <2>2, FuzzingReport, Zenon
  <2> QED BY <2>3, Zenon DEF Inv
<1> QED BY <1>3, <1>4, <1>5 DEF Inv

(* The invariant holds at first, every step keeps it, and it implies the     *)
(* properties.                                                               *)
LEMMA InvInit ==
    ASSUME Init
    PROVE  Inv
<1>1. /\ dirs = {} /\ files = {} /\ plain = {} /\ todo = << >>
      /\ running = FALSE /\ inPlace = FALSE /\ mem = << >> /\ crashes = 0 /\ fatal = "none" /\ finds = 0
      /\ saved = {} /\ filed = {} /\ stale = FALSE
  BY DEF Init, DInit
<1>2. Typed
  <2> DEFINE S == [input : 0 .. finds, passedDet : BOOLEAN]
  <2> HIDE DEF Command, S
  <2>1. todo \in Seq(Command) /\ mem \in Seq(S)
    BY <1>1
  <2> USE DEF S
  <2> QED BY <1>1, <2>1, Zenon DEF Typed
<1>3. Tree
  <2>1. IsFiniteSet({})
    BY FS_EmptySet
  <2> HIDE DEF KnownDirs, FileDirs
  <2> QED BY <1>1, <2>1 DEF Tree
<1>4. Rest
  BY <1>1 DEF Rest, CrashesKept
<1> QED BY <1>2, <1>3, <1>4 DEF Inv

LEMMA InvStep ==
    ASSUME Inv, [Next]_svars
    PROVE  Inv'
<1>1. CASE UNCHANGED dvars
  <2>1. UNCHANGED <<disk, todo, session, finds, history>>
    BY <1>1 DEF dvars
  <2> QED BY <2>1, NothingMoves
<1>2. CASE DNext
  <2>1. CASE Start
    BY <2>1, BeginKeepsInv DEF Start
  <2>2. CASE StartInPlace
    BY <2>2, BeginKeepsInv DEF StartInPlace
  <2>3. CASE Kill
    BY <2>3, KillKeepsInv
  <2>4. CASE Execute
    BY <2>4, ExecuteKeepsInv
  <2>5. CASE Fuzz
    BY <2>5, FuzzKeepsInv
  <2>6. CASE FindStartPosition \/ WriteStats \/ EnterQueue
    BY <2>6, PositionKeepsInv
  <2>7. CASE Advance
    <3>1. UNCHANGED <<disk, todo, session, finds, history>>
      BY <2>7 DEF Advance
    <3> QED BY <3>1, NothingMoves
  <2> QED BY <1>2, <2>1, <2>2, <2>3, <2>4, <2>5, <2>6, <2>7, Zenon DEF DNext
<1>3. Peer => UNCHANGED dvars
  BY DEF Peer, OpenQueue, ReadEntry, TryCase, CloseQueue, StopPeer
<1>4. [Next]_svars => DNext \/ UNCHANGED dvars
  BY <1>3, Zenon DEF Next, Owner, svars
<1> QED BY <1>1, <1>2, <1>4

(* There are no statistics without a directory; and between truncating and   *)
(* writing them nothing else happens, so that only a death there leaves      *)
(* them without contents.                                                    *)
Reported ==
    /\ << >> \notin dirs => stats = "none"
    /\ fatal = "no inputs" => saved \subseteq atRisk
    /\ fatal = "malformed" => stats = "empty"
    /\ running /\ stats = "empty" => Does("stats")

(* A session that runs has made the directory.                               *)
LEMMA RunsInside ==
    ASSUME Inv, running
    PROVE  Runs /\ << >> \in dirs
<1>1. Starting \/ Importing \/ Fuzzing
  BY PhaseOps DEF Inv
<1>2. Starting => << >> \in dirs /\ Runs
  BY DEF Starting, StartingDirs
<1>3. Importing \/ Fuzzing => Queue \in dirs /\ Runs
  BY Zenon DEF Importing, Fuzzing, InMemory
<1>4. Queue \in dirs => << >> \in dirs
  BY DEF Inv, Tree
<1> QED BY <1>1, <1>2, <1>3, <1>4

(* A step that leaves the files, the finds and the commands alone.           *)
LEMMA SameReported ==
    ASSUME Reported, UNCHANGED <<disk, todo, running, fatal, saved, atRisk>>
    PROVE  Reported'
BY DEF Reported, disk, Does, Next1

(* A session is refused as malformed only if the statistics are without      *)
(* contents, and none starts then.                                           *)
LEMMA BeginReports ==
    ASSUME Reported, NEW resume \in BOOLEAN, Begin(resume)
    PROVE  Reported'
<1> DEFINE refused == IF << >> \notin dirs THEN IF resume THEN "no directory" ELSE "none"
                      ELSE IF stats = "empty" THEN "malformed"
                      ELSE IF stats = "much" /\ ~resume THEN "much at stake"
                      ELSE "none"
<1>1. stats' = stats /\ << >> \in dirs'
  BY DEF Begin
<1>2. CASE refused # "none"
  <2>1. Ends(refused)
    BY <1>2, Zenon DEF Begin
  <2>2. running' = FALSE /\ fatal' = refused
    BY <2>1 DEF Ends
  <2>3. fatal' # "no inputs" /\ (fatal' = "malformed" => stats = "empty")
    BY <2>2
  <2> QED BY <1>1, <2>2, <2>3 DEF Reported
<1>3. CASE refused = "none"
  <2>1. fatal' = "none"
    BY <1>3, Zenon DEF Begin
  <2>2. stats # "empty"
    BY <1>3 DEF Reported
  <2> QED BY <1>1, <2>1, <2>2 DEF Reported
<1> QED BY <1>2, <1>3

LEMMA KillReports ==
    ASSUME Inv, Kill
    PROVE  Reported'
<1>1. running' = FALSE /\ fatal' = "none" /\ UNCHANGED dirs /\ running
  BY DEF Kill, Ends, disk
<1>2. << >> \in dirs
  BY <1>1, RunsInside
<1> QED BY <1>1, <1>2 DEF Reported

(* Executing a command fails only where inputs are read.                     *)
LEMMA ExecuteReports ==
    ASSUME Inv, Inv', Reported, Execute
    PROVE  Reported'
<1>1. todo # << >> /\ Next1.op # "stats"
  BY DEF Execute, Clear, Rmdir, Mkdir, RenameQueue, Backup, Unlink, Create, Write, Link, ReadTestcases, Does
<1>2. running
  BY <1>1, PhaseOps DEF Inv
<1>3. fatal = "none" /\ stats # "empty" /\ << >> \in dirs
  BY <1>1, <1>2, RunsInside DEF Runs, Reported, Does
<1>4. stats' \in {stats, "none"}
  BY DEF Execute, Clear, Rmdir, Mkdir, RenameQueue, Backup, Unlink, Create, Write, Link, ReadTestcases, disk
<1>5. ASSUME ~ReadTestcases
      PROVE  UNCHANGED <<running, fatal>> \/ (running' = FALSE /\ fatal' \in {"clean-up", "mkdir", "create"})
  <2>1. CASE Clear
    BY <2>1 DEF Clear, Step, Fails, Ends, session
  <2>2. CASE Rmdir
    BY <2>2 DEF Rmdir, Step, Fails, Ends, session
  <2>3. CASE Mkdir
    BY <2>3 DEF Mkdir, Step, Fails, Ends, session
  <2>4. CASE RenameQueue \/ Backup \/ Unlink \/ Write
    BY <2>4 DEF RenameQueue, Backup, Unlink, Write, Step, session
  <2>5. CASE Create
    BY <2>5 DEF Create, Step, Fails, Ends, session
  <2>6. CASE Link
    BY <2>6 DEF Link, Step, Fails, Ends, session
  <2> QED BY <1>5, <2>1, <2>2, <2>3, <2>4, <2>5, <2>6, Zenon DEF Execute
<1>6. ~running' => Rest'
  BY Zenon DEF Inv, Starting, Importing, Fuzzing, Runs
<1>7. running' => << >> \in dirs'
  <2>1. (Starting => << >> \in dirs)'
    BY Zenon DEF Starting, StartingDirs
  <2>2. (Importing \/ Fuzzing => Queue \in dirs)'
    BY Zenon DEF Importing, Fuzzing, InMemory
  <2>3. (Queue \in dirs => << >> \in dirs)'
    BY DEF Inv, Tree
  <2>4. (Rest => ~running)'
    BY Zenon DEF Rest
  <2> QED BY <2>1, <2>2, <2>3, <2>4, Zenon DEF Inv
<1>8. CASE ReadTestcases
  <2>1. Starting
    <3>1. Next1.op = "read"
      BY <1>8 DEF ReadTestcases, Does
    <3> QED BY <1>1, <3>1, PhaseOps DEF Inv
  <2>2. Typed /\ Tree
    BY DEF Inv
  <2>3. (~running' => fatal' = "no inputs" /\ saved' \subseteq atRisk') /\ (running' => fatal' = fatal)
    BY <1>8, <2>1, <2>2, StartingRead
  <2>4. UNCHANGED dirs
    BY <1>8 DEF ReadTestcases, disk
  <2> QED BY <1>3, <1>4, <2>3, <2>4 DEF Reported
<1>9. CASE ~ReadTestcases
  <2>1. UNCHANGED <<running, fatal>>
    BY <1>5, <1>6, <1>9 DEF Rest
  <2> QED BY <1>2, <1>3, <1>4, <1>7, <2>1 DEF Reported
<1> QED BY <1>8, <1>9

(* After truncating the statistics the next command writes them.             *)
LEMMA TruncateThenWrite ==
    ASSUME Inv, WriteStats, Next1.op = "truncate"
    PROVE  Does("stats")'
<1>1. Typed /\ todo # << >> /\ Step /\ UNCHANGED <<finds, stale, dirs, saved, filed>>
  BY DEF Inv, WriteStats, Does, history
<1>2. saved' \subseteq 1 .. finds /\ filed' \subseteq 1 .. finds
  <2> HIDE DEF Command
  <2> QED BY <1>1 DEF Typed
<1>3. Importing \/ Fuzzing
  BY <1>1, PhaseOps DEF Inv
<1>4. CASE Importing
  <2>1. Links0 <= 0
    BY <1>1, <1>4, ImportingOps
  <2>2. PICK o, p : o = (IF inPlace THEN N + 2 ELSE 0) /\ p = 1 - Links0
    OBVIOUS
  <2>3. o \in Nat /\ Links0 \in Int /\ inPlace \in BOOLEAN /\ p = o + 4 /\ Len(todo) = o + 7 - p
    BY <1>1, <1>4, <2>1, <2>2, LastHead
  <2>4. /\ Typed' /\ inPlace' = inPlace /\ Len(todo') = Len(todo) - 1 /\ Links0' = Links0 - 1
        /\ DOMAIN todo' = 1 .. Len(todo) - 1
        /\ \A j \in DOMAIN todo' : j > Links0' => todo'[j] = AfterLinks(inPlace')[j - Links0']
    BY <1>1, <1>2, <1>4, ImportingNext
  <2> HIDE DEF Links0, N
  <2>5. 1 \in DOMAIN todo' /\ 1 > Links0' /\ 1 - Links0' = o + 5 /\ Len(todo') = 2
    <3>1. p = 1 - Links0 /\ Links0 \in Int /\ o \in Nat /\ p = o + 4 /\ Len(todo) = o + 7 - p
      BY <2>2, <2>3
    <3>2. Links0' = Links0 - 1 /\ Len(todo') = Len(todo) - 1 /\ DOMAIN todo' = 1 .. Len(todo) - 1
      BY <2>4
    <3>3. Len(todo) = 3 /\ Links0' = 0 - o - 4
      BY <3>1, <3>2
    <3> QED BY <3>1, <3>2, <3>3
  <2>6. todo'[1] = AfterLinks(inPlace)[o + 5]
    BY <2>4, <2>5
  <2>7. AfterLinks(inPlace)[o + 5] = Do("stats", <<"fuzzer_stats">>)
    BY <2>2, <2>3, AfterLinksAt, Zenon
  <2>8. todo'[1].op = "stats"
    BY <2>6, <2>7 DEF Do
  <2>9. todo' # << >> /\ Head(todo') = todo'[1]
    <3>1. todo' \in Seq(Command)
      BY <2>4 DEF Typed
    <3> HIDE DEF Command
    <3> QED BY <2>5, <3>1
  <2> QED BY <2>8, <2>9 DEF Does, Next1
<1>5. CASE Fuzzing
  <2>1. ToReport /\ Next1 = todo[1]
    BY <1>1, <1>5, FuzzingHead
  <2>2. Len(todo) = 2 /\ todo[2].op = "stats"
    BY <2>1 DEF ToReport
  <2>3. Typed' /\ Len(todo') = 1 /\ todo'[1] = todo[2]
    BY <1>1, <1>2, <1>5, <2>2, FuzzingNext
  <2>4. todo' # << >> /\ Head(todo') = todo'[1]
    <3>1. PICK t \in Seq(Command) : t = todo'
      BY <2>3 DEF Typed
    <3>2. Len(t) = 1
      BY <2>3, <3>1
    <3> HIDE DEF Command
    <3>3. t # << >> /\ Head(t) = t[1]
      BY <3>2
    <3> QED BY <3>1, <3>3
  <2> QED BY <2>2, <2>3, <2>4 DEF Does, Next1
<1> QED BY <1>3, <1>4, <1>5

LEMMA PositionReports ==
    ASSUME Inv, Reported, FindStartPosition \/ WriteStats \/ EnterQueue
    PROVE  Reported'
<1>1. todo # << >> /\ Next1.op \in {"seek", "truncate", "stats", "enter"}
  BY DEF FindStartPosition, WriteStats, EnterQueue, Does
<1>2. running
  BY <1>1, PhaseOps DEF Inv
<1>3. fatal = "none" /\ << >> \in dirs
  BY <1>2, RunsInside DEF Runs
<1>4. UNCHANGED <<dirs, running, fatal>>
  BY DEF FindStartPosition, WriteStats, EnterQueue, Step, session, disk
<1>5. stats' = "empty" => Does("stats")'
  <2>1. CASE WriteStats
    <3>1. CASE Next1.op = "truncate"
      BY <2>1, <3>1, TruncateThenWrite
    <3>2. CASE Next1.op # "truncate"
      <4>1. stats' \in {"little", "much"}
        BY <2>1, <3>2 DEF WriteStats
      <4> QED BY <4>1
    <3> QED BY <3>1, <3>2
  <2>2. CASE FindStartPosition \/ EnterQueue
    <3>1. Next1.op # "stats" /\ UNCHANGED stats
      BY <2>2 DEF FindStartPosition, EnterQueue, Does, disk
    <3> QED BY <1>2, <3>1 DEF Reported, Does
  <2> QED BY <2>1, <2>2
<1> QED BY <1>3, <1>4, <1>5 DEF Reported

LEMMA ReportedStep ==
    ASSUME Inv, Inv', Reported, [Next]_svars
    PROVE  Reported'
<1>1. CASE UNCHANGED dvars
  <2>1. UNCHANGED <<disk, todo, running, fatal, saved, atRisk>>
    BY <1>1 DEF dvars, session, history
  <2> QED BY <2>1, SameReported
<1>2. CASE DNext
  <2>1. CASE Start
    BY <2>1, BeginReports DEF Start
  <2>2. CASE StartInPlace
    BY <2>2, BeginReports DEF StartInPlace
  <2>3. CASE Kill
    BY <2>3, KillReports
  <2>4. CASE Execute
    BY <2>4, ExecuteReports
  <2>5. CASE Fuzz
    <3>1. running /\ todo = << >> /\ UNCHANGED <<disk, running, fatal>>
      BY <2>5 DEF Fuzz, SaveEntry, SaveCrash, TrimCase, MarkAsDetDone, UpdateStats, Idle, session
    <3>2. fatal = "none" /\ << >> \in dirs
      BY <3>1, RunsInside DEF Runs
    <3>3. stats # "empty"
      BY <3>1 DEF Reported, Does
    <3> QED BY <3>1, <3>2, <3>3 DEF Reported, disk
  <2>6. CASE FindStartPosition \/ WriteStats \/ EnterQueue
    BY <2>6, PositionReports
  <2>7. CASE Advance
    <3>1. UNCHANGED <<disk, todo, running, fatal, saved, atRisk>>
      BY <2>7 DEF Advance, session, history
    <3> QED BY <3>1, SameReported
  <2> QED BY <1>2, <2>1, <2>2, <2>3, <2>4, <2>5, <2>6, <2>7, Zenon DEF DNext
<1>3. Peer => UNCHANGED dvars
  BY DEF Peer, OpenQueue, ReadEntry, TryCase, CloseQueue, StopPeer
<1>4. [Next]_svars => DNext \/ UNCHANGED dvars
  BY <1>3, Zenon DEF Next, Owner, svars
<1> QED BY <1>1, <1>2, <1>4

LEMMA InvMeans ==
    ASSUME Inv
    PROVE  fatal \notin {"clean-up", "mkdir", "create"} /\ OnlyKnownLosses
<1>1. fatal \notin {"clean-up", "mkdir", "create"}
  BY DEF Inv, Rest, Runs, Starting, Importing, Fuzzing
<1>2. \A i \in saved : i \in Holds(Queue) \cup Holds(Resume) \cup Trimmed \cup atRisk
  <2>1. Rest => saved \subseteq atRisk \cup Holds(Resume) \cup Holds(Queue)
    BY DEF Rest
  <2>2. Starting => saved \subseteq atRisk \cup Holds(Resume) \cup Holds(Queue)
    BY DEF Starting, StartingKept
  <2>3. ASSUME Importing PROVE saved \subseteq atRisk \cup Holds(Resume) \cup Holds(Queue)
    <3>1. Links0 \in Int
      BY <2>3, ImportingHead DEF Inv
    <3>2. Links0 > 0 \/ Links0 <= 0
      BY <3>1
    <3>3. ImportingKept
      BY <2>3, Zenon DEF Importing
    <3> QED BY <3>2, <3>3 DEF ImportingKept
  <2>4. Fuzzing => saved \subseteq atRisk \cup Holds(Resume) \cup Holds(Queue) \cup Trimmed
    <3>1. Trimmed = Pending \ Holds(Resume)
      BY DEF Trimmed, Pending
    <3> QED BY <3>1 DEF Fuzzing
  <2> QED BY <2>1, <2>2, <2>3, <2>4 DEF Inv
<1>3. \A i \in filed : i \in Holds(Crashes) \cup backups
  <2>1. Starting => filed \subseteq backups \/ CrashesKept
    BY DEF Starting, StartingKept
  <2>2. Rest \/ Importing \/ Fuzzing => CrashesKept
    BY Zenon DEF Rest, Importing, ImportingKept, Fuzzing
  <2> QED BY <2>1, <2>2 DEF Inv, CrashesKept
<1> QED BY <1>1, <1>2, <1>3 DEF OnlyKnownLosses

(* The directory is always in one of the four phases, with the files and     *)
(* the commands left to execute that belong to it.                           *)
THEOREM DirectoryInvariant == Spec => []Inv
<1>1. Init => Inv
  BY InvInit
<1>2. Inv /\ [Next]_svars => Inv'
  BY InvStep
<1> QED BY <1>1, <1>2, PTL DEF Spec

(* No moment of death leaves a directory that a later start can neither      *)
(* clean up (delete_files and rmdir in maybe_delete_out_dir,                 *)
(* nuke_resume_dir) nor rebuild (mkdir in setup_dirs_fds, the exclusive      *)
(* creation of files), and a resume finds no inputs (read_testcases) only    *)
(* when every find was endangered.  Statistics without contents keep every   *)
(* later start out; only a death in write_stats_file leaves them so.         *)
THEOREM DirectoryStartsAgain == Spec => []StartsAgain
<1>1. Init => Reported
  BY DEF Init, DInit, Reported
<1>2. Inv /\ Inv' /\ Reported /\ [Next]_svars => Reported'
  BY ReportedStep
<1>3. Inv /\ Reported => StartsAgain
  BY InvMeans DEF Reported, StartsAgain
<1> QED BY <1>1, <1>2, <1>3, DirectoryInvariant, PTL DEF Spec

(* A find written to queue/ is in queue/ or _resume/ until a fresh session   *)
(* gives it up, except at the moments known to endanger it: while trim_case  *)
(* replaces the file and after a death in nuke_resume_dir.  A crash is       *)
(* never deleted, only moved aside.                                          *)
THEOREM DirectoryOnlyKnownLosses == Spec => []OnlyKnownLosses
<1>1. Inv => OnlyKnownLosses
  BY InvMeans
<1> QED BY <1>1, DirectoryInvariant, PTL

==============================================================================
