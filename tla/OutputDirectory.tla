---------------------------- MODULE OutputDirectory ----------------------------
(***************************************************************************)
(* The output directory of an afl-fuzz instance through its sessions: fresh *)
(* starts, resumes in place (-i -), and the death of the process between    *)
(* any two system calls.                                                    *)
(*                                                                         *)
(* What the program does to the directory at start-up is straight-line      *)
(* code, kept as a sequence of commands still to be executed.  A file is    *)
(* its directory, the number in its name and what it holds.                 *)
(*                                                                         *)
(* Abstracted: the text of names after the number (pivot_inputs gives an    *)
(* entry the number of its position either way), automatic dictionaries,    *)
(* the input directory of a fresh start (one seed), the lock (one process).  *)
(* A session never has the time stamp of an earlier one.                    *)
(***************************************************************************)
EXTENDS Integers, FiniteSets, SequencesExt

CONSTANTS
    StateDirs,          \* the directories of queue/.state, in the order they are treated
    Scenarios           \* bounds: how many sessions, inputs and crashes found there are
                        \* together (events), what fuzzing does besides adding inputs
                        \* (does), and whether another instance looks on (peer)

ASSUME ScenariosTyped ==
    \A s \in Scenarios :
        s.events \in Nat /\ s.does \subseteq {"crash", "trim", "mark", "stats", "position", "again"} /\ s.peer \in BOOLEAN
ASSUME StateDirsTyped ==
    /\ StateDirs \in Seq(STRING)
    /\ \A j, k \in DOMAIN StateDirs : StateDirs[j] = StateDirs[k] => j = k
    /\ "deterministic_done" \in Range(StateDirs)

VARIABLES
    scenario,
    dirs,               \* paths of the directories that exist, << >> is out_dir
    files,              \* the numbered files
    plain,              \* other files at the top
    stats,              \* fuzzer_stats: "none", "empty", or how much work it reports
    todo,               \* the commands of the running program still to be executed
    running,            \* a session is running
    inPlace,            \* in_place_resume
    mem,                \* its queue in memory: position -> input and passed_det
    finds,              \* inputs found so far, in all sessions
    current,            \* current_entry
    seekTo,             \* seek_to
    statsPos,           \* cur_path in fuzzer_stats
    crashes,            \* unique_crashes
    fatal,              \* why the last session gave up
    starts,             \* sessions so far
    saved,              \* history: finds whose file was written in queue/
    filed,              \* history: files written in crashes/
    marked,             \* history: inputs marked as deterministically done
    backups,            \* what the crash directories set aside hold
    atRisk,             \* history: inputs a kill at a known bad moment has endangered
    cited,              \* history: the input cur_path stands for, until a fresh start
    sought,             \* history: that input when the session looked for its position
    stale               \* history: a fresh session was started over a _resume

disk == <<dirs, files, plain, stats>>
session == <<running, inPlace, mem, crashes, fatal>>
history == <<saved, filed, marked, backups, atRisk, stale>>
position == <<current, seekTo, statsPos, cited, sought>>
dvars == <<scenario, disk, todo, session, finds, starts, history, position>>

-----------------------------------------------------------------------------
(* Files.  NoId is a name without the prefix "id:"; Empty a file created but *)
(* not written yet, Seed the contents of the seed.                          *)

NoId == -1
Empty == -1
Seed == 0

Queue == <<"queue">>
Resume == <<"_resume">>
State(d) == Append(d, ".state")
Sub(d, s) == d \o <<".state", s>>
DetDone(d) == Sub(d, "deterministic_done")
Synced == <<".synced">>
Crashes == <<"crashes">>
Hangs == <<"hangs">>

File(d, i, input) == [dir |-> d, id |-> i, input |-> input]
In(d) == {f \in files : f.dir = d}
Exists(d, i) == \E f \in In(d) : f.id = i
Holds(d) == {f.input : f \in In(d)}

IsEmpty(d) == In(d) = {} /\ \A e \in dirs : ~IsStrictPrefix(d, e)

(* rename(p, q): fails unless q is missing or empty; a failure is ignored. *)
CanRename(p, q) == p \in dirs /\ (q \in dirs => IsEmpty(q))
Moved(p, q, path) == IF IsPrefix(p, path) THEN q \o SubSeq(path, Len(p) + 1, Len(path)) ELSE path

-----------------------------------------------------------------------------
(* The commands. *)

Do(op, path) == [op |-> op, path |-> path, id |-> NoId, input |-> Empty]
DoFile(op, f) == [op |-> op, path |-> f.dir, id |-> f.id, input |-> f.input]

If(c, seq) == IF c THEN seq ELSE << >>
All(op, paths) == [k \in DOMAIN paths |-> Do(op, paths[k])]
StateSubs(d) == [k \in DOMAIN StateDirs |-> Sub(d, StateDirs[k])]

(* nuke_resume_dir, and the part of maybe_delete_out_dir that empties queue *)
\* fault: the directories below .state are left
LeavesState(d) == <<Do("rmdir", State(d)), Do("clear", d)>>
EmptyQueue(d) == All("clear", StateSubs(d)) \o <<Do("rmdir", State(d)), Do("clear", d)>>

(* maybe_delete_out_dir *)
CleanUp(resume) ==
    If(resume, <<Do("rename", Queue)>>)
    \o If(~resume, <<Do("clear", Synced)>>)
    \o EmptyQueue(Queue)
    \o If(~resume, <<Do("unlink", Crashes)>>)      \* crashes/README.txt, which no session writes
    \o If(resume, <<Do("backup", Crashes)>>) \o <<Do("clear", Crashes)>>
    \o If(resume, <<Do("backup", Hangs)>>) \o <<Do("clear", Hangs)>>
    \o <<Do("unlink", <<".cur_input">>), Do("unlink", <<"fuzz_bitmap">>)>>
    \o If(~resume, <<Do("unlink", <<"fuzzer_stats">>)>>)
    \o <<Do("unlink", <<"plot_data">>)>>

(* the rest of setup_dirs_fds *)
MakeDirs ==
    All("mkdir", <<Queue, State(Queue)>> \o StateSubs(Queue) \o <<Synced, Crashes, Hangs>>)
    \o <<Do("create", <<"plot_data">>)>>

(* pivot_inputs for the entry of position k (from 1) *)
\* fault: the mark is not passed on
PivotForgetsMarks(k, entry) == <<DoFile("link", File(Queue, k - 1, entry.input))>>
Pivot(k, entry) ==
    <<DoFile("link", File(Queue, k - 1, entry.input))>>
    \o If(entry.passedDet, <<DoFile("create", File(DetDone(Queue), k - 1, entry.input))>>)

(* What follows once the inputs are read: pivot_inputs, setup_stdio_file, the *)
(* position to start from, the first write_stats_file, the first cycle.      *)
Links(entries) == FlattenSeq([k \in DOMAIN entries |-> Pivot(k, entries[k])])
FirstOutput ==
    <<Do("unlink", <<".cur_input">>), Do("create", <<".cur_input">>),
      Do("seek", <<"fuzzer_stats">>), Do("truncate", <<"fuzzer_stats">>), Do("stats", <<"fuzzer_stats">>),
      Do("enter", Queue)>>
\* fault: _resume is emptied before its entries are linked
ImportNukesFirst(entries) == If(inPlace, EmptyQueue(Resume)) \o Links(entries) \o FirstOutput
Import(entries) == Links(entries) \o If(inPlace, EmptyQueue(Resume)) \o FirstOutput

-----------------------------------------------------------------------------
(* Starting, and giving up. *)

DInit ==
    /\ scenario \in Scenarios
    /\ dirs = {} /\ files = {} /\ plain = {} /\ stats = "none"
    /\ todo = << >>
    /\ running = FALSE /\ inPlace = FALSE /\ mem = << >> /\ crashes = 0 /\ fatal = "none"
    /\ finds = 0 /\ starts = 0
    /\ current = 0 /\ seekTo = 0 /\ statsPos = 0 /\ cited = Empty /\ sought = Empty
    /\ saved = {} /\ filed = {} /\ marked = {} /\ backups = {} /\ atRisk = {} /\ stale = FALSE

(* the bound *)
Bounded == starts + finds < scenario.events

Ends(why) ==
    /\ running' = FALSE
    /\ fatal' = why
    /\ todo' = << >>
    /\ mem' = << >>
    /\ UNCHANGED <<inPlace, crashes>>

(* setup_dirs_fds: mkdir(out_dir), and what follows if it existed.  A fresh    *)
(* session gives up what the directory held.                                *)
Begin(resume) ==
    /\ ~running
    /\ Bounded
    /\ starts' = starts + 1
    /\ LET refused == IF << >> \notin dirs THEN IF resume THEN "no directory" ELSE "none"
                      ELSE IF stats = "empty" THEN "malformed"
                      ELSE IF stats = "much" /\ ~resume THEN "much at stake"
                      ELSE "none"
       IN  IF refused # "none" THEN Ends(refused) /\ UNCHANGED history
           ELSE /\ running' = TRUE
                /\ inPlace' = resume
                /\ mem' = << >>
                /\ crashes' = 0
                /\ fatal' = "none"
                /\ todo' = If(<< >> \in dirs, CleanUp(resume)) \o MakeDirs
                             \o <<Do("read", IF resume THEN Resume ELSE << >>)>>
                /\ IF resume
                   THEN /\ atRisk' = IF stale THEN atRisk \cup Holds(Queue) ELSE atRisk
                        /\ UNCHANGED <<saved, filed, marked, backups, stale>>
                   ELSE /\ saved' = {} /\ filed' = {} /\ marked' = {} /\ atRisk' = {}
                        /\ stale' = (Resume \in dirs)
                        /\ UNCHANGED backups
    /\ dirs' = dirs \cup {<< >>}
    /\ UNCHANGED <<files, plain, stats, finds>>

Start == (<< >> \in dirs => "again" \in scenario.does) /\ Begin(FALSE)
StartInPlace == Begin(TRUE)

(* SIGKILL, a power failure, or any of the program's own ways to stop.  Two   *)
(* moments are known to endanger inputs: trim_case has removed the file and  *)
(* not yet written the shorter one, and nuke_resume_dir has begun.          *)
Trimmed ==
    {todo[k].input : k \in {j \in DOMAIN todo : todo[j].op = "write" /\ todo[j].path = Queue}}
        \ Holds(Resume)
Nuked ==
    (Holds(Queue) \ Holds(Resume))
        \cup {f.input : f \in {g \in In(Resume) : g.input \in marked /\ ~Exists(DetDone(Resume), g.id)}}
Nuking == \E k \in DOMAIN todo : todo[k] = Do("clear", Resume)     \* from pivot_inputs on

Kill ==
    /\ running
    /\ Ends("none")
    /\ atRisk' = atRisk \cup Trimmed \cup IF Nuking THEN Nuked ELSE {}
    /\ UNCHANGED <<disk, finds, starts, saved, filed, marked, backups, stale>>

-----------------------------------------------------------------------------
(* Executing the next command. *)

Next1 == Head(todo)
Does(op) == todo # << >> /\ Next1.op = op
Step == todo' = Tail(todo) /\ UNCHANGED session
Fails(why) == Ends(why)

(* delete_files: the files one by one, in any order, then the directory *)
Clear ==
    /\ Does("clear")
    /\ LET d == Next1.path
           matching == {f \in In(d) : f.id # NoId}
       IN  \/ d \notin dirs /\ Step /\ UNCHANGED <<dirs, files>>
           \/ /\ d \in dirs
              /\ \E f \in matching : files' = files \ {f}
              /\ UNCHANGED <<dirs, todo, session>>
           \/ /\ d \in dirs /\ matching = {}
              /\ IF IsEmpty(d) THEN Step /\ dirs' = dirs \ {d} ELSE Fails("clean-up") /\ UNCHANGED dirs
              /\ UNCHANGED files
    /\ UNCHANGED <<plain, stats, finds, starts, history>>

Rmdir ==
    /\ Does("rmdir")
    /\ IF Next1.path \in dirs /\ ~IsEmpty(Next1.path)
       THEN Fails("clean-up") /\ UNCHANGED dirs
       ELSE Step /\ dirs' = dirs \ {Next1.path}
    /\ UNCHANGED <<files, plain, stats, finds, starts, history>>

Mkdir ==
    /\ Does("mkdir")
    /\ IF \/ Next1.path \in dirs /\ ~(inPlace /\ Next1.path = Synced)
          \/ Front(Next1.path) \notin dirs
       THEN Fails("mkdir") /\ UNCHANGED dirs
       ELSE Step /\ dirs' = dirs \cup {Next1.path}
    /\ UNCHANGED <<files, plain, stats, finds, starts, history>>

(* rename(queue, _resume) *)
RenameQueue ==
    /\ Does("rename")
    /\ Step
    /\ IF CanRename(Queue, Resume)
       THEN /\ dirs' = {Moved(Queue, Resume, d) : d \in dirs}
            /\ files' = {[f EXCEPT !.dir = Moved(Queue, Resume, @)] : f \in files}
       ELSE UNCHANGED <<dirs, files>>
    /\ UNCHANGED <<plain, stats, finds, starts, history>>

(* crashes or hangs is moved out of the way unless it is empty *)
Backup ==
    /\ Does("backup")
    /\ Step
    /\ backups' = backups \cup Holds(Next1.path)
    /\ dirs' = dirs \ {Next1.path}
    /\ files' = files \ In(Next1.path)
    /\ UNCHANGED <<plain, stats, finds, starts, saved, filed, marked, atRisk, stale>>

Unlink ==
    /\ Does("unlink")
    /\ Step
    /\ files' = {f \in files : f.dir # Next1.path \/ f.id # Next1.id}
    /\ plain' = plain \ {Next1.path}
    /\ stats' = IF Next1.path = <<"fuzzer_stats">> THEN "none" ELSE stats
    /\ UNCHANGED <<dirs, finds, starts, history>>

(* open(O_CREAT | O_EXCL) of a file in a directory, or of a plain one *)
Create ==
    /\ Does("create")
    /\ LET f == File(Next1.path, Next1.id, Empty) IN
       IF Len(Next1.path) = 1 /\ Next1.id = NoId
       THEN /\ IF Next1.path \in plain THEN Fails("create") ELSE Step
            /\ plain' = plain \cup {Next1.path}
            /\ UNCHANGED <<files, marked>>
       ELSE /\ IF Exists(f.dir, f.id) \/ f.dir \notin dirs
               THEN Fails("create") /\ UNCHANGED <<files, marked>>
               ELSE /\ Step
                    /\ files' = files \cup {f}
                    /\ marked' = IF f.dir = DetDone(Queue) THEN marked \cup {Next1.input} ELSE marked
            /\ UNCHANGED plain
    /\ UNCHANGED <<dirs, stats, finds, starts, saved, filed, backups, atRisk, stale>>

Written(f) == files' = (files \ {File(f.dir, f.id, Empty)}) \cup {f}
Noted(f) ==
    /\ saved' = IF f.dir = Queue /\ f.input # Seed THEN saved \cup {f.input} ELSE saved
    /\ filed' = IF f.dir = Crashes /\ f.id # NoId THEN filed \cup {f.input} ELSE filed

Write ==
    /\ Does("write")
    /\ Step
    /\ Written(File(Next1.path, Next1.id, Next1.input))
    /\ Noted(File(Next1.path, Next1.id, Next1.input))
    /\ UNCHANGED <<dirs, plain, stats, finds, starts, marked, backups, atRisk, stale>>

(* link_or_copy: the copy is not atomic *)
Link ==
    /\ Does("link")
    /\ LET f == File(Next1.path, Next1.id, Next1.input) IN
       IF Exists(f.dir, f.id) THEN Fails("create") /\ UNCHANGED <<files, saved, filed>>
       ELSE \/ Step /\ Written(f) /\ Noted(f)
            \/ /\ todo' = <<DoFile("create", f), DoFile("write", f)>> \o Tail(todo)
               /\ UNCHANGED <<session, files, saved, filed>>
    /\ UNCHANGED <<dirs, plain, stats, finds, starts, marked, backups, atRisk, stale>>

(* find_start_position: of a session resumed in place, and only if there is     *)
(* such an entry                                                            *)
FindStartPosition ==
    /\ Does("seek")
    /\ Step
    /\ current' = 0
    /\ seekTo' = IF inPlace /\ stats # "none" /\ statsPos < Len(mem) THEN statsPos ELSE 0
    /\ sought' = IF inPlace /\ stats # "none" THEN cited ELSE Empty
    /\ UNCHANGED <<disk, finds, starts, history, statsPos, cited>>

(* main: the first cycle starts there, every other one at the first entry. *)
EnterQueue ==
    /\ Does("enter")
    /\ Step
    /\ current' = seekTo
    /\ seekTo' = 0
    /\ UNCHANGED <<disk, finds, starts, history, statsPos, cited, sought>>

(* write_stats_file.  A session that has lasted has much at stake. *)
WriteStats ==
    /\ Does("truncate") \/ Does("stats")
    /\ Step
    /\ \/ Next1.op = "truncate" /\ stats' = "empty"
          /\ UNCHANGED <<statsPos, cited>>
       \/ /\ Next1.op = "stats"
          /\ stats' \in IF finds = 0 THEN {"little"} ELSE {"little", "much"}
          /\ statsPos' = current /\ cited' = mem[current + 1].input
    /\ UNCHANGED <<dirs, files, plain, finds, starts, history, current, seekTo, sought>>

(* read_testcases: the files by name; those of no length are passed over. *)
ByName(d) ==
    LET found == {f \in In(d) : f.input # Empty}
        Nth(k) == CHOOSE f \in found : Cardinality({g \in found : g.id < f.id}) = k - 1
    IN  [k \in 1 .. Cardinality(found) |->
            [input |-> Nth(k).input, passedDet |-> Exists(DetDone(d), Nth(k).id)]]

ReadTestcases ==
    /\ Does("read")
    /\ LET entries == IF ~inPlace THEN <<[input |-> Seed, passedDet |-> FALSE]>>
                      ELSE IF Resume \in dirs THEN ByName(Resume)
                      ELSE << >>
       IN  IF entries = << >> THEN Fails("no inputs")
           ELSE /\ mem' = entries
                /\ todo' = Import(entries)
                /\ UNCHANGED <<running, inPlace, crashes, fatal>>
    /\ UNCHANGED <<disk, finds, starts, history>>

-----------------------------------------------------------------------------
(* What fuzzing does to the directory. *)

Idle == running /\ todo = << >>
NewFile(f) == <<DoFile("create", f), DoFile("write", f)>>

(* save_if_interesting *)
SaveEntry ==
    /\ Idle
    /\ Bounded
    /\ finds' = finds + 1
    /\ mem' = Append(mem, [input |-> finds + 1, passedDet |-> FALSE])
    /\ todo' = NewFile(File(Queue, Len(mem), finds + 1))
    /\ UNCHANGED <<disk, running, inPlace, crashes, fatal, starts, history>>

\* write_crash_readme opens a file below non_term_recursions, a directory nothing
\* makes, and gives up without a word
SaveCrash ==
    /\ Idle
    /\ "crash" \in scenario.does
    /\ Bounded
    /\ finds' = finds + 1
    /\ crashes' = crashes + 1
    /\ todo' = NewFile(File(Crashes, crashes, finds + 1))
    /\ UNCHANGED <<disk, running, inPlace, mem, fatal, starts, history>>

(* trim_case has made the entry shorter *)
TrimCase ==
    /\ Idle
    /\ "trim" \in scenario.does
    /\ \E k \in DOMAIN mem :
         LET f == File(Queue, k - 1, mem[k].input) IN
         todo' = <<DoFile("unlink", f)>> \o NewFile(f)
    /\ UNCHANGED <<disk, session, finds, starts, history>>

MarkAsDetDone ==
    /\ Idle
    /\ "mark" \in scenario.does
    /\ \E k \in DOMAIN mem :
         /\ ~mem[k].passedDet
         /\ mem' = [mem EXCEPT ![k].passedDet = TRUE]
         /\ todo' = <<DoFile("create", File(DetDone(Queue), k - 1, mem[k].input))>>
    /\ UNCHANGED <<disk, running, inPlace, crashes, fatal, finds, starts, history>>

UpdateStats ==
    /\ Idle
    /\ "stats" \in scenario.does
    /\ todo' = <<Do("truncate", <<"fuzzer_stats">>), Do("stats", <<"fuzzer_stats">>)>>
    /\ UNCHANGED <<disk, session, finds, starts, history>>

Advance ==
    /\ Idle
    /\ "position" \in scenario.does
    /\ current' = (current + 1) % Len(mem)
    /\ UNCHANGED <<disk, todo, session, finds, starts, history, seekTo, statsPos, cited, sought>>

Execute == \/ Clear \/ Rmdir \/ Mkdir \/ RenameQueue \/ Backup \/ Unlink \/ Create \/ Write
           \/ Link \/ ReadTestcases
Fuzz == SaveEntry \/ SaveCrash \/ TrimCase \/ MarkAsDetDone \/ UpdateStats

DNext ==
    /\ \/ Start /\ cited' = (IF running' THEN Empty ELSE cited) /\ UNCHANGED <<current, seekTo, statsPos, sought>>
       \/ (StartInPlace \/ Kill \/ Execute \/ Fuzz) /\ UNCHANGED position
       \/ FindStartPosition \/ WriteStats \/ EnterQueue \/ Advance
    /\ UNCHANGED scenario

DSpec == DInit /\ [][DNext]_dvars

-----------------------------------------------------------------------------
(* Properties. *)

(* An input the fuzzer found and wrote to queue/ is never lost, whatever the  *)
(* moment a session dies and however often it is resumed, until a fresh      *)
(* session gives it up; except at two moments: while trim_case replaces the  *)
(* file, and while nuke_resume_dir deletes _resume, because the next resume  *)
(* then prefers what is left of _resume to the complete queue.  And a _resume *)
(* that a fresh session did not remove is preferred to its queue.  Crashes    *)
(* are moved aside by a resume, never deleted.                              *)
OnlyKnownLosses ==
    /\ \A i \in saved : i \in Holds(Queue) \cup Holds(Resume) \cup Trimmed \cup atRisk
    /\ \A i \in filed : i \in Holds(Crashes) \cup backups

(* No moment of death leaves a directory that a later start can neither clean *)
(* nor rebuild, and a resume gives up for want of inputs only when every find *)
(* written to queue/ was endangered.  Only statistics without contents keep   *)
(* every later start out, as malformed; and there is one moment of death that *)
(* leaves them so: in write_stats_file, between truncating and writing.       *)
StartsAgain ==
    /\ fatal \notin {"clean-up", "mkdir", "create"}
    /\ fatal = "no inputs" => saved \subseteq atRisk
    /\ fatal = "malformed" => stats = "empty"
    /\ running /\ stats = "empty" => Does("stats")

(* A resume restores the queue as it was: every find under its old number     *)
(* (finds are numbered in the order they are found), and marked as done with *)
(* the deterministic stages if it was.  Fuzzing goes on with the input that  *)
(* the statistics named when the last session died.                         *)
ResumeRestores ==
    /\ (Does("enter") /\ atRisk = {} /\ ~stale /\ sought # Empty) => mem[seekTo + 1].input = sought
    /\ (Idle /\ atRisk = {} /\ ~stale) =>
        /\ saved \subseteq Holds(Queue)
        /\ \A f, g \in In(Queue) : f.id < g.id => f.input < g.input
        /\ {f.id : f \in In(Queue)} = 0 .. Len(mem) - 1
        /\ \A f \in In(Queue) : Exists(DetDone(Queue), f.id) <=> f.input \in marked

(* Types. *)
DTypeOK ==
    /\ \A d \in dirs : d = << >> \/ Front(d) \in dirs
    /\ \A f \in files : f.dir \in dirs /\ f.id \in NoId .. finds /\ f.input \in Empty .. finds
    /\ \A f, g \in files : f.dir = g.dir /\ f.id = g.id => f = g
    /\ stats \in {"none", "empty", "little", "much"}
    /\ fatal \in {"none", "no directory", "malformed", "much at stake", "no inputs",
                  "clean-up", "mkdir", "create"}
    /\ Len(mem) <= finds + 1 /\ crashes <= finds
    /\ Idle => current < Len(mem)

=============================================================================
