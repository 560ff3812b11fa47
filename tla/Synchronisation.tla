---------------------------- MODULE Synchronisation ----------------------------
(***************************************************************************)
(* sync_fuzzers: another instance, the peer, takes over the inputs of the    *)
(* one that owns the output directory, while that one goes on fuzzing, dies, *)
(* and is resumed.  The peer remembers in a file how far it got.            *)
(*                                                                         *)
(* The peer holds the directory open by its identity but opens the files in *)
(* it by their paths.  readdir returns the entries in any order, those made *)
(* meanwhile or not.                                                        *)
(***************************************************************************)
EXTENDS OutputDirectory

VARIABLES
    minAccept,          \* the number in .synced/<owner>
    nextMinAccept,      \* next_min_accept
    handle,             \* where the directory is now that was opened as queue
    due,                \* the numbers it has held ever since it was opened
    looked,             \* the numbers readdir has returned
    case,               \* syncing_case, not opened yet
    tried,              \* history: the inputs the peer has run
    passedBy,           \* history: numbers it could not open, found empty or overlooked
    again               \* history: the owner was started afresh over old work

pass == <<nextMinAccept, handle, due, looked, case>>
svars == <<dvars, minAccept, pass, tried, passedBy, again>>

None == -1
Larger(a, b) == IF a > b THEN a ELSE b

Init ==
    /\ DInit
    /\ minAccept = 0
    /\ nextMinAccept = 0 /\ handle = "none" /\ due = {} /\ looked = {} /\ case = None
    /\ tried = {} /\ passedBy = {} /\ again = FALSE

Numbers(d) == {f.id : f \in In(d)} \ {NoId}
Contents == CASE handle = "queue" -> Numbers(Queue)
              [] handle = "_resume" -> Numbers(Resume)
              [] OTHER -> {}

(* opendir, and the file that says how far the last pass got *)
OpenQueue ==
    /\ scenario.peer
    /\ handle = "none"
    /\ Queue \in dirs
    /\ handle' = "queue"
    /\ nextMinAccept' = minAccept
    /\ due' = Numbers(Queue)
    /\ looked' = {}
    /\ UNCHANGED <<dvars, minAccept, case, tried, passedBy, again>>

\* fault: what was accepted in this pass already moves the limit
AcceptedInOrder(id) == id >= nextMinAccept
Accepted(id) == id >= minAccept

ReadEntry ==
    /\ handle # "none"
    /\ case = None
    /\ \E id \in Contents \ looked :
         /\ looked' = looked \cup {id}
         /\ IF Accepted(id)
            THEN case' = id /\ nextMinAccept' = Larger(nextMinAccept, id + 1)
            ELSE UNCHANGED <<case, nextMinAccept>>
    /\ UNCHANGED <<dvars, minAccept, handle, due, tried, passedBy, again>>

(* open and fstat; the input is run unless there is none *)
TryCase ==
    /\ case # None
    /\ LET found == {f \in In(Queue) : f.id = case /\ f.input # Empty} IN
       /\ tried' = tried \cup {f.input : f \in found}
       /\ passedBy' = IF found = {} THEN passedBy \cup {case} ELSE passedBy
    /\ case' = None
    /\ UNCHANGED <<dvars, minAccept, nextMinAccept, handle, due, looked, again>>

Closes == handle' = "none" /\ due' = {} /\ looked' = {} /\ nextMinAccept' = 0

(* Entries readdir need not have returned: those that appeared, again or for  *)
(* the first time, after the directory was opened, and all once it moved.   *)
Overlooked == {id \in minAccept .. nextMinAccept - 1 : id \notin looked /\ (id \notin due \/ handle # "queue")}

CloseQueue ==
    /\ handle # "none"
    /\ case = None
    /\ due \subseteq looked
    /\ minAccept' = nextMinAccept
    /\ passedBy' = passedBy \cup Overlooked
    /\ Closes
    /\ UNCHANGED <<dvars, case, tried, again>>

(* The peer is stopped, in the run of an input or elsewhere: what it had      *)
(* accepted is not written down.                                            *)
StopPeer ==
    /\ handle # "none"
    /\ Closes
    /\ case' = None
    /\ UNCHANGED <<dvars, minAccept, tried, passedBy, again>>

(* The owner's steps, and what they do to the directory the peer holds open. *)
Followed ==
    CASE handle = "queue" /\ Queue \notin dirs' ->
            IF RenameQueue THEN "_resume" ELSE "gone"
      [] handle = "_resume" /\ (Resume \notin dirs' \/ (Queue \in dirs /\ Queue \notin dirs' /\ RenameQueue)) -> "gone"
      [] OTHER -> handle

Owner ==
    /\ DNext
    /\ handle' = Followed
    /\ due' = due \cap Contents'
    /\ again' = (again \/ (<< >> \in dirs /\ ~running /\ running' /\ ~inPlace'))
    /\ UNCHANGED <<minAccept, nextMinAccept, looked, case, tried, passedBy>>

Peer == OpenQueue \/ ReadEntry \/ TryCase \/ CloseQueue \/ StopPeer

Next == Owner \/ Peer

Spec == Init /\ [][Next]_svars

-----------------------------------------------------------------------------
(* Properties. *)

(* Through resumes of the owner, and stops of the peer, every input of the     *)
(* owner's queue that the peer will not look at again has been run by it, or *)
(* was passed by because it could not be opened, was still empty, or came and *)
(* went while the peer read the directory; as long as the numbers keep their *)
(* meaning, that is, no input was lost and the owner not started afresh.     *)
SyncMissesNothing ==
    (atRisk = {} /\ ~stale /\ ~again) =>
        \A f \in In(Queue) : f.id < minAccept /\ f.input # Empty => f.input \in tried \/ f.id \in passedBy

TypeOK ==
    /\ DTypeOK
    /\ minAccept \in 0 .. finds + 1 /\ nextMinAccept \in 0 .. finds + 1
    /\ handle \in {"none", "queue", "_resume", "gone"}
    /\ tried \subseteq 0 .. finds
    /\ (handle = "none" => case = None) /\ case < nextMinAccept

=============================================================================
