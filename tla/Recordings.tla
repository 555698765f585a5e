----------------------------- MODULE Recordings -----------------------------
(***************************************************************************)
(* The filesystem recording store (smiths-core storage.rs) and the         *)
(* retention sweeper (smiths-cli retention.rs).                            *)
(*                                                                         *)
(* A recording is two files: the audio, and the .cid file that makes it    *)
(* listed.  Puts, deletes and the hourly sweep run concurrently on the     *)
(* blocking pool without a lock, file operations fail, and the process may *)
(* die between any two of them.  Temporary files have a suffix that no     *)
(* reader looks at and are left out.                                       *)
(***************************************************************************)
EXTENDS Integers, FiniteSets

CONSTANTS
    Recorded,      \* call ids
    Recorders,       \* tasks storing a recording
    MaxPuts,       \* bound: puts
    MaxDeletes,    \* bound: deletes
    MaxRecorderCrashes,    \* bound: crashes of the process
    MaxIoFailures  \* bound: file operations that fail

ASSUME RecordingsAssumption == {MaxPuts, MaxDeletes, MaxRecorderCrashes, MaxIoFailures} \subseteq Nat

VARIABLES
    wav,      \* the audio file of each call: 0 none, k the k-th put
    old,      \* whether its mtime is past the retention
    cid,      \* calls with a .cid file
    putter,   \* puts under way
    deleter,  \* the delete under way
    sweeper,  \* the sweep: the entries it still has to visit, and the one it is at
    retaining, \* whether retention_days is set, and there is a sweeper; not so by default
    removed,  \* calls some removal has ever taken the audio of
    putsMade, deletes, crashed, ioFailures

recordingVars == <<wav, old, cid, putter, deleter, sweeper, retaining, removed, putsMade, deletes, crashed, ioFailures>>

Off == [at |-> "idle"]

RecordingInit ==
    /\ wav = [c \in Recorded |-> 0] /\ old = {} /\ cid = {}
    /\ putter = [p \in Recorders |-> Off] /\ deleter = Off /\ sweeper = Off
    /\ retaining = FALSE
    /\ removed = {} /\ putsMade = 0 /\ deletes = 0 /\ crashed = 0 /\ ioFailures = 0

(* put: the audio goes to a temporary file. *)
BeginPut(p, c) ==
    /\ putter[p].at = "idle" /\ putsMade < MaxPuts
    /\ putsMade' = putsMade + 1
    /\ putter' = [putter EXCEPT ![p] = [at |-> "blob", call |-> c, audio |-> putsMade + 1]]
    /\ UNCHANGED <<wav, old, cid, deleter, sweeper, retaining, removed, deletes, crashed, ioFailures>>

(* write_atomic: the finished temporary file is renamed over the audio. *)
WriteBlob(p) ==
    /\ putter[p].at = "blob"
    /\ wav' = [wav EXCEPT ![putter[p].call] = putter[p].audio]
    /\ old' = old \ {putter[p].call}
    /\ putter' = [putter EXCEPT ![p].at = "meta"]
    /\ UNCHANGED <<cid, deleter, sweeper, retaining, removed, putsMade, deletes, crashed, ioFailures>>

WriteMeta(p) ==
    /\ putter[p].at = "meta"
    /\ cid' = cid \cup {putter[p].call}
    /\ putter' = [putter EXCEPT ![p] = Off]
    /\ UNCHANGED <<wav, old, deleter, sweeper, retaining, removed, putsMade, deletes, crashed, ioFailures>>

(* A failing write removes its temporary file and ends the put. *)
PutFails(p) ==
    /\ putter[p].at # "idle" /\ ioFailures < MaxIoFailures
    /\ ioFailures' = ioFailures + 1
    /\ putter' = [putter EXCEPT ![p] = Off]
    /\ UNCHANGED <<wav, old, cid, deleter, sweeper, retaining, removed, putsMade, deletes, crashed>>

-----------------------------------------------------------------------------
(* delete: whether the audio is there, the audio, then the .cid file. *)
BeginDelete(c) ==
    /\ deleter.at = "idle" /\ deletes < MaxDeletes
    /\ deletes' = deletes + 1
    /\ deleter' = [at |-> IF wav[c] # 0 THEN "blob" ELSE "meta", call |-> c]
    /\ UNCHANGED <<wav, old, cid, putter, sweeper, retaining, removed, putsMade, crashed, ioFailures>>

(* A file operation may fail; what follows goes on, or returns the error. *)
IoFails == ioFailures < MaxIoFailures /\ ioFailures' = ioFailures + 1

DeleteBlob ==
    /\ deleter.at = "blob"
    /\ \/ /\ wav' = [wav EXCEPT ![deleter.call] = 0]
          /\ old' = old \ {deleter.call}
          /\ removed' = removed \cup {deleter.call}
          /\ deleter' = IF wav[deleter.call] # 0 THEN [deleter EXCEPT !.at = "meta"] ELSE Off
          /\ UNCHANGED ioFailures
       \/ IoFails /\ deleter' = Off /\ UNCHANGED <<wav, old, removed>>
    /\ UNCHANGED <<cid, putter, sweeper, retaining, putsMade, deletes, crashed>>

(* The .cid file of a call is removed; a failure is ignored. *)
Unlist(c) ==
    \/ cid' = cid \ {c} /\ UNCHANGED ioFailures
    \/ IoFails /\ UNCHANGED cid

DeleteMeta ==
    /\ deleter.at = "meta"
    /\ Unlist(deleter.call)
    /\ deleter' = Off
    /\ UNCHANGED <<wav, old, putter, sweeper, retaining, removed, putsMade, deletes, crashed>>

-----------------------------------------------------------------------------
SweepEntriesMut == cid \cap {c \in Recorded : wav[c] # 0}

(* prune_older_than goes through the audio files. *)
SweepEntries == {c \in Recorded : wav[c] # 0}

(* The hourly tick; nothing starts while a sweep runs, or without retention_days. *)
BeginSweep ==
    /\ retaining /\ sweeper.at = "idle" /\ SweepEntries # {}
    /\ sweeper' = [at |-> "scan", left |-> SweepEntries]
    /\ UNCHANGED <<wav, old, cid, putter, deleter, retaining, removed, putsMade, deletes, crashed, ioFailures>>

(* The mtime is read before the file is removed. *)
SweepLooks ==
    /\ sweeper.at = "scan"
    /\ \/ sweeper.left = {} /\ sweeper' = Off
       \/ \E c \in sweeper.left :
            sweeper' = IF wav[c] # 0 /\ c \in old
                       THEN [at |-> "blob", left |-> sweeper.left \ {c}, call |-> c]
                       ELSE [at |-> "scan", left |-> sweeper.left \ {c}]
    /\ UNCHANGED <<wav, old, cid, putter, deleter, retaining, removed, putsMade, deletes, crashed, ioFailures>>

SweepBlob ==
    /\ sweeper.at = "blob"
    /\ \/ /\ wav' = [wav EXCEPT ![sweeper.call] = 0]
          /\ old' = old \ {sweeper.call}
          /\ removed' = removed \cup {sweeper.call}
          /\ UNCHANGED ioFailures
       \/ IoFails /\ UNCHANGED <<wav, old, removed>>
    /\ sweeper' = [sweeper EXCEPT !.at = "meta"]
    /\ UNCHANGED <<cid, putter, deleter, retaining, putsMade, deletes, crashed>>

SweepMeta ==
    /\ sweeper.at = "meta"
    /\ Unlist(sweeper.call)
    /\ sweeper' = [at |-> "scan", left |-> sweeper.left]
    /\ UNCHANGED <<wav, old, putter, deleter, retaining, removed, putsMade, deletes, crashed>>

-----------------------------------------------------------------------------
Age(c) ==
    /\ wav[c] # 0 /\ c \notin old
    /\ old' = old \cup {c}
    /\ UNCHANGED <<wav, cid, putter, deleter, sweeper, retaining, removed, putsMade, deletes, crashed, ioFailures>>

(* A crash and the next boot, perhaps with another configuration. *)
CrashRecorder ==
    /\ crashed < MaxRecorderCrashes
    /\ crashed' = crashed + 1
    /\ putter' = [p \in Recorders |-> Off] /\ deleter' = Off /\ sweeper' = Off
    /\ retaining' \in BOOLEAN
    /\ UNCHANGED <<wav, old, cid, removed, putsMade, deletes, ioFailures>>

RecordingNext ==
    \/ CrashRecorder \/ DeleteBlob \/ DeleteMeta
    \/ BeginSweep \/ SweepLooks \/ SweepBlob \/ SweepMeta
    \/ \E c \in Recorded : BeginDelete(c) \/ Age(c)
    \/ \E p \in Recorders :
         \/ WriteBlob(p) \/ WriteMeta(p) \/ PutFails(p)
         \/ \E c \in Recorded : BeginPut(p, c)

SweeperSteps == BeginSweep \/ SweepLooks \/ SweepBlob \/ SweepMeta
DeleterSteps == DeleteBlob \/ DeleteMeta
RecorderSteps(p) == WriteBlob(p) \/ WriteMeta(p)

(* Blocking tasks run on, files age, and the sweeper's ticker ticks. *)
RecordingFairness ==
    /\ WF_recordingVars(SweeperSteps) /\ WF_recordingVars(DeleterSteps)
    /\ \A c \in Recorded : WF_recordingVars(Age(c))
    /\ \A p \in Recorders : WF_recordingVars(RecorderSteps(p))

RecordingSpec == RecordingInit /\ [][RecordingNext]_recordingVars /\ RecordingFairness

-----------------------------------------------------------------------------
(* "An interrupted put leaves at worst an unlisted blob, never a listed id *)
(* without audio": a listed call has its audio unless a removal took it    *)
(* (put writes the audio before the .cid file; storage.rs).                *)
ListedHasAudio == \A c \in cid : wav[c] # 0 \/ c \in removed

(* "... an unlisted blob that the retention sweep removes": audio whose    *)
(* .cid file was never written does not stay for ever where the engine     *)
(* keeps a retention period (prune_older_than,                             *)
(* spawn_recording_retention_sweeper); without one, which is the default,  *)
(* there is no sweep and it stays.                                         *)
OrphansSwept == \A c \in Recorded :
    (wav[c] # 0 /\ c \notin cid) ~> (wav[c] = 0 \/ c \in cid \/ ~retaining)
=============================================================================
