-------------------------- MODULE CompletionJournal -------------------------
(***************************************************************************)
(* completion_journal.c on a file system: the store of a DONE frame as its *)
(* sequence of system calls, with calls that fail, a process that is       *)
(* killed between any two of them, and a machine that loses what was not   *)
(* synchronised.  All frames are for one record name; they differ in what  *)
(* the name does not bind (digest, item count).  A restarted process may   *)
(* get its predecessor's process id, so that only the counter tells their  *)
(* temporary names apart.                                                  *)
(***************************************************************************)
EXTENDS Naturals

CONSTANTS Frames,     \* well-formed DONE frames of the record
          NoFrame,
          MaxCalls,   \* bound: stores started by one process
          MaxFaults   \* bound: failed system calls and crashes

ASSUME JournalAssumption == NoFrame \notin Frames /\ MaxCalls \in Nat /\ MaxFaults \in Nat

VARIABLES target,     \* the record's file
          linkSynced, \* whether the directory entry of the record is on disk
          temps,      \* the temporary files, by counter
          counter,    \* temporary_counter of the process
          call,       \* the store in progress
          stored,     \* the frames whose store returned RLC_OK
          faults

vars == <<target, linkSynced, temps, counter, call, stored, faults>>

Counter == 1 .. MaxCalls

\* A file's frame and how much of it is there: partly written, written, on disk.
NoFile == [frame |-> NoFrame, data |-> "none"]
File == [frame : Frames, data : {"partial", "written", "synced"}] \cup {NoFile}
NoCall == [pc |-> "idle", frame |-> NoFrame, ok |-> FALSE]
Call == [pc : {"write", "sync", "link", "syncdir"}, frame : Frames, ok : {FALSE}]
          \cup [pc : {"unlink"}, frame : Frames, ok : BOOLEAN] \cup {NoCall}

TypeOK ==
    /\ target \in File
    /\ linkSynced \in BOOLEAN
    /\ temps \in [Counter -> File]
    /\ counter \in 0 .. MaxCalls
    /\ call \in Call
    /\ stored \in SUBSET Frames
    /\ faults \in 0 .. MaxFaults

Init ==
    /\ target = NoFile /\ linkSynced = FALSE
    /\ temps = [c \in Counter |-> NoFile]
    /\ counter = 0 /\ call = NoCall /\ stored = {} /\ faults = MaxFaults

At(pc) == call.pc = pc
Goto(pc) == call' = [call EXCEPT !.pc = pc]
SetTemp(file) == temps' = [temps EXCEPT ![counter] = file]

\* A system call succeeds, or fails and the store goes to its cleanup.
Fails == faults > 0 /\ faults' = faults - 1 /\ Goto("unlink")

-----------------------------------------------------------------------------
\* The temporary name is created exclusively; if it exists the store returns.
StoreBegin(f) ==
    /\ At("idle") /\ counter < MaxCalls
    /\ counter' = counter + 1
    /\ IF temps[counter + 1] = NoFile
         THEN /\ temps' = [temps EXCEPT ![counter + 1] = [frame |-> f, data |-> "partial"]]
              /\ call' = [pc |-> "write", frame |-> f, ok |-> FALSE]
         ELSE UNCHANGED <<temps, call>>
    /\ UNCHANGED <<target, linkSynced, stored, faults>>

WriteAll ==
    /\ At("write")
    /\ \/ SetTemp([frame |-> call.frame, data |-> "written"]) /\ Goto("sync") /\ UNCHANGED faults
       \/ Fails /\ UNCHANGED temps
    /\ UNCHANGED <<target, linkSynced, counter, stored>>

\* Mutant: the frame is linked without having been synchronised.
SyncFileSkipped ==
    /\ At("sync") /\ Goto("link")
    /\ UNCHANGED <<target, linkSynced, temps, counter, stored, faults>>

SyncFile ==
    /\ At("sync")
    /\ \/ SetTemp([frame |-> call.frame, data |-> "synced"]) /\ Goto("link") /\ UNCHANGED faults
       \/ Fails /\ UNCHANGED temps
    /\ UNCHANGED <<target, linkSynced, counter, stored>>

\* bench_completion_journal_load with the whole frame compared.
SameRecord == target.data # "partial" /\ target.frame = call.frame

\* Mutant: status is set once the record is linked.
LinkReports ==
    /\ At("link") /\ target = NoFile
    /\ target' = temps[counter] /\ linkSynced' = FALSE
    /\ call' = [call EXCEPT !.pc = "syncdir", !.ok = TRUE]
    /\ UNCHANGED <<temps, counter, stored, faults>>

\* Mutant: an identical record that is already there needs no synchronisation.
LinkExistingDone ==
    /\ At("link")
    /\ IF target = NoFile
         THEN target' = temps[counter] /\ linkSynced' = FALSE /\ Goto("syncdir")
         ELSE /\ call' = [call EXCEPT !.pc = "unlink", !.ok = SameRecord]
              /\ UNCHANGED <<target, linkSynced>>
    /\ UNCHANGED <<temps, counter, stored, faults>>

\* link is atomic; when the name exists the record must be the same.
Link ==
    /\ At("link")
    /\ \/ /\ target = NoFile
          /\ target' = temps[counter] /\ linkSynced' = FALSE
          /\ Goto("syncdir") /\ UNCHANGED faults
       \/ /\ target # NoFile
          /\ Goto(IF SameRecord THEN "syncdir" ELSE "unlink")
          /\ UNCHANGED <<target, linkSynced, faults>>
       \/ Fails /\ UNCHANGED <<target, linkSynced>>
    /\ UNCHANGED <<temps, counter, stored>>

SyncDirectory ==
    /\ At("syncdir")
    /\ \/ /\ linkSynced' = TRUE /\ UNCHANGED faults
          /\ call' = [pc |-> "unlink", frame |-> call.frame, ok |-> TRUE]
       \/ Fails /\ UNCHANGED linkSynced
    /\ UNCHANGED <<target, temps, counter, stored>>

\* The cleanup, whatever happened; its own errors are ignored.
Unlink ==
    /\ At("unlink")
    /\ SetTemp(NoFile)
    /\ stored' = IF call.ok THEN stored \cup {call.frame} ELSE stored
    /\ call' = NoCall
    /\ UNCHANGED <<target, linkSynced, counter, faults>>

-----------------------------------------------------------------------------
\* A new process, with the files as the old one left them: it meets the old
\* temporary names only if it also got the old process id.
Restarted(left) == call' = NoCall /\ counter' = 0 /\ temps' \in {left, [c \in Counter |-> NoFile]}

Killed ==
    /\ faults > 0 /\ faults' = faults - 1
    /\ Restarted(temps)
    /\ UNCHANGED <<target, linkSynced, stored>>

\* Unsynchronised data is torn, unsynchronised names are there or not.
Torn(file) == IF file.data = "synced" \/ file = NoFile THEN file ELSE [file EXCEPT !.data = "partial"]

PowerLoss ==
    /\ faults > 0 /\ faults' = faults - 1
    /\ \/ target' = Torn(target) /\ linkSynced' = (target # NoFile)
       \/ ~ linkSynced /\ target' = NoFile /\ UNCHANGED linkSynced
    /\ \E lost \in SUBSET Counter :
         Restarted([c \in Counter |-> IF c \in lost THEN NoFile ELSE Torn(temps[c])])
    /\ UNCHANGED stored

Next ==
    \/ \E f \in Frames : StoreBegin(f)
    \/ WriteAll \/ SyncFile \/ Link \/ SyncDirectory \/ Unlink
    \/ Killed \/ PowerLoss

Spec == Init /\ [][Next]_vars
-----------------------------------------------------------------------------
(* A reader never finds a torn record under the record's name, whatever
   failed and whenever the machine stopped: load would refuse it and no store
   could ever replace it. *)
RecordWhole == target # NoFile => target.data = "synced"

(* The journal implements CompletionRecord: a stored record survives every
   later crash and is never replaced, a conflicting frame is never reported as
   stored, and a store that failed after the link is completed by the next. *)
Record == INSTANCE CompletionRecord WITH record <- target.frame

StoredForGood == Record!RecordSpec
=============================================================================
