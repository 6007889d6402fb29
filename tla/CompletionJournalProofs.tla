----------------------- MODULE CompletionJournalProofs ----------------------
(***************************************************************************)
(* CompletionJournal for every set of frames and every number of stores    *)
(* and failures.  The inductive invariant says what each position of the   *)
(* store has established: the temporary file holds the caller's frame and  *)
(* is synchronised before it can be linked, and a report needs a           *)
(* synchronised directory entry for exactly that frame.                    *)
(***************************************************************************)
EXTENDS CompletionJournal, TLAPS

CallInv ==
    /\ call.pc # "idle" => counter \in Counter
    /\ call.pc = "sync" => temps[counter] = [frame |-> call.frame, data |-> "written"]
    /\ call.pc = "link" => temps[counter] = [frame |-> call.frame, data |-> "synced"]
    /\ call.pc = "syncdir" => target.frame = call.frame
    /\ call.ok => linkSynced /\ target.frame = call.frame

StoredInv ==
    /\ linkSynced => target # NoFile
    /\ stored # {} => linkSynced /\ stored = {target.frame}

JournalInv == TypeOK /\ CallInv /\ StoredInv /\ RecordWhole

LEMMA JournalInit == Init => JournalInv
<1> SUFFICES ASSUME Init PROVE JournalInv
    OBVIOUS
<1>1. NoFile \in File /\ NoCall \in Call BY DEF File, Call
<1>2. TypeOK
  <2>1. counter \in 0 .. MaxCalls /\ faults \in 0 .. MaxFaults
    BY JournalAssumption DEF Init
  <2>2. QED BY <1>1, <2>1 DEF Init, TypeOK
<1>3. CallInv /\ StoredInv /\ RecordWhole
  BY DEF Init, CallInv, StoredInv, RecordWhole, NoCall
<1>4. QED BY <1>2, <1>3 DEF JournalInv

\* The calls a store makes of its state keep it a call of its frame.
LEMMA CallMoves ==
  ASSUME NEW c \in Call, c.pc # "idle"
  PROVE  /\ c.frame \in Frames
         /\ [c EXCEPT !.pc = "unlink"] \in Call
         /\ [pc |-> "unlink", frame |-> c.frame, ok |-> TRUE] \in Call
         /\ c.pc # "unlink" =>
              \A pc \in {"write", "sync", "link", "syncdir"} : [c EXCEPT !.pc = pc] \in Call
         /\ \A pc : [c EXCEPT !.pc = pc].pc = pc /\ [c EXCEPT !.pc = pc].frame = c.frame
                                               /\ [c EXCEPT !.pc = pc].ok = c.ok
         /\ c.pc # "unlink" => c.ok = FALSE
<1>1. /\ c = [pc |-> c.pc, frame |-> c.frame, ok |-> c.ok]
      /\ c.pc \in {"write", "sync", "link", "syncdir", "unlink"}
      /\ c.frame \in Frames /\ c.ok \in BOOLEAN
      /\ c.pc # "unlink" => c.ok = FALSE
  <2>1. CASE c \in [pc : {"write", "sync", "link", "syncdir"}, frame : Frames, ok : {FALSE}]
    BY <2>1
  <2>2. CASE c \in [pc : {"unlink"}, frame : Frames, ok : BOOLEAN]
    BY <2>2
  <2>3. c # NoCall BY DEF NoCall
  <2>4. QED BY <2>1, <2>2, <2>3 DEF Call
<1>2. \A pc : [c EXCEPT !.pc = pc] = [pc |-> pc, frame |-> c.frame, ok |-> c.ok]
  BY <1>1
<1>3. \A ok \in BOOLEAN : [pc |-> "unlink", frame |-> c.frame, ok |-> ok] \in Call
  BY <1>1 DEF Call
<1>4. \A pc \in {"write", "sync", "link", "syncdir"} :
        [pc |-> pc, frame |-> c.frame, ok |-> FALSE] \in Call
  BY <1>1 DEF Call
<1>6. QED BY <1>1, <1>2, <1>3, <1>4

\* A temporary file keeps its frame through a power loss, or is torn.
LEMMA TornType ==
  ASSUME NEW file \in File
  PROVE  Torn(file) \in File
  BY DEF Torn, File, NoFile

LEMMA JournalStep == JournalInv /\ [Next]_vars => JournalInv'
<1> SUFFICES ASSUME JournalInv, [Next]_vars
             PROVE  JournalInv'
    OBVIOUS
<1> USE JournalAssumption DEF JournalInv, TypeOK, At, Goto, SetTemp, Fails
<1>a. NoFile \in File /\ NoCall \in Call /\ NoCall.pc = "idle" /\ NoCall.ok = FALSE
  BY DEF File, Call, NoCall
<1>b. \A f \in Frames : \A d \in {"partial", "written", "synced"} :
        [frame |-> f, data |-> d] \in File
  BY DEF File
<1>1. ASSUME NEW f \in Frames, StoreBegin(f) PROVE JournalInv'
  <2>1. counter' \in 0 .. MaxCalls /\ counter' \in Counter
    BY <1>1 DEF StoreBegin, Counter
  <2>2. temps' \in [Counter -> File]
    BY <1>1, <1>b DEF StoreBegin
  <2>3. call' \in Call
    <3>1. [pc |-> "write", frame |-> f, ok |-> FALSE] \in Call BY DEF Call
    <3>2. QED BY <1>1, <3>1 DEF StoreBegin
  <2>4. TypeOK' BY <1>1, <2>1, <2>2, <2>3 DEF StoreBegin
  <2>5. CallInv' BY <1>1, <2>1 DEF StoreBegin, CallInv, NoCall
  <2>6. (StoredInv /\ RecordWhole)' BY <1>1 DEF StoreBegin, StoredInv, RecordWhole
  <2>7. QED BY <2>4, <2>5, <2>6
<1>2. CASE WriteAll
  <2>1. call.frame \in Frames /\ call.pc = "write"
    BY <1>2, CallMoves DEF WriteAll
  <2>2. temps' \in [Counter -> File] BY <1>2, <1>b, <2>1 DEF WriteAll
  <2>3. call' \in Call BY <1>2, <2>1, CallMoves DEF WriteAll
  <2>4. TypeOK' BY <1>2, <2>2, <2>3 DEF WriteAll
  <2>5. CallInv'
    <3>1. call.ok = FALSE /\ counter \in Counter BY <2>1, CallMoves DEF CallInv
    <3>2. counter' = counter BY <1>2 DEF WriteAll
    <3>3. CASE SetTemp([frame |-> call.frame, data |-> "written"]) /\ Goto("sync")
      <4>1. temps'[counter] = [frame |-> call.frame, data |-> "written"] BY <3>1, <3>3
      <4>2. call'.pc = "sync" /\ call'.frame = call.frame /\ call'.ok = FALSE
        BY <2>1, <3>1, <3>3, CallMoves
      <4>3. QED BY <3>1, <3>2, <4>1, <4>2 DEF CallInv
    <3>4. CASE Goto("unlink")
      <4>1. call'.pc = "unlink" /\ call'.ok = FALSE BY <2>1, <3>1, <3>4, CallMoves
      <4>2. QED BY <3>1, <3>2, <4>1 DEF CallInv
    <3>5. QED BY <1>2, <3>3, <3>4 DEF WriteAll
  <2>6. (StoredInv /\ RecordWhole)' BY <1>2 DEF WriteAll, StoredInv, RecordWhole
  <2>7. QED BY <2>4, <2>5, <2>6
<1>3. CASE SyncFile
  <2>1. call.frame \in Frames /\ call.pc = "sync"
    BY <1>3, CallMoves DEF SyncFile
  <2>2. temps' \in [Counter -> File] BY <1>3, <1>b, <2>1 DEF SyncFile
  <2>3. call' \in Call BY <1>3, <2>1, CallMoves DEF SyncFile
  <2>4. TypeOK' BY <1>3, <2>2, <2>3 DEF SyncFile
  <2>5. CallInv'
    <3>1. call.ok = FALSE /\ counter \in Counter BY <2>1, CallMoves DEF CallInv
    <3>2. counter' = counter BY <1>3 DEF SyncFile
    <3>3. CASE SetTemp([frame |-> call.frame, data |-> "synced"]) /\ Goto("link")
      <4>1. temps'[counter] = [frame |-> call.frame, data |-> "synced"] BY <3>1, <3>3
      <4>2. call'.pc = "link" /\ call'.frame = call.frame /\ call'.ok = FALSE
        BY <2>1, <3>1, <3>3, CallMoves
      <4>3. QED BY <3>1, <3>2, <4>1, <4>2 DEF CallInv
    <3>4. CASE Goto("unlink")
      <4>1. call'.pc = "unlink" /\ call'.ok = FALSE BY <2>1, <3>1, <3>4, CallMoves
      <4>2. QED BY <3>1, <3>2, <4>1 DEF CallInv
    <3>5. QED BY <1>3, <3>3, <3>4 DEF SyncFile
  <2>6. (StoredInv /\ RecordWhole)' BY <1>3 DEF SyncFile, StoredInv, RecordWhole
  <2>7. QED BY <2>4, <2>5, <2>6
<1>4. CASE Link
  <2>1. /\ call.frame \in Frames /\ call.pc = "link" /\ call.ok = FALSE
        /\ temps[counter] = [frame |-> call.frame, data |-> "synced"]
    BY <1>4, CallMoves DEF Link, CallInv
  <2>2. target' \in File /\ linkSynced' \in BOOLEAN BY <1>4, <1>b, <2>1 DEF Link
  <2>3. call' \in Call BY <1>4, <2>1, CallMoves DEF Link
  <2>4. TypeOK' BY <1>4, <2>2, <2>3 DEF Link
  <2>5. CallInv'
    <3>1. CASE target = NoFile /\ target' = temps[counter] /\ Goto("syncdir")
      BY <1>4, <2>1, <3>1, CallMoves DEF Link, CallInv
    <3>2. CASE target # NoFile /\ Goto(IF SameRecord THEN "syncdir" ELSE "unlink") /\ UNCHANGED target
      BY <1>4, <2>1, <3>2, CallMoves DEF Link, CallInv, SameRecord
    <3>3. CASE Goto("unlink")
      BY <1>4, <2>1, <3>3, CallMoves DEF Link, CallInv
    <3>4. QED BY <1>4, <3>1, <3>2, <3>3 DEF Link
  <2>6. RecordWhole' BY <1>4, <2>1 DEF Link, RecordWhole
  <2>7. StoredInv'
    <3>1. temps[counter] # NoFile BY <2>1 DEF NoFile
    <3>2. QED BY <1>4, <3>1 DEF Link, StoredInv
  <2>8. QED BY <2>4, <2>5, <2>6, <2>7
<1>5. CASE SyncDirectory
  <2>1. /\ call.frame \in Frames /\ call.pc = "syncdir" /\ call.ok = FALSE
        /\ target.frame = call.frame
    BY <1>5, CallMoves DEF SyncDirectory, CallInv
  <2>2. target # NoFile BY <2>1 DEF NoFile
  <2>3. call' \in Call BY <1>5, <2>1, CallMoves DEF SyncDirectory
  <2>4. TypeOK'
    <3>1. linkSynced' \in BOOLEAN BY <1>5 DEF SyncDirectory
    <3>2. faults' \in 0 .. MaxFaults BY <1>5 DEF SyncDirectory
    <3>3. QED BY <1>5, <2>3, <3>1, <3>2 DEF SyncDirectory
  <2>5. CallInv'
    <3>1. CASE linkSynced' = TRUE /\ call' = [pc |-> "unlink", frame |-> call.frame, ok |-> TRUE]
      BY <1>5, <2>1, <3>1, CallMoves DEF SyncDirectory, CallInv
    <3>2. CASE Goto("unlink")
      BY <1>5, <2>1, <3>2, CallMoves DEF SyncDirectory, CallInv
    <3>3. QED BY <1>5, <3>1, <3>2 DEF SyncDirectory
  <2>6. (StoredInv /\ RecordWhole)'
    BY <1>5, <2>2 DEF SyncDirectory, StoredInv, RecordWhole
  <2>7. QED BY <2>4, <2>5, <2>6
<1>6. CASE Unlink
  <2>1. call.frame \in Frames BY <1>6, CallMoves DEF Unlink
  <2>2. temps' \in [Counter -> File] BY <1>6, <1>a DEF Unlink
  <2>3. stored' \in SUBSET Frames BY <1>6, <2>1 DEF Unlink
  <2>4. TypeOK' BY <1>6, <1>a, <2>2, <2>3 DEF Unlink
  <2>5. CallInv' BY <1>6, <1>a DEF Unlink, CallInv
  <2>6. RecordWhole' BY <1>6 DEF Unlink, RecordWhole
  <2>7. StoredInv' BY <1>6 DEF Unlink, CallInv, StoredInv
  <2>8. QED BY <2>4, <2>5, <2>6, <2>7
<1>7. CASE Killed
  <2>1. temps' \in [Counter -> File] BY <1>7, <1>a DEF Killed, Restarted
  <2>2. TypeOK' BY <1>7, <1>a, <2>1 DEF Killed, Restarted
  <2>3. CallInv' BY <1>7, <1>a DEF Killed, Restarted, CallInv
  <2>4. (StoredInv /\ RecordWhole)' BY <1>7 DEF Killed, StoredInv, RecordWhole
  <2>5. QED BY <2>2, <2>3, <2>4
<1>8. CASE PowerLoss
  <2>1. target' \in File /\ linkSynced' \in BOOLEAN
    BY <1>8, <1>a, TornType DEF PowerLoss
  <2>2. temps' \in [Counter -> File]
    <3>1. PICK lost \in SUBSET Counter :
            Restarted([c \in Counter |-> IF c \in lost THEN NoFile ELSE Torn(temps[c])])
      BY <1>8 DEF PowerLoss
    <3>2. QED BY <3>1, <1>a, TornType DEF Restarted
  <2>3. call' = NoCall /\ counter' = 0 BY <1>8 DEF PowerLoss, Restarted
  <2>4. TypeOK' BY <1>8, <1>a, <2>1, <2>2, <2>3 DEF PowerLoss
  <2>5. CallInv' BY <1>a, <2>3 DEF CallInv
  <2>6. StoredInv' /\ RecordWhole'
    BY <1>8 DEF PowerLoss, StoredInv, RecordWhole, Torn
  <2>7. QED BY <2>4, <2>5, <2>6
<1>9. CASE UNCHANGED vars
  BY <1>9 DEF vars, CallInv, StoredInv, RecordWhole
<1>10. QED
  BY <1>1, <1>2, <1>3, <1>4, <1>5, <1>6, <1>7, <1>8, <1>9 DEF Next

LEMMA JournalAlways == Spec => []JournalInv
  BY JournalInit, JournalStep, PTL DEF Spec

(* Every state of the store is of its type, and the success status is set at
   the cleanup only. *)
THEOREM JournalTypeOK == Spec => []TypeOK
<1>1. JournalInv => TypeOK BY DEF JournalInv
<1>2. QED BY <1>1, JournalAlways, PTL

(* No failed call, kill or power loss leaves a torn record under the name. *)
THEOREM JournalRecordWhole == Spec => []RecordWhole
<1>1. JournalInv => RecordWhole BY DEF JournalInv
<1>2. QED BY <1>1, JournalAlways, PTL

(* The system calls implement CompletionRecord: what was once reported as
   stored is never lost, replaced or contradicted. *)
THEOREM JournalStoredForGood == Spec => StoredForGood
<1>1. Init => Record!RecordInit
  BY DEF Init, Record!RecordInit, NoFile
<1>2. JournalInv /\ [Next]_vars => [Record!RecordNext]_(Record!recordVars)
  <2> SUFFICES ASSUME JournalInv, [Next]_vars
               PROVE  Record!RecordNext \/ UNCHANGED Record!recordVars
      OBVIOUS
  <2> USE DEF Record!recordVars
  <2>1. CASE (\E f \in Frames : StoreBegin(f)) \/ WriteAll \/ SyncFile \/ SyncDirectory
    BY <2>1 DEF StoreBegin, WriteAll, SyncFile, SyncDirectory
  <2>2. CASE Link
    <3>1. CASE target = NoFile /\ target' = temps[counter] /\ UNCHANGED stored
      <4>1. call \in Call /\ call.pc = "link"
        BY <2>2 DEF Link, At, JournalInv, TypeOK
      <4>2. temps[counter] = [frame |-> call.frame, data |-> "synced"] /\ call.frame \in Frames
        BY <4>1, CallMoves DEF JournalInv, CallInv
      <4>3. target'.frame \in Frames /\ target.frame = NoFrame
        BY <3>1, <4>2 DEF NoFile
      <4>4. QED BY <3>1, <4>3 DEF Record!RecordNext, Record!Appear
    <3>2. CASE UNCHANGED <<target, stored>> BY <3>2
    <3>3. QED BY <2>2, <3>1, <3>2 DEF Link
  <2>3. CASE Unlink
    <3>1. CASE call.ok
      <4>1. target.frame = call.frame /\ target # NoFile
        BY <3>1 DEF JournalInv, CallInv, StoredInv
      <4>2. target.frame # NoFrame
        BY <4>1, JournalAssumption DEF JournalInv, TypeOK, File
      <4>3. stored' = {target.frame} /\ UNCHANGED target
        BY <2>3, <3>1, <4>1 DEF Unlink, JournalInv, StoredInv
      <4>4. QED BY <4>2, <4>3 DEF Record!RecordNext, Record!Report
    <3>2. CASE ~ call.ok BY <2>3, <3>2 DEF Unlink
    <3>3. QED BY <3>1, <3>2
  <2>4. CASE Killed BY <2>4 DEF Killed
  <2>5. CASE PowerLoss
    <3>1. CASE target' = Torn(target)
      BY <2>5, <3>1 DEF PowerLoss, Torn, JournalInv, TypeOK, File
    <3>2. CASE ~ linkSynced /\ target' = NoFile
      BY <2>5, <3>2 DEF PowerLoss, NoFile, JournalInv, StoredInv, Record!RecordNext, Record!Vanish
    <3>3. QED BY <2>5, <3>1, <3>2 DEF PowerLoss
  <2>6. CASE UNCHANGED vars BY <2>6 DEF vars
  <2>7. QED BY <2>1, <2>2, <2>3, <2>4, <2>5, <2>6 DEF Next
<1>3. QED
  BY <1>1, <1>2, JournalAlways, PTL DEF Spec, StoredForGood, Record!RecordSpec
=============================================================================
