--------------------------- MODULE CompletionRecord -------------------------
(***************************************************************************)
(* What the completion journal promises for one (pair, execution, SID): a  *)
(* record appears whole and never changes; as long as nobody was told that *)
(* it is stored a crash may still take it away, and afterwards nothing     *)
(* does.                                                                   *)
(***************************************************************************)
CONSTANTS Frames,   \* the DONE frames of the key
          NoFrame

VARIABLES record,   \* the frame a reader finds, or NoFrame
          stored    \* the frames whose store was reported successful

recordVars == <<record, stored>>

RecordInit == record = NoFrame /\ stored = {}

Appear(f) == record = NoFrame /\ record' = f /\ UNCHANGED stored

Report == record # NoFrame /\ stored' = {record} /\ UNCHANGED record

Vanish == stored = {} /\ record' = NoFrame /\ UNCHANGED stored

RecordNext == (\E f \in Frames : Appear(f)) \/ Report \/ Vanish

RecordSpec == RecordInit /\ [][RecordNext]_recordVars
=============================================================================
