------------------------------- MODULE SegmentLife -------------------------------
(***************************************************************************)
(* The life of a WAL segment, as a restore relies on it: received into the *)
(* receive directory, completed there, stored in the archive, and only     *)
(* then released from the directory.  It may begin again: a segment that   *)
(* was released, or whose *.partial was taken away, can be received a      *)
(* second time.                                                            *)
(*                                                                         *)
(* Every segment leads its own life, and one step may be a step of several *)
(* of them: the end of a process cuts all its uploads short at once.       *)
(***************************************************************************)
CONSTANT Segments

VARIABLES
    dir,       \* dir[s]: absent, receiving or complete in the receive directory
    object     \* object[s]: none, torn or whole in the archive

vars == <<dir, object>>

Init ==
    /\ dir = [s \in Segments |-> "absent"]
    /\ object = [s \in Segments |-> "none"]

\* OpenWalFile: a *.partial appears.
Begin(s) == dir[s] = "absent" /\ dir'[s] = "receiving" /\ object'[s] = object[s]

\* A *.partial is removed, with an upload of it or without.
Discard(s) == dir[s] = "receiving" /\ dir'[s] = "absent" /\ object'[s] = object[s]

\* closeAndRename: the segment has its final name.
Finish(s) == dir[s] = "receiving" /\ dir'[s] = "complete" /\ object'[s] = object[s]

\* A Put of the complete segment succeeds ...
Store(s) == dir[s] = "complete" /\ dir'[s] = "complete" /\ object'[s] = "whole"

\* ... or is under way, fails or is cut short: what was there before may be gone.
Tear(s) == dir[s] = "complete" /\ dir'[s] = "complete" /\ object'[s] = "torn"

\* The file is removed after its upload.  A *.partial of the same segment may lie beside
\* it: a receiver that could not read the directory has begun it a second time.
Release(s) ==
    /\ dir[s] = "complete" /\ object[s] = "whole"
    /\ dir'[s] \in {"absent", "receiving"} /\ object'[s] = "whole"

Rest(s) == dir'[s] = dir[s] /\ object'[s] = object[s]

Next ==
    \A s \in Segments :
        Begin(s) \/ Discard(s) \/ Finish(s) \/ Store(s) \/ Tear(s) \/ Release(s) \/ Rest(s)

Spec == Init /\ [][Next]_vars

-----------------------------------------------------------------------------
\* Whole somewhere: in the directory or in the archive.
Kept == {s \in Segments : dir[s] = "complete" \/ object[s] = "whole"}

(***************************************************************************)
(* What the life cycle is for: a segment that was complete once is whole   *)
(* somewhere for ever after, at every moment of its way to the archive and *)
(* of a second upload over the first.                                      *)
(***************************************************************************)
KeptForGood == [][Kept \subseteq Kept']_vars
==================================================================================
