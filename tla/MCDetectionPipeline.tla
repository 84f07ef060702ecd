------------------------- MODULE MCDetectionPipeline -------------------------
(***************************************************************************)
(* Instances of DetectionPipeline for TLC.                                 *)
(***************************************************************************)
EXTENDS DetectionPipeline, TLC

Symmetry ==
    Permutations(Handlers) \union Permutations(Runs) \union Permutations(Packs)
       \union Permutations(Inodes)

(***************************************************************************)
(* What the runs over the state file tell apart: not the two history       *)
(* variables of SnapshotFile, which no step and no property of these runs  *)
(* reads, and not the bytes of an inode that has neither a name nor an     *)
(* open file, which no step can read again.                                *)
(***************************************************************************)
Live == {i \in Inodes : i \in {path, tmp} \/ \E r \in Handlers : fd[r] = i}
View == <<mem, h, rd, up, faults, hist, path, tmp, fpc, snap, fd,
          [i \in Live |-> data[i]]>>
==============================================================================
