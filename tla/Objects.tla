------------------------------ MODULE Objects ------------------------------
(***************************************************************************)
(* The objects of a repository, in the R2 bucket or copied to a drive, as  *)
(* a size check and a hash check see them.  All revisions of a repository  *)
(* share one prefix: an object is found by its path alone.                 *)
(***************************************************************************)
EXTENDS Naturals

CONSTANTS Path,      \* every file path a plan may name
          Lfs,       \* the paths with a declared SHA256 (LFS files)
          MaxRev,    \* bound: revisions the model repository publishes
          SameSize,  \* paths whose size is the same in every revision
          NoObject   \* a key, or a place on the drive, that holds nothing

Revisions == 1 .. MaxRev

\* What the bytes of an object are: the whole file of a revision, fewer
\* bytes, or other bytes of the same length.
Object == [rev: Revisions, kind: {"whole", "short", "corrupt"}]

ASSUME ObjectsAssumption ==
    /\ Lfs \subseteq Path
    /\ MaxRev \in Nat \ {0}
    /\ SameSize \subseteq Path
    /\ NoObject \notin Object

-----------------------------------------------------------------------------
(* An object, as a job planned for revision v sees it                      *)

SizeMatches(obj, p, v) ==
    /\ obj # NoObject
    /\ obj.kind # "short"
    /\ obj.rev = v \/ p \in SameSize

Intact(obj, v) == obj # NoObject /\ obj.kind = "whole" /\ obj.rev = v

\* What hashing the object against the declared metadata concludes.
HashMatches(obj, p, v) == SizeMatches(obj, p, v) /\ (p \in Lfs => Intact(obj, v))
=============================================================================
