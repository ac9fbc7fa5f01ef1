---------------------------- MODULE PublishedJob ----------------------------
(***************************************************************************)
(* What the archive promises to whoever reads the published job file of a  *)
(* repository: a status, the attempts each file has spent and the files    *)
(* confirmed by a read-back, for one revision at a time.  Nothing is said  *)
(* of who publishes, of checkouts, runs, sweeps or objects.                *)
(***************************************************************************)
EXTENDS Naturals

CONSTANTS File,   \* the files of a revision
          Budget  \* failed attempts a file survives

VARIABLES revision,   \* the revision being archived (0: none yet)
          status,     \* its published status
          spent,      \* failed attempts of each file
          confirmed   \* the files whose bytes were read back and found right

vars == <<revision, status, spent, confirmed>>

Final == {"verified", "failed"}

Init ==
    /\ revision = 0
    /\ status = "none"
    /\ spent = [f \in File |-> 0]
    /\ confirmed = {}

\* A new revision starts over; one that is too large is given up at once.
Plan ==
    /\ revision' = revision + 1
    /\ status' \in {"planned", "failed"}
    /\ spent' = [f \in File |-> 0]
    /\ confirmed' = {}

\* Until the status is final, files gain and lose confirmations; a file never
\* gets an attempt back, and one publication charges it one at most.  The status
\* says verified when every file is confirmed and failed when one has overspent.
Progress ==
    /\ status \notin Final \cup {"none"}
    /\ spent' \in [File -> 0 .. Budget + 1]
    /\ \A f \in File : spent'[f] \in {spent[f], spent[f] + 1}
    /\ confirmed' \in SUBSET File
    /\ status' \in {"uploading", "verifying", "verified", "failed"}
    /\ status' = "failed" <=> \E f \in File : spent'[f] > Budget
    /\ status' = "verified" => confirmed' = File
    /\ confirmed' = File => status' \in Final
    /\ UNCHANGED revision

Next == Plan \/ Progress

Spec == Init /\ [][Next]_vars
=============================================================================
