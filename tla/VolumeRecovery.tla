--------------------------- MODULE VolumeRecovery ---------------------------
(***************************************************************************)
(* DEFRAG on a volume, then SCANDISK to repair it and SCANDISK again to    *)
(* check it: the sequence tests/test_defrag_qemu.sh runs after DEFRAG is   *)
(* cut short.  DEFRAG may be cut anywhere, and so may the repair, which is *)
(* then run again.                                                         *)
(***************************************************************************)
EXTENDS Defrag

CONSTANTS RepairModes,
          WeakClusters,   \* what may fail the surface test: a cluster, or 0 for none
          Cuts       \* how often the repairing SCANDISK may be cut short

VARIABLES mode, incoming, cursor, weak, nextName, errors, unrepaired,   \* SCANDISK
          stage,      \* "defrag", "repair", "check" or "over"
          original,   \* [sound, tree]: the volume when DEFRAG was started
          cutIn,      \* where DEFRAG was cut short
          cuts,       \* how often SCANDISK was
          repair      \* of the SCANDISK that repairs: its exit code and mode when it has
                  \* come to its end, and "leaves": it left a fault in another form

SD == INSTANCE ScanDisk

scanVars == <<mode, incoming, cursor, weak, nextName, errors, unrepaired>>
defragVars == <<options, allocated, movable, target, source>>
history == <<stage, original, cutIn, cuts, repair>>
vars == <<disk, queue, pc, stack, claimed, result, defragVars, scanVars, history>>

CheckMode == [fix |-> FALSE, save |-> TRUE, surface |-> FALSE]

Init ==
    /\ DefragInit
    /\ mode = CheckMode /\ incoming = {} /\ cursor = 2
    /\ nextName = [found |-> 0, chk |-> 0]
    /\ errors = FALSE /\ unrepaired = FALSE
    /\ weak \in WeakClusters
    /\ stage = "defrag" /\ original = [sound |-> Sound(disk), tree |-> View(disk)]
    /\ cutIn = "nowhere" /\ cuts = 0 /\ repair = [code |-> "none", mode |-> CheckMode, leaves |-> FALSE]

Defragment ==
    /\ stage = "defrag"
    /\ DefragNext
    /\ UNCHANGED <<scanVars, history>>

CutDefrag ==
    /\ stage = "defrag"
    /\ Stop
    /\ cutIn' = pc
    /\ UNCHANGED <<scanVars, stage, original, cuts, repair>>

\* SCANDISK is started when no program runs: to repair, until that comes to an
\* end, and then to check.
StartScan(m) ==
    /\ mode' = m
    /\ pc' = "mirrors" /\ queue' = <<>> /\ stack' = <<>> /\ result' = "none"
    /\ claimed' = {} /\ incoming' = {} /\ cursor' = 2
    /\ nextName' = [found |-> 0, chk |-> 0]
    /\ errors' = FALSE /\ unrepaired' = FALSE
    /\ allocated' = {} /\ movable' = {} /\ target' = 2 /\ source' = 2
    /\ UNCHANGED <<disk, weak, options, original, cutIn>>

StartRepair ==
    /\ result # "none"
    /\ \/ stage = "defrag" /\ cuts' = 0
       \/ stage = "repair" /\ result = "stopped" /\ UNCHANGED cuts
    /\ stage' = "repair"
    /\ repair' = [repair EXCEPT !.leaves = FALSE]
    /\ \E m \in RepairModes : StartScan(m)

StartCheck ==
    /\ stage = "repair" /\ result \notin {"none", "stopped"}
    /\ stage' = "check"
    /\ repair' = [repair EXCEPT !.code = result, !.mode = mode]
    /\ StartScan(CheckMode)
    /\ UNCHANGED cuts

Scan ==
    /\ stage \in {"repair", "check"}
    /\ SD!Progress
    /\ repair' = [repair EXCEPT !.leaves = @ \/ (stage = "repair" /\ SD!Leaves)]
    /\ UNCHANGED <<defragVars, stage, original, cutIn, cuts>>

CutScan ==
    /\ stage = "repair" /\ cuts < Cuts
    /\ SD!Stop
    /\ cuts' = cuts + 1
    /\ UNCHANGED <<defragVars, stage, original, cutIn, repair>>

Over ==
    /\ stage = "check" /\ result # "none"
    /\ stage' = "over"
    /\ UNCHANGED <<disk, queue, pc, stack, claimed, result, defragVars, scanVars,
                   original, cutIn, cuts, repair>>

Progress == Defragment \/ StartRepair \/ StartCheck \/ Scan \/ Over

\* Nothing is left to do; the system stops nowhere else.
Rest == stage = "over" /\ UNCHANGED vars

Next == Progress \/ CutDefrag \/ CutScan \/ Rest

Spec == Init /\ [][Next]_vars

-----------------------------------------------------------------------------
\* While DEFRAG relocates and compacts a sound volume, every file can be read
\* under its own name with its own data after each single sector written: the
\* copy, its chain and the slot that names it change in an order that never
\* leaves a path without its data (relocate_file, move_cluster).  Sorting is
\* apart: it writes a directory sector by sector.
Unharmed == original.sound => original.tree \subseteq View(disk)
NeverUnreadable ==
    (stage = "defrag" /\ cutIn # "sort" /\ (pc # "sort" \/ queue = <<>>)) => Unharmed

\* The cluster maps in memory are what is on the disk whenever DEFRAG chooses
\* the next move (allocated, claimed and movable against the table).
MapsAgree == stage = "defrag" => MapsAreDisk

\* /F that ends normally leaves no gap below a cluster that it was free to move
\* (the two cursors of compact_free_space never pass one by).
Packed == stage = "defrag" => NoGapBelow

\* However DEFRAG was cut short, sort apart, and however often the repair was
\* cut short in turn, SCANDISK ends with every file in place, lost chains freed
\* or saved ("preserve data and remain ScanDisk-recoverable").
Recovered == (stage \in {"check", "over"} /\ cutIn # "sort") => Unharmed

\* When SCANDISK ends with nothing left unresolved (exit code 0 or 254), a check
\* that follows finds nothing, unless the repair came upon one of the faults
\* that scan_chain, find_lost_clusters and relocate_occupied_cluster leave in
\* another form; then it always finds something.
RepairIsClean ==
    (stage = "over" /\ repair.code # "255") => (result = "0" <=> ~repair.leaves)

\* "DEFRAG rejects ... metadata with errorlevel ... and no writes": a volume that
\* it refuses (exit code 7) holds every file as before.
RefusedUnharmed == (stage = "defrag" /\ result = "7") => View(disk) = original.tree

\* "ScanDisk repaired the problems it found.", which it prints before that exit
\* code, holds in all modes: a check that follows finds nothing.
RepairedIsClean == (stage = "over" /\ repair.code # "255") => result = "0"

=============================================================================
