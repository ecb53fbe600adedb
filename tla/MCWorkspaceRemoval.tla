------------------------- MODULE MCWorkspaceRemoval -------------------------
(* Instances of WorkspaceRemoval for TLC.                                  *)
EXTENDS WorkspaceRemoval, TLC

CONSTANTS p, i, r1, r2

\* The pull request closes the issue.
MCCloses == [k \in Keys |-> IF k = i THEN {} ELSE {i}]

\* Removals differ only in name.
MCSymmetry == Permutations(Removals)

\* excused never shrinks, and once it holds every key the properties say
\* nothing more.
MCUnexcused == excused # Keys

\* What tells no two states apart.  A spawn that is over and whose session is
\* dead, or has lost its owner, plays no part any more.  Session tombstones are
\* read by the recovery after a restart only, about sessions that play a part.
MCSpent(s) == sp[s].pc \in {"running", "over"} /\ s \notin live \cap meta
MCActive == {s \in Spawns : ~MCSpent(s)}
MCView ==
    <<rows, attached, arch, deleted, lock, rem, ups, una, deferred, excused, left, term,
      [s \in MCActive |-> sp[s]], live \cap MCActive, meta \cap MCActive,
      IF left > 0 /\ MCActive # {} THEN tombs ELSE {}>>
=============================================================================
