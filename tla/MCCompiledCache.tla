--------------------------- MODULE MCCompiledCache ---------------------------
(* CompiledCache on small instances: one process with a thread that calls     *)
(* HasCache and builds for two devices, or two processes.  Two models are     *)
(* compiled whose tensor descriptors are the same.                            *)
EXTENDS CompiledCache, TLC

MCImages == {[i \in Files |-> IF i = 0 THEN m ELSE 3] : m \in {1, 2}}
Symmetry == Permutations(Builders) \union Permutations(Devices)

\* Two processes: what a builder has left behind - of a restore when it saves, of a
\* call that has ended, and what became of it - is looked at by no step and by neither
\* property of that run, so states that differ in nothing else are one.
StillLookedAt(b) ==
  IF pc[b] \in {"idle", "done"} THEN <<"idle">>
  ELSE IF pc[b] \in SaveLabels \union {"remove", "compile"}
  THEN <<pc[b], op[b], ver[b], dev[b], next[b], save[b], opRead[b], stream[b]>>
  ELSE <<pc[b], op[b], ver[b], dev[b], seen[b], next[b], opRead[b], stream[b], whole[b], mended[b]>>
View == <<info, file, opVersion, saves, [b \in Builders |-> StillLookedAt(b)], probe>>
=============================================================================
