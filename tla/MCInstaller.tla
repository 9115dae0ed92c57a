---------------------------- MODULE MCInstaller ----------------------------
(***************************************************************************)
(* Installer for TLC: the directories of a node, and the histories of two  *)
(* installs on it.                                                         *)
(***************************************************************************)
EXTENDS Installer, TLC

CONSTANTS i1, i2, bOld, bNew, bCloud, cOld, cNew, cCloud

Old == [bin |-> bOld, config |-> cOld]
New == [bin |-> bNew, config |-> cNew]
InCloud == [bin |-> bCloud, config |-> cCloud]

Values(mode, w, v) == [mode |-> mode, wiring |-> w, ver |-> v, override |-> Unwired]
Both(a, b) == [i \in Installs |-> IF i = i1 THEN a ELSE b]
Limits(u, f, k) == [upgrades |-> u, faults |-> f, kubelet |-> k]

AutoOld == Values("auto", Old, 1)
AutoNew == Values("auto", New, 1)
AutoNewBin == Values("auto", [bin |-> bNew, config |-> cOld], 1)

\* Both installs move from the old directories to the new ones, or the first
\* one there and back.
Move == [node |-> "bare", start |-> Both(AutoOld, AutoOld),
         menu |-> Both({AutoOld, AutoNew}, {AutoNew}),
         budget |-> Limits(2, 1, 0)]

\* Both installs change the bin directory alone.
BinMove == [node |-> "bare", start |-> Both(AutoOld, AutoOld),
            menu |-> Both({AutoNewBin}, {AutoNewBin}),
            budget |-> Limits(2, 1, 0)]

\* The first install was there before there were records; the second wants
\* kubelet in directories of its own.
Legacy == [node |-> "legacy", start |-> Both(AutoOld, Values("patch", New, 1)),
           menu |-> Both({AutoOld, AutoNew}, {AutoNew}),
           budget |-> Limits(1, 1, 0)]

\* Version 2 of the first install's entry is one that kubelet k1 rejects; the
\* second install leaves kubelet alone.
Rejected == [node |-> "bare", start |-> Both(AutoOld, Values("none", Old, 1)),
             menu |-> Both({AutoOld, Values("auto", Old, 2)}, {}),
             budget |-> Limits(1, 1, 1)]

\* Both merge into a cloud's config, the second one by an override.
Merge == [node |-> "cloud",
          start |-> Both(AutoOld, [Values("merge", Old, 1) EXCEPT !.override = InCloud]),
          menu |-> Both({AutoNew}, {Values("merge", Old, 2)}),
          budget |-> Limits(1, 1, 0)]

K1RejectsV2 == {<<"k1", 2>>}

\* One install goes to version 2 and back, with two faults on the way.
ThereAndBack == {[node |-> "bare", start |-> Both(AutoOld, Values("none", New, 1)),
                  menu |-> Both({AutoOld, Values("auto", Old, 2)}, {}),
                  budget |-> Limits(2, 2, 1)]}

Histories == {Move, BinMove, Legacy, Rejected, Merge}
=============================================================================
