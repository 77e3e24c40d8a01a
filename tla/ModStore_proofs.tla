--------------------------- MODULE ModStore_proofs ---------------------------
(***************************************************************************)
(* TypeOK and PackageKept of ModStore, for any packages and versions.      *)
(***************************************************************************)
EXTENDS ModStore, TLAPS

\* Between the two renames nothing is live, so that the backup, if there is
\* one, is what the failure of the second rename puts back.
NothingLive == step = "move_in" => target[archive.id] = Absent

IInv == TypeOK /\ NothingLive /\ PackageKept

\* A live version is whole, and neither absent nor torn is.
LEMMA WholeContents ==
  /\ Versions \subseteq Contents /\ Absent \in Contents /\ Torn \in Contents
  /\ ~Whole(Absent) /\ ~Whole(Torn)
  BY ModAssumption DEF Versions, Contents, Absent, Torn, Whole

\* An installation has a candidate, which NoArchive is not.
LEMMA Candidate ==
  /\ NoArchive \notin Archives
  /\ TypeOK /\ step # "idle" =>
       archive \in Archives /\ archive.id \in Mods /\ archive.version \in Versions
  BY ModAssumption DEF TypeOK, Archives, NoArchive, Versions, Absent

\* At first nothing is installed and nothing is set aside.
LEMMA InitIInv == Init => IInv
  BY WholeContents DEF Init, IInv, TypeOK, NothingLive, PackageKept, Steps

\* Clearing the backup, before or after the renames, leaves what is live.
LEMMA RemoveBackupIInv ==
  ASSUME NEW before \in {"clear_backup", "drop_backup"}, NEW after \in {"set_aside", "done"},
         IInv, RemoveBackup(before, after)
  PROVE  IInv'
<1>1. archive \in Archives /\ archive.id \in Mods
  BY Candidate DEF IInv, RemoveBackup
<1>2. step' \in {"set_aside", "done"}
  BY DEF RemoveBackup
<1>3. backup' \in [Mods -> Contents]
  BY <1>1, WholeContents DEF IInv, TypeOK, RemoveBackup
<1>4. TypeOK'
  BY <1>1, <1>2, <1>3, Candidate DEF IInv, TypeOK, RemoveBackup, Steps
<1>5. NothingLive' /\ PackageKept'
  BY <1>2 DEF IInv, NothingLive, PackageKept, RemoveBackup
<1> QED
  BY <1>4, <1>5 DEF IInv

\* The first rename: what was live is in the backup, whole if it was whole.
LEMMA SetAsideIInv ==
  ASSUME IInv, SetAside
  PROVE  IInv'
<1> DEFINE m == archive.id
<1>1. archive \in Archives /\ m \in Mods
  BY Candidate DEF IInv, SetAside
<1>2. CASE /\ backup' = [backup EXCEPT ![m] = target[m]]
           /\ target' = [target EXCEPT ![m] = Absent]
           /\ step' = "move_in"
  <2>1. TypeOK'
    BY <1>1, <1>2, WholeContents, Candidate DEF IInv, TypeOK, SetAside, Steps
  <2>2. NothingLive'
    BY <1>1, <1>2 DEF IInv, TypeOK, NothingLive, SetAside
  <2>3. PackageKept'
    BY <1>1, <1>2 DEF IInv, TypeOK, PackageKept, SetAside
  <2> QED
    BY <2>1, <2>2, <2>3 DEF IInv
<1>3. CASE /\ step' = IF target[m] # Absent THEN "done" ELSE "move_in"
           /\ UNCHANGED <<target, backup>>
  <2>1. TypeOK'
    BY <1>1, <1>3, Candidate DEF IInv, TypeOK, SetAside, Steps
  <2>2. NothingLive' /\ PackageKept'
    BY <1>3 DEF IInv, NothingLive, PackageKept, SetAside
  <2> QED
    BY <2>1, <2>2 DEF IInv
<1> QED
  BY <1>2, <1>3 DEF SetAside

\* The second rename, and what is done when it fails.
LEMMA MoveInIInv ==
  ASSUME IInv, MoveIn
  PROVE  IInv'
<1> DEFINE m == archive.id
<1>1. archive \in Archives /\ m \in Mods /\ archive.version \in Versions
  BY Candidate DEF IInv, MoveIn
<1>2. step' \in {"drop_backup", "done"} /\ archive' = archive /\ step = "move_in"
  BY DEF MoveIn
<1>3. CASE /\ target' = [target EXCEPT ![m] = archive.version]
           /\ kept' = kept \cup {m}
           /\ interrupted' = interrupted \ {m}
           /\ UNCHANGED backup
  <2>1. TypeOK'
    BY <1>1, <1>2, <1>3, WholeContents, Candidate DEF IInv, TypeOK, Steps
  <2>2. PackageKept'
    BY <1>1, <1>2, <1>3 DEF IInv, TypeOK, PackageKept, Whole
  <2> QED
    BY <1>2, <2>1, <2>2 DEF IInv, NothingLive
<1>4. CASE /\ target' = [target EXCEPT ![m] = backup[m]]
           /\ backup' = [backup EXCEPT ![m] = Absent]
           /\ UNCHANGED <<kept, interrupted>>
  <2>1. TypeOK'
    BY <1>1, <1>2, <1>4, WholeContents, Candidate DEF IInv, TypeOK, Steps
  <2>2. PackageKept'
    BY <1>1, <1>2, <1>4, WholeContents DEF IInv, TypeOK, PackageKept, NothingLive
  <2> QED
    BY <1>2, <2>1, <2>2 DEF IInv, NothingLive
<1>5. CASE interrupted' = interrupted \cup {m} /\ UNCHANGED <<target, backup, kept>>
  <2>1. TypeOK'
    BY <1>1, <1>2, <1>5, Candidate DEF IInv, TypeOK, Steps
  <2>2. PackageKept'
    BY <1>1, <1>2, <1>5 DEF IInv, PackageKept
  <2> QED
    BY <1>2, <2>1, <2>2 DEF IInv, NothingLive
<1> QED
  BY <1>3, <1>4, <1>5 DEF MoveIn, Restore

\* A removal ends what is promised of the package; it finds no renames under way.
LEMMA RemoveIInv ==
  ASSUME IInv, NEW m \in Mods, NEW content \in {Absent, Torn}, Remove(m, content)
  PROVE  IInv'
<1>1. TypeOK'
  BY WholeContents DEF IInv, TypeOK, Remove
<1>2. NothingLive' /\ PackageKept'
  BY DEF IInv, TypeOK, NothingLive, PackageKept, Remove
<1> QED
  BY <1>1, <1>2 DEF IInv

\* Wherever the process dies, only the package being renamed is given up.
LEMMA CrashIInv ==
  ASSUME IInv, Crash
  PROVE  IInv'
<1>1. TypeOK'
  <2>1. interrupted' \in SUBSET Mods
    BY Candidate DEF IInv, TypeOK, Crash
  <2>2. backup' \in [Mods -> Contents]
    BY WholeContents, Candidate DEF IInv, TypeOK, Crash
  <2> QED
    BY <2>1, <2>2 DEF IInv, TypeOK, Crash, Steps
<1>2. NothingLive' /\ PackageKept'
  BY DEF IInv, NothingLive, PackageKept, Crash
<1> QED
  BY <1>1, <1>2 DEF IInv

\* Every step of an installation, a removal or a crash keeps the invariant.
LEMMA NextIInv == IInv /\ [Next]_vars => IInv'
<1> SUFFICES ASSUME IInv, [Next]_vars PROVE IInv'
  OBVIOUS
<1>1. ASSUME NEW a \in Archives, BeginInstall(a) PROVE IInv'
  BY <1>1, Candidate DEF BeginInstall, IInv, TypeOK, NothingLive, PackageKept, Steps
<1>2. CASE Stage
  <2>1. step' \in {"done", "clear_backup"}
    BY <1>2 DEF Stage
  <2> QED
    BY <1>2, <2>1, Candidate DEF Stage, IInv, TypeOK, NothingLive, PackageKept, Steps
<1>3. CASE ClearBackup
  BY <1>3, RemoveBackupIInv DEF ClearBackup
<1>4. CASE SetAside
  BY <1>4, SetAsideIInv
<1>5. CASE MoveIn
  BY <1>5, MoveInIInv
<1>6. CASE DropBackup
  BY <1>6, RemoveBackupIInv DEF DropBackup
<1>7. CASE EndInstall
  BY <1>7 DEF EndInstall, IInv, TypeOK, NothingLive, PackageKept, Steps
<1>8. ASSUME NEW m \in Mods, NEW content \in {Absent, Torn}, Remove(m, content) PROVE IInv'
  BY <1>8, RemoveIInv
<1>9. CASE Crash
  BY <1>9, CrashIInv
<1>10. CASE UNCHANGED vars
  BY <1>10 DEF vars, IInv, TypeOK, NothingLive, PackageKept
<1> QED
  BY <1>1, <1>2, <1>3, <1>4, <1>5, <1>6, <1>7, <1>8, <1>9, <1>10 DEF Next

\* The invariant holds throughout.
LEMMA Invariant == Spec => []IInv
  BY InitIInv, NextIInv, PTL DEF Spec

\* The state of ModStore keeps its type: the candidate is there for as long
\* as an installation runs (mod_store.py:160-233).
THEOREM TypeCorrect == Spec => []TypeOK
<1>1. IInv => TypeOK
  BY DEF IInv
<1> QED
  BY <1>1, Invariant, PTL

\* What was installed and not removed stays, for any number of packages and
\* versions, over failures at every step and any number of crashes
\* (mod_store.py:313-329).
THEOREM PackageIsKept == Spec => []PackageKept
<1>1. IInv => PackageKept
  BY DEF IInv
<1> QED
  BY <1>1, Invariant, PTL
=============================================================================
