-------------------------- MODULE BackupRetention ---------------------------
(***************************************************************************)
(* Which bundles scripts/local/Backup-Lvfi.ps1 keeps.  A bundle is a       *)
(* record with its timestamp, in at, and its classes, in classes.          *)
(***************************************************************************)
EXTENDS Integers, FiniteSets

CONSTANTS
  Daily, Weekly, Monthly, \* retention classes
  Limit,                  \* bundles kept of each class
  Sundays, FirstDays      \* timestamps on a Sunday, on the first day of a month

Class == {Daily, Weekly, Monthly}

ASSUME RetentionAssumption == Limit \in [Class -> Nat \ {0}]

\* Get-RetentionClasses.
RetentionClasses(t) ==
  {Daily} \cup (IF t \in Sundays THEN {Weekly} ELSE {})
          \cup (IF t \in FirstDays THEN {Monthly} ELSE {})

Newer(disk, b, c) == {d \in disk : c \in d.classes /\ d.at > b.at}

\* Mutant: a bundle is kept only as long as each of its classes keeps it.
RetainedByEach(disk) ==
  {b \in disk : \A c \in b.classes : Cardinality(Newer(disk, b, c)) < Limit[c]}

\* Remove-ExpiredLvfiBackups: the newest of each class, among the directories that have
\* a manifest.  A staging directory that was left behind with one counts.
Retained(disk) ==
  {b \in disk : \E c \in b.classes : Cardinality(Newer(disk, b, c)) < Limit[c]}
=============================================================================
