---------------------------- MODULE BootConstants -----------------------------
(* The parameters of BootService.                                           *)
EXTENDS Integers

CONSTANTS
    RecoverFile,  \* state files that recover() removes
    MigrateFile,  \* state files that migrate() removes
    Firmware,     \* the values of MO_VERSION
    Width,        \* the boot numbers are modulo 2^16
    MaxFailures,  \* more boots without success than this: recovery
    AutoRecover,  \* argument autoRecover of mocpp_initialize()
    MaxRun,       \* bound: runs of the firmware
    NoFile,
    Damaged       \* a file that cannot be read

NoVersion == "none"  \* the empty string of statistics that are new

ASSUME BootAssumption ==
    /\ Width \in Nat /\ MaxFailures \in Nat /\ MaxFailures + 2 < Width
    /\ AutoRecover \in BOOLEAN
    /\ MaxRun \in Nat \ {0} /\ MaxRun < Width
    /\ Firmware # {} /\ NoVersion \notin Firmware

\* NoFile and Damaged are not the contents of a file.
ASSUME NoFileAssumption ==
    /\ \A n \in 0 .. Width - 1, m \in 0 .. Width - 1, v \in Firmware \cup {NoVersion} :
          [bootNr |-> n, lastBootSuccess |-> m, version |-> v] \notin {NoFile, Damaged}
    /\ \A r \in 0 .. MaxRun, n \in 0 .. Width - 1 : [run |-> r, bootNr |-> n] # NoFile
===============================================================================
