-------------------------- MODULE FirmwareConstants ---------------------------
(* The parameters of FirmwareService.                                       *)
EXTENDS Integers

CONSTANTS
    Builds,       \* build numbers of the firmware
    MaxRetries,   \* bound: argument retries of scheduleFirmwareUpdate()
    MaxUpdates,   \* bound: updates scheduled by the server
    MaxBoots      \* bound: boots

ASSUME FirmwareAssumption ==
    /\ Builds # {} /\ MaxRetries \in Nat /\ MaxUpdates \in Nat /\ MaxBoots \in Nat \ {0}
===============================================================================
