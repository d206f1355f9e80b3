--------------------------- MODULE MCSmartCharging ----------------------------
(* Values for SmartCharging: a recurring profile that is sent before it starts. *)
EXTENDS SmartCharging

RecurringLater ==
    {[id |-> 1, purpose |-> "Max", level |-> 0, tx |-> -1, validFrom |-> 0, validTo |-> 0,
      kind |-> "Recurring", start |-> 2, duration |-> 0, unit |-> "current", minRate |-> -1,
      periods |-> <<[start |-> 0, limit |-> 5]>>]}
===============================================================================
