----------------------------- MODULE DeviceState -----------------------------
(***************************************************************************)
(* DeviceState: the status that a device and its worker share, and the      *)
(* changes of it that are allowed. Any other change throws                  *)
(* IncorrectStateChangeException; a device that has failed stays so and     *)
(* ignores every change.                                                   *)
(***************************************************************************)
Failed == "permanentFailure"
Statuses == {Failed, "off", "starting", "ready", "stopping"}

(* From where start(), ready(), stop() and off() are allowed, and where they*)
(* lead.                                                                   *)
Allowed ==
  [start |-> {"off"},
   ready |-> {"off", "starting"},
   stop  |-> {"ready"},
   off   |-> {"ready", "stopping"}]

Target == [start |-> "starting", ready |-> "ready", stop |-> "stopping", off |-> "off"]

Throws(change, status) == status \notin Allowed[change] \cup {Failed}

Changed(change, status) == IF status = Failed THEN Failed ELSE Target[change]
=============================================================================
