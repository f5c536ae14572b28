--------------------------- MODULE EquipmentAdmin --------------------------
(***************************************************************************)
(* The manager's equipment endpoints (apps/equipment/api.py).  None of them *)
(* opens a transaction or looks at the job the machine is working on.       *)
(***************************************************************************)
EXTENDS LabData

otherTables == <<requestTable, sampleTable, experimentTable, wipTable, jobTable>>

MarkMaintenance(e) ==
  /\ eqStatus' = [eqStatus EXCEPT ![e] = "maintenance"]
  /\ UNCHANGED <<eqCurrent, eqActive, otherTables>>

ActivateEquipment(e) ==
  /\ eqStatus' = [eqStatus EXCEPT ![e] = "idle"]
  /\ eqActive' = [eqActive EXCEPT ![e] = TRUE]
  /\ UNCHANGED <<eqCurrent, otherTables>>

DeactivateEquipment(e) ==
  /\ eqStatus' = [eqStatus EXCEPT ![e] = "offline"]
  /\ eqActive' = [eqActive EXCEPT ![e] = FALSE]
  /\ UNCHANGED <<eqCurrent, otherTables>>

\* update_equipment saves the whole loaded row with the payload's columns set.  The payload
\* may carry any status and flag, the loaded ones too; the job is always the loaded one.
UpdateEquipment(e, status, current, active) ==
  /\ eqStatus' = [eqStatus EXCEPT ![e] = status]
  /\ eqCurrent' = [eqCurrent EXCEPT ![e] = current]
  /\ eqActive' = [eqActive EXCEPT ![e] = active]
  /\ UNCHANGED otherTables
=============================================================================
