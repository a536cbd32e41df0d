--------------------------- MODULE FirstBootProofs ---------------------------
(***************************************************************************)
(* What FirstBoot's run checks on a small instance, proved for any number  *)
(* of releases, power cuts and commands that fail.                         *)
(*                                                                         *)
(* A marker says what the script did many steps before it was left, and an *)
(* older script may have left others: Provisioning says what each step of  *)
(* the script already knows, and that no marker is of a release to come.   *)
(***************************************************************************)
EXTENDS FirstBoot, TLAPS

(* The steps after each of those that a marker stands for.                 *)
Enabled     == {"mark", "unmark"}
Initialized == Enabled \cup {"enable"}
Installed   == Initialized \cup {"init"}
Unpacked    == Installed \cup {"apt", "images", "system", "system2", "vendor", "vendor2",
                              "migrate", "migrate2", "migrate3", "install"}

(* The guest that runs was given the script of the attached seed.          *)
OwnScript == pc # "off" => userdata = seed

Reached ==
  /\ pc \in Unpacked => payload = seed
  /\ pc \in Installed => installed = seed
  /\ pc \in Initialized => initialized
  /\ pc \in Enabled => enabled

NoLaterMarker == \A r \in markers : r <= seed

Provisioning == OwnScript /\ Reached /\ NoLaterMarker /\ MarkedMeansProvisioned

(* .kernel-reboot is left with the only reboot.                            *)
RebootNoted ==
  /\ kernelBoots = (IF rebooted THEN 1 ELSE 0)
  /\ pc = "touch" => ~rebooted

-----------------------------------------------------------------------------
(* A guest that was never started satisfies them all.                      *)
LEMMA InvStarts == Init => TypeOK /\ Provisioning /\ RebootNoted
PROOF
  <1> SUFFICES ASSUME Init PROVE TypeOK /\ Provisioning /\ RebootNoted
    OBVIOUS
  <1>1. TypeOK
    <2>1. /\ seed \in Releases /\ faults \in 0..MaxFaults /\ kernelBoots \in Nat
          /\ userdata \in 0..MaxRelease /\ payload \in 0..MaxRelease
          /\ installed \in 0..MaxRelease /\ markers \subseteq Releases
      BY BoundsAssumption DEF Init, Releases
    <2>2. /\ online \in BOOLEAN /\ inProgress \in BOOLEAN /\ rebooted \in BOOLEAN
          /\ extra \in BOOLEAN /\ binder \in BOOLEAN /\ generic \in BOOLEAN
          /\ directory \in BOOLEAN /\ former \in BOOLEAN
          /\ initialized \in BOOLEAN /\ enabled \in BOOLEAN
      BY Zenon DEF Init
    <2> QED
      BY <2>1, <2>2 DEF Init, TypeOK, File
  <1>2. Provisioning
    BY DEF Init, Provisioning, OwnScript, Reached, Unpacked, Installed, Initialized, Enabled,
           NoLaterMarker, MarkedMeansProvisioned
  <1>3. RebootNoted
    BY DEF Init, RebootNoted
  <1> QED
    BY <1>1, <1>2, <1>3

(* Every step keeps the types.                                             *)
LEMMA TypeStays == TypeOK /\ OwnScript /\ [Next]_vars => TypeOK'
PROOF
  <1> SUFFICES ASSUME TypeOK, OwnScript, [Next]_vars PROVE TypeOK'
    OBVIOUS
  <1> USE DEF TypeOK, Releases, File, around, state, kernel, archive,
              android
  <1>1. CASE PowerOn
    BY <1>1, BoundsAssumption DEF PowerOn
  <1>2. CASE PowerOff
    BY <1>2, BoundsAssumption DEF PowerOff
  <1>3. CASE PowerCut
    BY <1>3, BoundsAssumption DEF PowerCut
  <1>4. CASE Upgrade
    BY <1>4, BoundsAssumption DEF Upgrade
  <1>5. CASE Network
    BY <1>5, BoundsAssumption DEF Network
  <1>6. CASE Start
    BY <1>6, BoundsAssumption DEF Start, Step
  <1>7. CASE FindBinder
    <2>1. binder' \in BOOLEAN /\ generic' \in BOOLEAN /\ inProgress' \in BOOLEAN
      BY <1>7, Zenon DEF FindBinder, Step, Fail, MayReboot
    <2>2. userdata' = userdata /\ markers' = markers
      BY <1>7 DEF FindBinder, Step, Fail
    <2>3. pc' \in {"payload", "touch", "failed"} /\ (pc' # "failed" => inProgress')
      BY <1>7 DEF FindBinder, Step, Fail
    <2> QED
      BY <1>7, <2>1, <2>2, <2>3 DEF FindBinder
  <1>8. CASE TouchAndReboot
    BY <1>8, BoundsAssumption DEF TouchAndReboot, Step
  <1>9. CASE Unpack
    <2>1. enabled' \in BOOLEAN /\ inProgress' \in BOOLEAN
      BY <1>9, Zenon DEF Unpack, Step, Fault, Fail
    <2>2. userdata' = userdata /\ markers' = markers /\ faults' \in 0..MaxFaults
      BY <1>9, BoundsAssumption DEF Unpack, Step, Fault, Fail
    <2>3. pc' \in {"apt", "failed"} /\ (pc' # "failed" => inProgress')
      BY <1>9 DEF Unpack, Step, Fault, Fail
    <2> QED
      BY <1>9, <2>1, <2>2, <2>3, BoundsAssumption DEF Unpack
  <1>10. CASE Mark
    <2>1. userdata \in Releases
      BY <1>10 DEF Mark, Step, OwnScript
    <2> QED
      BY <1>10, <2>1, BoundsAssumption DEF Mark, Step, OwnScript
  <1>11. CASE Unmark
    <2>1. inProgress' \in BOOLEAN
      BY <1>11, Zenon DEF Unmark, Step
    <2> QED
      BY <1>11, <2>1, BoundsAssumption DEF Unmark, Step
  <1>12. CASE Apt
    <2>1. inProgress' \in BOOLEAN
      BY <1>12, Zenon DEF Apt, Step, Fail
    <2>2. userdata' = userdata /\ markers' = markers
      BY <1>12 DEF Apt, Step, Fail
    <2>3. pc' \in {"images", "failed"} /\ (pc' # "failed" => inProgress')
      BY <1>12 DEF Apt, Step, Fail
    <2> QED
      BY <1>12, <2>1, <2>2, <2>3 DEF Apt
  <1>13. CASE LookForImages
    <2>1. directory' \in BOOLEAN
      BY <1>13, Zenon DEF LookForImages, Step
    <2> QED
      BY <1>13, <2>1, BoundsAssumption DEF LookForImages, Step
  <1>14. CASE UnzipSystem
    BY <1>14, BoundsAssumption DEF UnzipSystem, Step
  <1>15. CASE UnzipVendor
    BY <1>15, BoundsAssumption DEF UnzipVendor, Step
  <1>16. CASE Migrate
    <2>1. directory' \in BOOLEAN /\ former' \in BOOLEAN
      BY <1>16, Zenon DEF Migrate, Step
    <2> QED
      BY <1>16, <2>1, BoundsAssumption DEF Migrate, Step
  <1>17. CASE MakeInstall
    <2>1. enabled' \in BOOLEAN /\ inProgress' \in BOOLEAN
      BY <1>17, Zenon DEF MakeInstall, Step, Fault, Fail
    <2>2. userdata' = userdata /\ markers' = markers /\ faults' \in 0..MaxFaults
      BY <1>17, BoundsAssumption DEF MakeInstall, Step, Fault, Fail
    <2>3. pc' \in {"init", "failed"} /\ (pc' # "failed" => inProgress')
      BY <1>17 DEF MakeInstall, Step, Fault, Fail
    <2> QED
      BY <1>17, <2>1, <2>2, <2>3, BoundsAssumption DEF MakeInstall
  <1>18. CASE AndroidInit
    <2>1. initialized' \in BOOLEAN /\ former' \in BOOLEAN /\ inProgress' \in BOOLEAN
      BY <1>18, Zenon DEF AndroidInit, Step, Fail
    <2>2. userdata' = userdata /\ markers' = markers
      BY <1>18 DEF AndroidInit, Step, Fail
    <2>3. pc' \in {"enable", "failed"} /\ (pc' # "failed" => inProgress')
      BY <1>18 DEF AndroidInit, Step, Fail
    <2> QED
      BY <1>18, <2>1, <2>2, <2>3 DEF AndroidInit
  <1>19. CASE Enable
    <2>1. enabled' \in BOOLEAN /\ inProgress' \in BOOLEAN
      BY <1>19, Zenon DEF Enable, Step, Fault, Fail
    <2>2. /\ userdata' = userdata /\ markers' = markers
          /\ faults' = faults \/ (faults < MaxFaults /\ faults' = faults + 1)
      BY <1>19, Zenon DEF Enable, Step, Fault, Fail
    <2>3. pc' \in {"mark", "failed"} /\ (pc' # "failed" => inProgress')
      BY <1>19 DEF Enable, Step, Fault, Fail
    <2> QED
      BY <1>19, <2>1, <2>2, <2>3, BoundsAssumption DEF Enable
  <1>20. CASE UNCHANGED vars
    BY <1>20 DEF vars
  <1> QED
    BY <1>1, <1>2, <1>3, <1>4, <1>5, <1>6, <1>7, <1>8, <1>9, <1>10, <1>11,
       <1>12, <1>13, <1>14, <1>15, <1>16, <1>17, <1>18, <1>19, <1>20 DEF Next, Script

(* The script reboots for a kernel only where it has left no note.         *)
LEMMA RebootStays == TypeOK /\ RebootNoted /\ [Next]_vars => RebootNoted'
PROOF
  <1> SUFFICES ASSUME TypeOK, RebootNoted, [Next]_vars PROVE RebootNoted'
    OBVIOUS
  <1> USE DEF RebootNoted, around, state, kernel, archive,
              android
  <1>1. CASE PowerOn
    BY <1>1 DEF PowerOn
  <1>2. CASE PowerOff
    BY <1>2 DEF PowerOff
  <1>3. CASE PowerCut
    BY <1>3 DEF PowerCut
  <1>4. CASE Upgrade
    BY <1>4 DEF Upgrade
  <1>5. CASE Network
    BY <1>5 DEF Network
  <1>6. CASE Start
    BY <1>6 DEF Start, Step
  <1>7. CASE FindBinder
    BY <1>7 DEF FindBinder, Step, Fail, MayReboot
  <1>8. CASE TouchAndReboot
    BY <1>8 DEF TouchAndReboot, Step
  <1>9. CASE Unpack
    BY <1>9 DEF Unpack, Step, Fault, Fail
  <1>10. CASE Mark
    BY <1>10 DEF Mark, Step
  <1>11. CASE Unmark
    BY <1>11 DEF Unmark, Step
  <1>12. CASE Apt
    BY <1>12 DEF Apt, Step, Fail
  <1>13. CASE LookForImages
    BY <1>13 DEF LookForImages, Step
  <1>14. CASE UnzipSystem
    BY <1>14 DEF UnzipSystem, Step
  <1>15. CASE UnzipVendor
    BY <1>15 DEF UnzipVendor, Step
  <1>16. CASE Migrate
    BY <1>16 DEF Migrate, Step
  <1>17. CASE MakeInstall
    BY <1>17 DEF MakeInstall, Step, Fault, Fail
  <1>18. CASE AndroidInit
    BY <1>18 DEF AndroidInit, Step, Fail
  <1>19. CASE Enable
    BY <1>19 DEF Enable, Step, Fault, Fail
  <1>20. CASE UNCHANGED vars
    BY <1>20 DEF vars
  <1> QED
    BY <1>1, <1>2, <1>3, <1>4, <1>5, <1>6, <1>7, <1>8, <1>9, <1>10, <1>11,
       <1>12, <1>13, <1>14, <1>15, <1>16, <1>17, <1>18, <1>19, <1>20 DEF Next, Script

(* A step of the script adds what it is for, and nothing is taken back.    *)
LEMMA ProvisioningStays == TypeOK /\ Provisioning /\ [Next]_vars => Provisioning'
PROOF
  <1> SUFFICES ASSUME TypeOK, Provisioning, [Next]_vars PROVE Provisioning'
    OBVIOUS
  <1> USE DEF Provisioning, OwnScript, Reached, NoLaterMarker, MarkedMeansProvisioned,
              Unpacked, Installed, Initialized, Enabled, around, state, kernel, archive,
              android
  <1>1. CASE PowerOn
    BY <1>1 DEF PowerOn
  <1>2. CASE PowerOff
    BY <1>2 DEF PowerOff
  <1>3. CASE PowerCut
    BY <1>3 DEF PowerCut
  <1>4. CASE Upgrade
    BY <1>4 DEF Upgrade, TypeOK, Releases
  <1>5. CASE Network
    BY <1>5 DEF Network
  <1>6. CASE Start
    BY <1>6 DEF Start, Step
  <1>7. CASE FindBinder
    BY <1>7 DEF FindBinder, Step, Fail, MayReboot
  <1>8. CASE TouchAndReboot
    BY <1>8 DEF TouchAndReboot, Step
  <1>9. CASE Unpack
    BY <1>9 DEF Unpack, Step, Fault, Fail
  <1>10. CASE Mark
    BY <1>10 DEF Mark, Step, TypeOK, Releases
  <1>11. CASE Unmark
    BY <1>11 DEF Unmark, Step
  <1>12. CASE Apt
    BY <1>12 DEF Apt, Step, Fail
  <1>13. CASE LookForImages
    BY <1>13 DEF LookForImages, Step
  <1>14. CASE UnzipSystem
    BY <1>14 DEF UnzipSystem, Step
  <1>15. CASE UnzipVendor
    BY <1>15 DEF UnzipVendor, Step
  <1>16. CASE Migrate
    BY <1>16 DEF Migrate, Step
  <1>17. CASE MakeInstall
    BY <1>17 DEF MakeInstall, Step, Fault, Fail
  <1>18. CASE AndroidInit
    BY <1>18 DEF AndroidInit, Step, Fail
  <1>19. CASE Enable
    BY <1>19 DEF Enable, Step, Fault, Fail
  <1>20. CASE UNCHANGED vars
    BY <1>20 DEF vars
  <1> QED
    BY <1>1, <1>2, <1>3, <1>4, <1>5, <1>6, <1>7, <1>8, <1>9, <1>10, <1>11,
       <1>12, <1>13, <1>14, <1>15, <1>16, <1>17, <1>18, <1>19, <1>20 DEF Next, Script

(* Every state of every behaviour does.                                    *)
LEMMA InvHolds == Spec => [](TypeOK /\ Provisioning /\ RebootNoted)
PROOF
  <1>1. Provisioning => OwnScript
    BY DEF Provisioning
  <1> QED
    BY <1>1, InvStarts, TypeStays, RebootStays, ProvisioningStays, PTL DEF Spec

-----------------------------------------------------------------------------
(* The theorems.                                                           *)

(* No step leaves the script's steps, and the script announces itself      *)
(* (.provisioning) for as long as it runs.                                 *)
THEOREM TypeCorrect == Spec => []TypeOK
  BY InvHolds, PTL

(* A marker is left only by a provisioning that was completed.             *)
THEOREM MarkedAlwaysProvisioned == Spec => []MarkedMeansProvisioned
PROOF
  <1>1. Provisioning => MarkedMeansProvisioned
    BY DEF Provisioning
  <1> QED
    BY <1>1, InvHolds, PTL

(* The search for binder reboots the guest at most once.                   *)
THEOREM NeverRebootsAgain == Spec => []NoRebootLoop
PROOF
  <1>1. RebootNoted => NoRebootLoop
    BY DEF RebootNoted, NoRebootLoop
  <1> QED
    BY <1>1, InvHolds, PTL
=============================================================================
