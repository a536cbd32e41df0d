------------------------------ MODULE FirstBoot ------------------------------
(***************************************************************************)
(* How a fresh Ubuntu guest becomes an Android guest.  cloud-init writes   *)
(* the unit and the script of the seed's release (seed.user_data); the     *)
(* script (seed.firstboot_script) finds binder, unpacks the payload, runs  *)
(* guest/provision.sh and leaves a marker named after the release, so that *)
(* a later release provisions the guest again.  provision.sh installs the  *)
(* Android images of a bundled disk, if there is one, and runs `androidbox *)
(* init`, which otherwise downloads them (initializer.setup_config).       *)
(*                                                                         *)
(* Each step is what a power cut cannot split; QEMU is killed with the     *)
(* window, so a cut may come anywhere.                                     *)
(***************************************************************************)
EXTENDS Naturals, FiniteSets

CONSTANTS
  MaxRelease,   (* bound: the releases whose seed is attached              *)
  MaxFaults     (* bound: power cuts and commands that fail                *)

ASSUME BoundsAssumption == MaxRelease \in Nat \ {0} /\ MaxFaults \in Nat

VARIABLES
  (* Around the guest.                                                     *)
  seed,       (* the release of the attached seed                          *)
  online,     (* the archive and the channels are reached                  *)
  faults,
  (* The guest's disk.                                                     *)
  userdata,   (* the release whose script and unit cloud-init wrote        *)
  markers,    (* .provisioned-<release>                                    *)
  inProgress, (* .provisioning                                             *)
  rebooted,   (* .kernel-reboot                                            *)
  extra,      (* the archive has extra modules for the first kernel        *)
  binder,     (* the kernel that boots has binder                          *)
  generic,    (* the generic kernel is installed, for the next boot        *)
  payload,    (* the release unpacked in /opt/androidbox-src               *)
  bundled,    (* the disk with the Android archives: "absent", "bad" (does *)
              (* not verify) or "whole"                                     *)
  directory,  (* the directory of preinstalled images is there             *)
  system, vendor,   (* its images: "none", "part" or "whole"               *)
  former,     (* whole images under the work directory                     *)
  installed,  (* the release that was last installed whole                 *)
  images,     (* what `androidbox init` chose last: "none", "preinstalled" *)
              (* or "channel"; "raised" when it could not look             *)
  initialized,
  enabled,    (* the services of the Android session                       *)
  (* The guest's run.                                                      *)
  pc,         (* "off", "failed", "up", or the script's next step          *)
  (* History, read by no action:                                           *)
  kernelBoots

around  == <<seed, online, faults>>
state   == <<userdata, markers, inProgress>>
kernel  == <<rebooted, extra, binder, generic, kernelBoots>>
archive == <<bundled, directory, system, vendor, former>>
android == <<payload, installed, images, initialized, enabled>>
vars    == <<around, state, kernel, archive, android, pc>>

Releases == 1..MaxRelease
File     == {"none", "part", "whole"}
Bundles  == {"absent", "bad", "whole"}

TypeOK ==
  /\ seed \in Releases /\ online \in BOOLEAN /\ faults \in 0..MaxFaults
  /\ userdata \in 0..MaxRelease /\ markers \subseteq Releases
  /\ inProgress \in BOOLEAN /\ rebooted \in BOOLEAN /\ extra \in BOOLEAN
  /\ binder \in BOOLEAN /\ generic \in BOOLEAN /\ kernelBoots \in Nat
  /\ payload \in 0..MaxRelease /\ installed \in 0..MaxRelease
  /\ bundled \in Bundles /\ directory \in BOOLEAN /\ former \in BOOLEAN
  /\ system \in File /\ vendor \in File
  /\ images \in {"none", "preinstalled", "channel", "raised"}
  /\ initialized \in BOOLEAN /\ enabled \in BOOLEAN
  /\ pc \in {"off", "failed", "up", "start", "binder", "touch", "payload", "apt", "images",
             "system", "system2", "vendor", "vendor2", "migrate", "migrate2", "migrate3",
             "install", "init", "enable", "mark", "unmark"}
  /\ (pc \notin {"off", "failed", "up", "start"}) => inProgress

Init ==
  /\ seed = 1 /\ online \in BOOLEAN /\ faults = 0
  /\ userdata = 0 /\ markers = {} /\ inProgress = FALSE
  /\ rebooted = FALSE /\ extra \in BOOLEAN /\ binder \in BOOLEAN /\ generic = FALSE
  /\ kernelBoots = 0
  /\ payload = 0 /\ installed = 0
  /\ bundled \in Bundles /\ directory = FALSE /\ former = FALSE
  /\ system = "none" /\ vendor = "none"
  /\ images = "none" /\ initialized = FALSE /\ enabled = FALSE
  /\ pc = "off"

-----------------------------------------------------------------------------
(* The guest's power, and the world.                                       *)

(* cloud-init runs again for an instance-id it has not seen; then the unit *)
(* starts the script unless its release's marker is there.                 *)
PowerOn ==
  /\ pc = "off"
  /\ userdata' = seed
  /\ binder' = (binder \/ generic)
  /\ pc' = IF seed \in markers THEN "up" ELSE "start"
  /\ UNCHANGED <<around, markers, inProgress, rebooted, extra, generic, kernelBoots, archive,
                 android>>

PowerOff ==
  /\ pc \in {"failed", "up"}
  /\ pc' = "off"
  /\ UNCHANGED <<around, state, kernel, archive, android>>

PowerCut ==
  /\ pc \notin {"off", "failed", "up"} /\ faults < MaxFaults
  /\ pc' = "off" /\ faults' = faults + 1
  /\ UNCHANGED <<seed, online, state, kernel, archive, android>>

(* A new release of AndroidBox rewrites the seed of a guest that is off.   *)
Upgrade ==
  /\ pc = "off" /\ seed < MaxRelease
  /\ seed' = seed + 1 /\ bundled' \in Bundles
  /\ UNCHANGED <<online, faults, state, kernel, directory, system, vendor, former, android, pc>>

Network ==
  /\ online' = ~online
  /\ UNCHANGED <<seed, faults, state, kernel, archive, android, pc>>

-----------------------------------------------------------------------------
(* The first-boot script.                                                  *)

Step(from, to) == pc = from /\ pc' = to
Fail(from) == Step(from, "failed") /\ inProgress' = FALSE /\ UNCHANGED <<userdata, markers>>

(* A command fails whose failure ends the script: the seed is not attached *)
(* or not readable, the disk is full, the daemon does not answer.          *)
Fault(from) == faults < MaxFaults /\ faults' = faults + 1 /\ Fail(from)

(* Faulty variants, named for the fault, stand before what they replace.   *)
StartUnannounced ==
  /\ Step("start", "binder")
  /\ UNCHANGED <<around, state, kernel, archive, android>>

Start ==
  /\ Step("start", "binder")
  /\ inProgress' = TRUE
  /\ UNCHANGED <<around, userdata, markers, kernel, archive, android>>

MayAlwaysReboot == TRUE
MayNeverReboot  == FALSE
MayReboot       == ~rebooted

(* binder, its modules from the archive, or the generic kernel, once.      *)
FindBinder ==
  /\ \/ binder /\ Step("binder", "payload") /\ UNCHANGED <<state, binder, generic>>
     \/ ~binder /\ extra /\ online /\ binder' = TRUE /\ Step("binder", "payload")
          /\ UNCHANGED <<state, generic>>
     \/ ~binder /\ ~(extra /\ online) /\ ~MayReboot /\ Fail("binder")
          /\ UNCHANGED <<binder, generic>>
     \/ ~binder /\ ~(extra /\ online) /\ MayReboot /\ Step("binder", "touch")
          /\ generic' = (generic \/ online) /\ UNCHANGED <<state, binder>>
  /\ UNCHANGED <<around, rebooted, extra, kernelBoots, archive, android>>

TouchAndReboot ==
  /\ Step("touch", "off")
  /\ rebooted' = TRUE /\ kernelBoots' = kernelBoots + 1
  /\ UNCHANGED <<around, state, extra, binder, generic, archive, android>>

(* rm -rf, and tar from the seed: what fails before has left the old one,  *)
(* what fails after has left none or a part, which counts as none.         *)
Unpack ==
  /\ \/ Step("payload", "apt") /\ payload' = seed /\ UNCHANGED <<faults, state>>
     \/ Fault("payload") /\ payload' \in {payload, 0}
  /\ UNCHANGED <<seed, online, kernel, archive, installed, images, initialized, enabled>>

Mark ==
  /\ Step("mark", "unmark")
  /\ markers' = markers \cup {userdata}
  /\ UNCHANGED <<around, userdata, inProgress, kernel, archive, android>>

(* The reboot starts the Android session.                                  *)
Unmark ==
  /\ Step("unmark", "off")
  /\ inProgress' = FALSE
  /\ UNCHANGED <<around, userdata, markers, kernel, archive, android>>

-----------------------------------------------------------------------------
(* provision.sh.  set -e ends it with the first command that fails, except *)
(* in install_preinstalled_images, which is called before an ||.           *)

Apt ==
  /\ \/ online /\ Step("apt", "images") /\ UNCHANGED state
     \/ ~online /\ Fail("apt")
  /\ UNCHANGED <<around, kernel, archive, android>>

(* Two files that are there are taken for the images; without a disk the   *)
(* function returns; bad archives are not unpacked.                        *)
LookForImages ==
  /\ \/ system # "none" /\ vendor # "none" /\ Step("images", "install") /\ UNCHANGED directory
     \/ /\ system = "none" \/ vendor = "none"
        /\ \/ bundled = "absent" /\ Step("images", "install") /\ UNCHANGED directory
           \/ bundled = "bad" /\ Step("images", "migrate") /\ UNCHANGED directory
           \/ bundled = "whole" /\ Step("images", "system") /\ directory' = TRUE
  /\ UNCHANGED <<around, state, kernel, bundled, system, vendor, former, android>>

(* unzip writes an image in place; it stops half way, or is not installed, *)
(* and the function goes on.                                               *)
UnzipSystem ==
  /\ \/ Step("system", "system2") /\ system' = "part" /\ UNCHANGED faults
     \/ Step("system2", "vendor") /\ system' = "whole" /\ UNCHANGED faults
     \/ /\ Step("system", "vendor") \/ Step("system2", "vendor")
        /\ faults < MaxFaults /\ faults' = faults + 1 /\ UNCHANGED system
  /\ UNCHANGED <<seed, online, state, kernel, bundled, directory, vendor, former, android>>

UnzipVendor ==
  /\ \/ Step("vendor", "vendor2") /\ vendor' = "part" /\ UNCHANGED faults
     \/ Step("vendor2", "migrate") /\ vendor' = "whole" /\ UNCHANGED faults
     \/ /\ Step("vendor", "migrate") \/ Step("vendor2", "migrate")
        /\ faults < MaxFaults /\ faults' = faults + 1 /\ UNCHANGED vendor
  /\ UNCHANGED <<seed, online, state, kernel, bundled, directory, system, former, android>>

(* Images an older release kept under the work directory are copied.       *)
Migrate ==
  /\ \/ /\ system # "none" \/ ~former
        /\ Step("migrate", "install") /\ UNCHANGED <<directory, system, vendor, former>>
     \/ /\ system = "none" /\ former
        /\ Step("migrate", "migrate2")
        /\ directory' = TRUE /\ system' = "part" /\ UNCHANGED <<vendor, former>>
     \/ /\ Step("migrate2", "migrate3")
        /\ system' = "whole" /\ vendor' = "part" /\ UNCHANGED <<directory, former>>
     \/ /\ Step("migrate3", "install")
        /\ vendor' = "whole" /\ former' = FALSE /\ UNCHANGED <<directory, system>>
  /\ UNCHANGED <<around, state, kernel, bundled, android>>

(* make install, and the guest's own files and user.                       *)
MakeInstall ==
  /\ \/ Step("install", "init") /\ installed' = payload /\ UNCHANGED <<faults, state>>
     \/ Fault("install") /\ UNCHANGED installed
  /\ UNCHANGED <<seed, online, kernel, archive, payload, images, initialized, enabled>>

InitOrElse ==
  /\ Step("init", "enable")
  /\ images' = (IF directory THEN "preinstalled" ELSE "channel")
  /\ initialized' = (initialized \/ system # "none" \/ online)
  /\ UNCHANGED <<around, state, kernel, archive, payload, installed, enabled>>

(* setupBinderNodes raises without binder, which FindBinder has seen to.   *)
BinderNodesFound == binder

(* androidbox init: os.stat raises on an image that is missing from a      *)
(* directory that is there; the channels are only asked without one.       *)
AndroidInit ==
  /\ BinderNodesFound
  /\ \/ /\ directory /\ system # "none" /\ vendor # "none"
        /\ Step("init", "enable") /\ images' = "preinstalled" /\ initialized' = TRUE
        /\ UNCHANGED <<state, former>>
     \/ /\ directory /\ (system = "none" \/ vendor = "none")
        /\ Fail("init") /\ images' = "raised" /\ UNCHANGED <<former, initialized>>
     \/ /\ ~directory /\ online
        /\ Step("init", "enable") /\ images' = "channel" /\ initialized' = TRUE
        /\ former' = TRUE /\ UNCHANGED state
     \/ /\ ~directory /\ ~online
        /\ Fail("init") /\ UNCHANGED <<images, former, initialized>>
  /\ UNCHANGED <<around, kernel, bundled, directory, system, vendor, payload, installed,
                 enabled>>

(* androidbox.cfg, `androidbox upgrade -o` and systemctl enable.           *)
Enable ==
  /\ \/ Step("enable", "mark") /\ enabled' = TRUE /\ UNCHANGED <<faults, state>>
     \/ Fault("enable") /\ enabled' \in {enabled, TRUE}
  /\ UNCHANGED <<seed, online, kernel, archive, payload, installed, images, initialized>>

-----------------------------------------------------------------------------

Script == Start \/ FindBinder \/ TouchAndReboot \/ Unpack \/ Apt \/ LookForImages
            \/ UnzipSystem \/ UnzipVendor \/ Migrate \/ MakeInstall \/ AndroidInit \/ Enable
            \/ Mark \/ Unmark

Next == Script \/ PowerOn \/ PowerOff \/ PowerCut \/ Upgrade \/ Network

Spec == Init /\ [][Next]_vars

(* The script goes on, and a guest that is off or has failed is started    *)
(* again some day.                                                         *)
FairSpec ==
  Spec /\ WF_vars(Script) /\ WF_vars(PowerOn) /\ WF_vars(pc = "failed" /\ PowerOff)

-----------------------------------------------------------------------------
(* What must hold.                                                         *)

(* A marker is only left by a provisioning that was completed, of that     *)
(* release or a later one, whatever was cut and however often the guest    *)
(* was upgraded half way (firstboot_script: "upgrading guests              *)
(* re-provision").                                                         *)
MarkedMeansProvisioned ==
  \A r \in markers : installed >= r /\ initialized /\ enabled

(* The search for a kernel with binder reboots the guest only once, it     *)
(* does not reboot for ever (.kernel-reboot).                              *)
NoRebootLoop == kernelBoots <= 1

(* A guest that is started again after each failure is provisioned for the *)
(* seed it is given: if it is online throughout, or if it is online at     *)
(* last and the extra modules of its first kernel can be had.  (Offline at *)
(* first and without them, .kernel-reboot keeps it from the generic kernel *)
(* for good; so does a directory of images in which one is missing, unless *)
(* a whole bundle fills it.)                                               *)
Provisioned ==
  ([]online \/ (extra /\ <>[]online)) /\ [](bundled = "whole" \/ ~directory)
     => \A r \in Releases : (seed = r) ~> (r \in markers \/ seed # r)

(* provision.sh:103-104, "Anything that cannot be unpacked here falls back *)
(* to the channel downloads performed by `androidbox init` below."         *)
FallsBackToChannels ==
  /\ images # "raised"
  /\ pc = "enable" /\ images = "preinstalled" => system = "whole" /\ vendor = "whole"
=============================================================================
