------------------------------ MODULE GuestDisk ------------------------------
(***************************************************************************)
(* What AndroidBox keeps on the host's disk for a guest, and how each file *)
(* comes to be whole:                                                      *)
(*   the Ubuntu image, downloaded or copied (guestdisk.ensure_base_image), *)
(*   the overlay the guest writes to (guestdisk.prepare, write_overlay),   *)
(*   the first-boot seed of the release (seed.ensure_seed, write_iso),     *)
(*   the bundled Android images (bundled.materialize_images_disk,          *)
(*     imagesstore.extract),                                               *)
(*   the settings, which name the disk (runtime.load_config, save_config). *)
(* The files outlive the program, which may be killed between any two      *)
(* steps: what it wrote or renamed before is there, what it had not yet is *)
(* not.  A file's content is the sequence of its chunks, each named by the *)
(* edition of the image it comes from; a release installs over another     *)
(* one, and the mirrors follow Ubuntu each at its time.                    *)
(***************************************************************************)
EXTENDS Integers, Sequences

CONSTANTS
  Mirrors,      (* how many MIRRORS there are, tried in order              *)
  Attempts,     (* DOWNLOAD_ATTEMPTS                                       *)
  Whole,        (* the chunks of an image                                  *)
  MaxEdition,   (* bound: the editions Ubuntu publishes                    *)
  MaxRelease,   (* bound: the releases of AndroidBox installed             *)
  None          (* no such file                                            *)

ASSUME CountsAssumption ==
  /\ Mirrors \in Nat \ {0} /\ Attempts \in Nat \ {0} /\ Whole \in Nat \ {0}
  /\ MaxEdition \in Nat \ {0} /\ MaxRelease \in Nat \ {0}

VARIABLES
  (* The world: what the mirrors serve, the release that is installed.     *)
  edition, release,
  (* The files.                                                            *)
  temp,       (* .<image>.download; an empty one is like none              *)
  base,       (* the image                                                 *)
  overlay,    (* "none", "whole", or "part": cut anywhere before its end,  *)
              (* be it empty                                               *)
  declared,   (* what it says of the image's format, if anything, is true  *)
  seed,       (* the seed's release, NoSeed or Truncated                   *)
  package,    (* androidbox-images.pkg: its release, or 0                  *)
  partial,    (* androidbox-images.raw.part is there                       *)
  images,     (* androidbox-images.raw: its release, or 0                  *)
  settings,   (* settings.json: "absent", or the disk it names: "managed"  *)
              (* or "other", the user's own or none                        *)
  (* The program.                                                          *)
  app,        (* it runs                                                   *)
  config,     (* the disk its settings name now                            *)
  opening,    (* the seed is looked at for the window, not for prepare     *)
  pc,         (* where prepare is                                          *)
  expected,   (* the edition of the manifest read                          *)
  mirror, attempt,
  from,       (* the edition of the response being read, or of the copy    *)
  skipped,    (* the last seed could not be written: the window only logs  *)
  expand,     (* materialize_images_disk: "idle", "extract" or "unlink"    *)
  guest       (* QEMU runs on the overlay                                  *)

world    == <<edition, release>>
disk     == <<base, overlay, declared>>
download == <<expected, mirror, attempt, from>>
bundle   == <<package, partial, images, expand>>
named    == <<settings, config>>
vars     == <<world, temp, disk, seed, skipped, bundle, named, app, opening, pc, download,
              guest>>

Editions  == 1..MaxEdition
Releases  == 1..MaxRelease
NoSeed    == 0
Truncated == -1
Image(e)  == [i \in 1..Whole |-> e]
IsImage(content) == \E e \in Editions : content = Image(e)

TypeOK ==
  /\ edition \in [1..Mirrors -> Editions] /\ release \in Releases
  /\ temp \in Seq(Editions) /\ Len(temp) <= Whole
  /\ base = None \/ (base \in Seq(Editions) /\ Len(base) <= Whole)
  /\ overlay \in {"none", "part", "whole"} /\ declared \in BOOLEAN
  /\ seed \in Releases \cup {NoSeed, Truncated} /\ skipped \in BOOLEAN
  /\ package \in 0..MaxRelease /\ images \in 0..MaxRelease /\ partial \in BOOLEAN
  /\ expand \in {"idle", "extract", "unlink"}
  /\ settings \in {"absent", "other", "managed"} /\ config \in {"other", "managed"}
  /\ app \in BOOLEAN /\ opening \in BOOLEAN /\ guest \in BOOLEAN
  /\ pc \in {"idle", "manifest", "base", "copy", "request", "receive", "compare",
             "overlay", "fill", "seed", "burn", "save"}
  /\ expected \in Editions /\ from \in Editions
  /\ mirror \in 1..Mirrors /\ attempt \in 1..Attempts

(* Nothing is prepared yet, or an old release has left an overlay that     *)
(* calls the image raw, and no seed; settings may be there from before.    *)
Init ==
  /\ edition = [m \in 1..Mirrors |-> 1] /\ release = 1
  /\ temp = <<>>
  /\ \/ base = None /\ overlay = "none" /\ declared = TRUE /\ settings \in {"absent", "other"}
     \/ base = Image(1) /\ overlay = "whole" /\ declared = FALSE
          /\ settings \in {"absent", "other", "managed"}
  /\ seed = NoSeed /\ skipped = FALSE
  /\ package = 1 /\ partial = FALSE /\ images = 0 /\ expand = "idle"
  /\ app = FALSE /\ config = "other" /\ opening = FALSE /\ guest = FALSE /\ pc = "idle"
  /\ expected = 1 /\ mirror = 1 /\ attempt = 1 /\ from = 1

-----------------------------------------------------------------------------
(* prepare.  Faulty variants, named for the fault, stand before the        *)
(* definition they replace.                                                *)

Rest == UNCHANGED <<world, bundle, named, app, opening, guest>>
At(here, next) == pc = here /\ pc' = next

(* repair_overlay_backing_format.  What write_overlay has cut short is     *)
(* either no QCOW2 file or has the true format: nothing to repair.         *)
Repair == declared' = (declared \/ overlay = "whole")

PrepareLocalFirst ==
  /\ app /\ ~guest /\ At("idle", "manifest") /\ opening' = FALSE
  /\ UNCHANGED <<temp, disk, seed, skipped, download, world, bundle, named, app, guest>>

(* An overlay that exists is repaired, and not looked at further.          *)
Prepare ==
  /\ app /\ ~guest
  /\ IF overlay # "none"
     THEN At("idle", "seed") /\ Repair
     ELSE At("idle", "manifest") /\ UNCHANGED declared
  /\ opening' = FALSE
  /\ UNCHANGED <<temp, base, overlay, seed, skipped, download, world, bundle, named, app,
                 guest>>

(* The digest a mirror's SHA256SUMS gives for the image; an answer that    *)
(* does not come, or is not such a list, is no answer.                     *)
Manifest(m) == edition[m]

(* remote_checksums: the first mirror that answers; or none does.          *)
ReadManifest ==
  /\ \/ At("manifest", "base") /\ \E m \in 1..Mirrors : expected' = Manifest(m)
     \/ At("manifest", "idle") /\ UNCHANGED expected
  /\ UNCHANGED <<temp, disk, seed, skipped, mirror, attempt, from>> /\ Rest

(* ensure_base_image with a local image: the user's file of some edition,  *)
(* or the managed image itself.                                            *)
UseLocal ==
  /\ \/ At("base", "overlay") /\ base = Image(expected) /\ UNCHANGED <<base, from>>
     \/ At("base", "copy") /\ base' = <<>> /\ from' = expected
     \/ At("base", "idle") /\ UNCHANGED <<base, from>>   \* it is not what the manifest says
  /\ UNCHANGED <<temp, overlay, declared, seed, skipped, expected, mirror, attempt>> /\ Rest

(* shutil.copy2 writes the image in place.                                 *)
Copy ==
  /\ \/ At("copy", "copy") /\ Len(base) < Whole /\ base' = Append(base, from)
     \/ At("copy", "overlay") /\ Len(base) = Whole /\ UNCHANGED base
     \/ At("copy", "idle") /\ UNCHANGED base             \* OSError
  /\ UNCHANGED <<temp, overlay, declared, seed, skipped, download>> /\ Rest

TrustExisting ==
  /\ IF base = None THEN At("base", "request") ELSE At("base", "overlay")
  /\ mirror' = 1 /\ attempt' = 1
  /\ UNCHANGED <<temp, disk, seed, skipped, expected, from>> /\ Rest

(* An image that exists is right, or no image ever is.                     *)
UseExistingOrDownload ==
  /\ IF base = None THEN At("base", "request")
     ELSE IF base = Image(expected) THEN At("base", "overlay")
     ELSE At("base", "idle")
  /\ mirror' = 1 /\ attempt' = 1
  /\ UNCHANGED <<temp, disk, seed, skipped, expected, from>> /\ Rest

-----------------------------------------------------------------------------
(* download_verified, one mirror after the other.                          *)

NextMirror ==
  IF mirror < Mirrors
  THEN pc' = "request" /\ mirror' = mirror + 1 /\ attempt' = 1
  ELSE pc' = "idle" /\ UNCHANGED <<mirror, attempt>>

RequestFailsOnceMore ==
  /\ pc = "request"
  /\ IF attempt <= Attempts
     THEN attempt' = attempt + 1 /\ UNCHANGED <<pc, mirror>>
     ELSE NextMirror
  /\ UNCHANGED <<temp, disk, seed, skipped, expected, from>> /\ Rest

(* The mirror is not reached, or has nothing beyond a complete temporary   *)
(* file to send (416): a ValueError, tried again Attempts times.           *)
RequestFails ==
  /\ pc = "request"
  /\ IF attempt < Attempts
     THEN attempt' = attempt + 1 /\ UNCHANGED <<pc, mirror>>
     ELSE NextMirror
  /\ UNCHANGED <<temp, disk, seed, skipped, expected, from>> /\ Rest

(* 206 goes on from what is there; 200 starts from the beginning.          *)
Respond ==
  /\ At("request", "receive")
  /\ from' = edition[mirror]
  /\ \/ Len(temp) \in 1..(Whole - 1) /\ UNCHANGED temp
     \/ temp' = <<>>
  /\ UNCHANGED <<disk, seed, skipped, expected, mirror, attempt>> /\ Rest

Receive ==
  /\ \/ At("receive", "receive") /\ Len(temp) < Whole /\ temp' = Append(temp, from)
     \/ At("receive", "compare") /\ UNCHANGED temp       \* the end, or a short answer
     \/ At("receive", "idle") /\ UNCHANGED temp          \* an OSError in mid-read
  /\ UNCHANGED <<disk, seed, skipped, download>> /\ Rest

(* The digest: the file is the image now, or it is thrown away.            *)
AcceptWholeDownload ==
  /\ pc = "compare" /\ Len(temp) = Whole
  /\ base' = temp /\ temp' = <<>> /\ pc' = "overlay"
  /\ UNCHANGED <<overlay, declared, seed, skipped, download>> /\ Rest

Accept ==
  /\ pc = "compare" /\ temp = Image(expected)
  /\ base' = temp /\ temp' = <<>> /\ pc' = "overlay"
  /\ UNCHANGED <<overlay, declared, seed, skipped, download>> /\ Rest

Mismatch ==
  /\ pc = "compare" /\ temp # Image(expected)
  /\ temp' = <<>> /\ NextMirror
  /\ UNCHANGED <<disk, seed, skipped, expected, from>> /\ Rest

-----------------------------------------------------------------------------
(* write_overlay, and the seed that ensure_seed writes.                    *)

CreateOverlay ==
  /\ At("overlay", "fill")
  /\ overlay' = "part" /\ declared' = TRUE
  /\ UNCHANGED <<temp, base, seed, skipped, download>> /\ Rest

FillOverlay ==
  /\ \/ At("fill", "seed") /\ overlay' = "whole"
     \/ At("fill", "idle") /\ UNCHANGED overlay          \* the host's disk is full
  /\ UNCHANGED <<temp, base, declared, seed, skipped, download>> /\ Rest

(* seed_version: read back from the image; a truncated one has no version, *)
(* which is its last file.                                                 *)
SeedVersion == IF seed \in Releases THEN seed ELSE NoSeed

(* write_seed packs the payload aside, then writes the image in place;     *)
(* what fails before (ValueError, OSError) leaves the old seed.            *)
WriteSeed ==
  \/ At("seed", "burn") /\ seed' = Truncated /\ skipped' = FALSE
  \/ At("seed", "idle") /\ skipped' = TRUE /\ UNCHANGED seed

SeedReady == IF opening THEN "idle" ELSE "save"

EnsureAnySeed ==
  /\ \/ SeedVersion # NoSeed /\ At("seed", SeedReady) /\ UNCHANGED seed /\ skipped' = FALSE
     \/ SeedVersion = NoSeed /\ WriteSeed
  /\ UNCHANGED <<temp, disk, download>> /\ Rest

EnsureSeed ==
  /\ \/ SeedVersion = release /\ At("seed", SeedReady) /\ UNCHANGED seed /\ skipped' = FALSE
     \/ SeedVersion # release /\ WriteSeed
  /\ UNCHANGED <<temp, disk, download>> /\ Rest

BurnSeed ==
  /\ \/ At("burn", SeedReady) /\ seed' = release /\ UNCHANGED skipped
     \/ At("burn", "idle") /\ skipped' = TRUE /\ UNCHANGED seed     \* OSError
  /\ UNCHANGED <<temp, disk, download>> /\ Rest

-----------------------------------------------------------------------------
(* The settings.                                                           *)

(* default_config, without settings: the managed disk if there is one.     *)
DiscoverDisk == IF overlay # "none" THEN "managed" ELSE "other"

LoadConfig == config' = (IF settings = "absent" THEN DiscoverDisk ELSE settings)

(* The file takes its name at once, or stays as it was.                    *)
SaveConfig(d) == settings' = d /\ config' = d

(* poll, when prepare has ended.                                           *)
PollPrepared ==
  /\ At("save", "idle")
  /\ SaveConfig("managed") \/ UNCHANGED named
  /\ UNCHANGED <<world, bundle, temp, disk, seed, skipped, app, opening, download, guest>>

(* The Settings dialog, in which the user may name another disk.           *)
Settings ==
  /\ app /\ pc = "idle" /\ ~guest
  /\ \E d \in {config, "other", DiscoverDisk} : SaveConfig(d)
  /\ UNCHANGED <<world, bundle, temp, disk, seed, skipped, app, opening, pc, download, guest>>

-----------------------------------------------------------------------------
(* The bundled images, expanded when the guest's command line is built, in *)
(* a release that carries them packed.                                     *)

Images == UNCHANGED <<world, temp, disk, seed, skipped, named, app, opening, pc, download,
                      guest>>

Materialize ==
  /\ app /\ expand = "idle" /\ images = 0 /\ package # 0
  /\ expand' = "extract" /\ partial' = TRUE
  /\ UNCHANGED <<package, images>> /\ Images

ExtractMovesPackage ==
  /\ expand = "extract"
  /\ package' = 0 /\ images' = images /\ partial' = TRUE /\ expand' = "unlink"
  /\ Images

(* The whole disk takes its name at once; anything else leaves none of it. *)
Extract ==
  /\ expand = "extract"
  /\ partial' = FALSE
  /\ \/ images' = package /\ expand' = "unlink"
     \/ UNCHANGED images /\ expand' = "idle"
  /\ UNCHANGED package /\ Images

UnlinkPackage ==
  /\ expand = "unlink" /\ expand' = "idle"
  /\ package' \in {0, package}                           \* OSError is ignored
  /\ UNCHANGED <<partial, images>> /\ Images

-----------------------------------------------------------------------------
(* The program, the guest and the world.                                   *)

(* The window loads the settings and ensures the seed of the managed disk  *)
(* (MainWindow.__init__).                                                  *)
Open ==
  /\ ~app
  /\ app' = TRUE /\ LoadConfig /\ opening' = (overlay # "none")
  /\ pc' = (IF overlay # "none" THEN "seed" ELSE "idle")
  /\ UNCHANGED <<world, bundle, settings, temp, disk, seed, skipped, download, guest>>

(* build_command: the disk must be a file (VMConfig.validate), and nothing *)
(* more is asked of it; the images disk is expanded first, and a package   *)
(* that cannot be expanded fails the start.                                *)
CommandBuilds == config = "managed" /\ overlay # "none" /\ (images # 0 \/ package = 0)

StartUnrepaired ==
  /\ app /\ pc = "idle" /\ expand = "idle" /\ ~guest
  /\ CommandBuilds /\ guest' = TRUE
  /\ UNCHANGED <<world, bundle, temp, disk, seed, skipped, named, app, opening, pc,
                 download>>

(* start_vm repairs the overlay's header.  An overlay that was cut short   *)
(* is attached like any other, as raw if it has no header: QEMU runs on    *)
(* it, or refuses it, and then there is no guest.                          *)
StartGuest ==
  /\ app /\ pc = "idle" /\ expand = "idle" /\ ~guest
  /\ CommandBuilds /\ guest' = TRUE
  /\ Repair
  /\ UNCHANGED <<world, bundle, temp, base, overlay, seed, skipped, named, app, opening, pc,
                 download>>

GuestStops ==
  /\ guest /\ guest' = FALSE
  /\ UNCHANGED <<world, bundle, temp, disk, seed, skipped, named, app, opening, pc,
                 download>>

(* Closed or killed.  (A host that loses its power is not modelled: the    *)
(* code never syncs a file, so that what was written may then be lost.)    *)
Crash ==
  /\ app
  /\ app' = FALSE /\ guest' = FALSE /\ pc' = "idle" /\ expand' = "idle"
  /\ config' = "other" /\ opening' = FALSE
  /\ UNCHANGED <<world, package, partial, images, settings, temp, disk, seed, skipped,
                 download>>

(* The installer brings its own package; the expanded disk stays.          *)
Upgrade ==
  /\ ~app /\ release < MaxRelease
  /\ release' = release + 1 /\ package' = release + 1
  /\ UNCHANGED <<edition, partial, images, expand, temp, disk, seed, skipped, named, app,
                 opening, pc, download, guest>>

Publish(m) ==
  /\ edition[m] < MaxEdition
  /\ edition' = [edition EXCEPT ![m] = @ + 1]
  /\ UNCHANGED <<release, bundle, temp, disk, seed, skipped, named, app, opening, pc, download,
                 guest>>

-----------------------------------------------------------------------------

Fetch == RequestFails \/ Respond \/ Receive \/ Accept \/ Mismatch
Disk  == Prepare \/ ReadManifest \/ UseLocal \/ Copy \/ UseExistingOrDownload
           \/ CreateOverlay \/ FillOverlay \/ EnsureSeed \/ BurnSeed \/ PollPrepared
Expansion == Materialize \/ Extract \/ UnlinkPackage
Around == Open \/ Settings \/ StartGuest \/ GuestStops \/ Crash \/ Upgrade
            \/ \E m \in 1..Mirrors : Publish(m)

Next == Disk \/ Fetch \/ Expansion \/ Around

Spec == Init /\ [][Next]_vars

-----------------------------------------------------------------------------
(* What must hold.                                                         *)

(* An overlay stands only on an image of one edition, whole, whatever      *)
(* downloads were cut, mixed or resumed and whatever copies were left half *)
(* done; a guest that runs on a whole overlay reads the image in its true  *)
(* format, even if an old release had called it raw, and has the bundled   *)
(* images expanded beside it; the settings name the managed disk only      *)
(* where there is one (prepare, download_verified, ensure_base_image,      *)
(* repair_overlay_backing_format, build_command, load_config).  It says    *)
(* nothing of an overlay that write_overlay left cut short, which the code *)
(* neither detects nor replaces: a guest may be started on it.             *)
GuestReadsImage ==
  /\ overlay # "none" => IsImage(base)
  /\ settings = "managed" \/ config = "managed" => overlay # "none"
  /\ guest => images # 0 /\ (overlay = "whole" => declared)

(* The image never changes under an overlay, which holds only the          *)
(* difference: neither a refreshed mirror nor another local image replaces *)
(* it (prepare returns an overlay that exists).                            *)
ImageStays == [][overlay # "none" => base' = base]_base

(* A program at rest has the seed of its own release beside its disk, even *)
(* after an upgrade or a seed cut short, unless writing it failed          *)
(* (ensure_seed, seed_version, MainWindow.__init__).                       *)
SeedFollowsRelease ==
  app /\ pc = "idle" /\ overlay = "whole" /\ ~skipped => seed = release

(* The bundled images are never lost: the package goes only when the disk  *)
(* it carries is whole (materialize_images_disk, extract).                 *)
ImagesKept == package # 0 \/ images # 0
=============================================================================
