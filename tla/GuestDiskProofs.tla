--------------------------- MODULE GuestDiskProofs ---------------------------
(***************************************************************************)
(* What GuestDisk's run checks on a small instance, proved for any number  *)
(* of mirrors, attempts, chunks, editions and releases.                    *)
(*                                                                         *)
(* None of the properties is inductive: what makes an overlay sound is     *)
(* what prepare knew at the step before, so Inv says, for each place       *)
(* prepare can be at, what the files already are.                          *)
(***************************************************************************)
EXTENDS GuestDisk, SequenceTheorems, TLAPS

(* Where prepare looks for an image: there is no overlay yet.              *)
Fetching == {"manifest", "base", "copy", "request", "receive", "compare", "overlay"}

Fresh == pc \in Fetching => overlay = "none"

Made ==
  /\ pc = "fill" => overlay = "part"
  /\ pc \in {"seed", "burn", "save"} => overlay # "none"

(* The copy is as far as it is of one edition.                             *)
Copied ==
  pc = "copy" => /\ base \in Seq(Editions)
                 /\ \A i \in 1..Len(base) : base[i] = from

Sound == overlay # "none" \/ pc = "overlay" => IsImage(base)

AppRuns == pc # "idle" \/ expand # "idle" => app

Expanding ==
  /\ expand = "extract" => package # 0
  /\ expand = "unlink" => images # 0

GuestRuns ==
  guest => /\ app /\ pc = "idle" /\ expand = "idle"
           /\ overlay # "none" /\ images # 0
           /\ overlay = "whole" => declared

NamesADisk == settings = "managed" \/ config = "managed" => overlay # "none"

SeedIsCurrent ==
  app /\ pc \in {"idle", "save"} /\ overlay = "whole" /\ ~skipped => seed = release

Inv ==
  /\ TypeOK /\ Fresh /\ Made /\ Copied /\ Sound /\ AppRuns /\ Expanding /\ GuestRuns
  /\ NamesADisk /\ SeedIsCurrent /\ ImagesKept

-----------------------------------------------------------------------------
(* An image is a file of Whole chunks.                                     *)
LEMMA ImageIsAFile ==
  ASSUME NEW e \in Editions
  PROVE  Image(e) \in Seq(Editions) /\ Len(Image(e)) = Whole
  BY CountsAssumption DEF Image

(* A file of Whole equal chunks is an image.                               *)
LEMMA WholeIsImage ==
  ASSUME NEW f \in Seq(Editions), NEW e \in Editions,
         Len(f) = Whole, \A i \in 1..Len(f) : f[i] = e
  PROVE  f = Image(e)
  BY CountsAssumption DEF Image

(* One chunk more.                                                         *)
LEMMA OneMore ==
  ASSUME NEW f \in Seq(Editions), NEW e \in Editions
  PROVE  /\ Append(f, e) \in Seq(Editions) /\ Len(Append(f, e)) = Len(f) + 1
         /\ (\A i \in 1..Len(f) : f[i] = e)
              => \A i \in 1..Len(Append(f, e)) : Append(f, e)[i] = e
  OBVIOUS

(* A file of which nothing is there yet.                                  *)
LEMMA NoChunk == <<>> \in Seq(Editions) /\ Len(<<>>) = 0 /\ Len(<<>>) <= Whole
PROOF
  <1>1. <<>> \in Seq(Editions) /\ Len(<<>>) = 0
    OBVIOUS
  <1> QED
    BY <1>1, CountsAssumption

(* A disk with nothing on it, or one of an old release, is sound.          *)
LEMMA InvStarts == Init => Inv
PROOF
  <1> SUFFICES ASSUME Init PROVE Inv
    OBVIOUS
  <1>1. 1 \in Editions /\ 1 \in Releases /\ 0 \in 0..MaxRelease /\ 1 \in 0..MaxRelease
    BY CountsAssumption DEF Editions, Releases
  <1>2. Image(1) \in Seq(Editions) /\ Len(Image(1)) = Whole
    BY <1>1, ImageIsAFile
  <1>3. <<>> \in Seq(Editions) /\ Len(<<>>) <= Whole
    BY NoChunk
  <1>4. TypeOK
    <2>1. edition \in [1..Mirrors -> Editions]
      BY <1>1 DEF Init
    <2>2. temp \in Seq(Editions) /\ Len(temp) <= Whole
      BY <1>3, CountsAssumption DEF Init
    <2>3. base = None \/ (base \in Seq(Editions) /\ Len(base) <= Whole)
      BY <1>2, CountsAssumption DEF Init
    <2>4. /\ seed \in Releases \cup {NoSeed, Truncated}
          /\ package \in 0..MaxRelease /\ images \in 0..MaxRelease
          /\ mirror \in 1..Mirrors /\ attempt \in 1..Attempts
      BY CountsAssumption DEF Init
    <2> QED
      BY <1>1, <2>1, <2>2, <2>3, <2>4 DEF Init, TypeOK
  <1>5. Sound
    BY <1>1 DEF Init, Sound, IsImage
  <1> QED
    BY <1>4, <1>5 DEF Init, Inv, Fresh, Fetching, Made, Copied, AppRuns, Expanding, GuestRuns,
                       NamesADisk, SeedIsCurrent, ImagesKept

-----------------------------------------------------------------------------
(* Every step keeps the types.                                             *)
LEMMA TypeStays == TypeOK /\ Copied /\ [Next]_vars => TypeOK'
PROOF
  <1> SUFFICES ASSUME TypeOK, Copied, [Next]_vars PROVE TypeOK'
    OBVIOUS
  <1> USE DEF TypeOK, world, disk, download, bundle, named
  <1>1. CASE Prepare
    <2>1. declared' \in BOOLEAN /\ opening' \in BOOLEAN
      BY <1>1, Zenon DEF Prepare, Repair
    <2>2. pc' \in {"seed", "manifest"}
      BY <1>1 DEF Prepare, At
    <2> QED
      BY <1>1, <2>1, <2>2 DEF Prepare
  <1>2. CASE ReadManifest
    BY <1>2, CountsAssumption DEF ReadManifest, At, Rest, Manifest
  <1>3. CASE UseLocal
    <2>1. base' = base \/ base' = <<>>
      BY <1>3 DEF UseLocal
    <2>2. base' = None \/ (base' \in Seq(Editions) /\ Len(base') <= Whole)
      BY <2>1, NoChunk
    <2> QED
      BY <1>3, <2>2 DEF UseLocal, At, Rest
  <1>4. CASE Copy
    <2>1. CASE base' = base
      BY <1>4, <2>1 DEF Copy, At, Rest
    <2>2. CASE Len(base) < Whole /\ base' = Append(base, from)
      <3>1. base \in Seq(Editions)
        BY <1>4 DEF Copy, At, Copied
      <3>2. base' \in Seq(Editions) /\ Len(base') <= Whole
        BY <2>2, <3>1, CountsAssumption
      <3> QED
        BY <1>4, <2>2, <3>2 DEF Copy, At, Rest
    <2> QED
      BY <1>4, <2>1, <2>2 DEF Copy
  <1>5. CASE UseExistingOrDownload
    BY <1>5, CountsAssumption DEF UseExistingOrDownload, At, Rest
  <1>6. CASE CreateOverlay
    BY <1>6, CountsAssumption DEF CreateOverlay, At, Rest
  <1>7. CASE FillOverlay
    BY <1>7, CountsAssumption DEF FillOverlay, At, Rest
  <1>8. CASE EnsureSeed
    <2>1. skipped' \in BOOLEAN
      BY <1>8, Zenon DEF EnsureSeed, WriteSeed
    <2>2. pc' \in {"burn", "idle", "save"}
      BY <1>8 DEF EnsureSeed, WriteSeed, At, SeedReady
    <2>3. seed' \in {seed, Truncated}
      BY <1>8 DEF EnsureSeed, WriteSeed
    <2> QED
      BY <1>8, <2>1, <2>2, <2>3 DEF EnsureSeed, Rest
  <1>9. CASE BurnSeed
    <2>1. skipped' \in BOOLEAN
      BY <1>9, Zenon DEF BurnSeed
    <2>2. pc' \in {"idle", "save"}
      BY <1>9 DEF BurnSeed, At, SeedReady
    <2>3. seed' \in {seed, release}
      BY <1>9 DEF BurnSeed
    <2> QED
      BY <1>9, <2>1, <2>2, <2>3 DEF BurnSeed, Rest
  <1>10. CASE PollPrepared
    BY <1>10, CountsAssumption DEF PollPrepared, At, SaveConfig
  <1>11. CASE RequestFails
    BY <1>11, CountsAssumption DEF RequestFails, Rest, NextMirror
  <1>12. CASE Respond
    <2>1. from' \in Editions
      BY <1>12 DEF Respond
    <2>2. temp' \in Seq(Editions) /\ Len(temp') <= Whole
      BY <1>12, NoChunk DEF Respond
    <2> QED
      BY <1>12, <2>1, <2>2 DEF Respond, At, Rest
  <1>13. CASE Receive
    <2>1. temp' \in Seq(Editions) /\ Len(temp') <= Whole
      <3>1. CASE temp' = temp
        BY <3>1
      <3>2. CASE Len(temp) < Whole /\ temp' = Append(temp, from)
        BY <3>2, CountsAssumption
      <3> QED
        BY <1>13, <3>1, <3>2 DEF Receive
    <2> QED
      BY <1>13, <2>1 DEF Receive, At, Rest
  <1>14. CASE Accept
    BY <1>14, CountsAssumption DEF Accept, Rest
  <1>15. CASE Mismatch
    BY <1>15, CountsAssumption DEF Mismatch, Rest, NextMirror
  <1>16. CASE Materialize
    BY <1>16, CountsAssumption DEF Materialize, Images
  <1>17. CASE Extract
    <2>1. partial' \in BOOLEAN
      BY <1>17, Zenon DEF Extract
    <2> QED
      BY <1>17, <2>1 DEF Extract, Images
  <1>18. CASE UnlinkPackage
    BY <1>18, CountsAssumption DEF UnlinkPackage, Images
  <1>19. CASE Open
    BY <1>19, CountsAssumption DEF Open, LoadConfig, DiscoverDisk
  <1>20. CASE Settings
    BY <1>20, CountsAssumption DEF Settings, SaveConfig, DiscoverDisk
  <1>21. CASE StartGuest
    BY <1>21, CountsAssumption DEF StartGuest, CommandBuilds, Repair
  <1>22. CASE GuestStops
    <2>1. guest' \in BOOLEAN
      BY <1>22, Zenon DEF GuestStops
    <2> QED
      BY <1>22, <2>1 DEF GuestStops
  <1>23. CASE Crash
    BY <1>23, CountsAssumption DEF Crash
  <1>24. CASE Upgrade
    BY <1>24, CountsAssumption DEF Upgrade, Releases
  <1>25. ASSUME NEW m \in 1..Mirrors, Publish(m) PROVE TypeOK'
    BY <1>25, CountsAssumption DEF Publish, Editions
  <1>26. CASE UNCHANGED vars
    BY <1>26 DEF vars
  <1> QED
    BY <1>1, <1>2, <1>3, <1>4, <1>5, <1>6, <1>7, <1>8, <1>9, <1>10, <1>11, <1>12, <1>13,
       <1>14, <1>15, <1>16, <1>17, <1>18, <1>19, <1>20, <1>21, <1>22, <1>23, <1>24, <1>25,
       <1>26 DEF Next, Disk, Fetch, Expansion, Around

-----------------------------------------------------------------------------
(* What the files are, as far as no chunk is looked at.                    *)
Control == /\ Fresh /\ Made /\ AppRuns /\ Expanding /\ GuestRuns /\ NamesADisk
           /\ SeedIsCurrent /\ ImagesKept

(* Every step leaves the files what the next one takes them to be.         *)
LEMMA ControlStays == TypeOK /\ Control /\ [Next]_vars => Control'
PROOF
  <1> SUFFICES ASSUME TypeOK, Control, [Next]_vars PROVE Control'
    OBVIOUS
  <1> USE DEF Control, Fresh, Made, AppRuns, Expanding, GuestRuns, NamesADisk, SeedIsCurrent,
              ImagesKept, Fetching, world, disk, download, bundle, named
  <1>1. CASE Prepare
    BY <1>1 DEF Prepare, At, Repair
  <1>2. CASE ReadManifest
    BY <1>2 DEF ReadManifest, At, Rest
  <1>3. CASE UseLocal
    BY <1>3 DEF UseLocal, At, Rest
  <1>4. CASE Copy
    BY <1>4 DEF Copy, At, Rest
  <1>5. CASE UseExistingOrDownload
    BY <1>5 DEF UseExistingOrDownload, At, Rest
  <1>6. CASE CreateOverlay
    BY <1>6 DEF CreateOverlay, At, Rest
  <1>7. CASE FillOverlay
    BY <1>7 DEF FillOverlay, At, Rest
  <1>8. CASE EnsureSeed
    <2>1. SeedVersion = release => seed = release
      BY CountsAssumption DEF TypeOK, SeedVersion, NoSeed, Releases
    <2> QED
      BY <1>8, <2>1 DEF EnsureSeed, At, Rest, WriteSeed, SeedReady
  <1>9. CASE BurnSeed
    BY <1>9 DEF BurnSeed, At, Rest, SeedReady
  <1>10. CASE PollPrepared
    BY <1>10 DEF PollPrepared, At, SaveConfig
  <1>11. CASE RequestFails
    BY <1>11 DEF RequestFails, Rest, NextMirror
  <1>12. CASE Respond
    BY <1>12 DEF Respond, At, Rest
  <1>13. CASE Receive
    BY <1>13 DEF Receive, At, Rest
  <1>14. CASE Accept
    BY <1>14 DEF Accept, Rest
  <1>15. CASE Mismatch
    BY <1>15 DEF Mismatch, Rest, NextMirror
  <1>16. CASE Materialize
    BY <1>16 DEF Materialize, Images
  <1>17. CASE Extract
    BY <1>17 DEF Extract, Images
  <1>18. CASE UnlinkPackage
    BY <1>18 DEF UnlinkPackage, Images
  <1>19. CASE Open
    BY <1>19 DEF Open, LoadConfig, DiscoverDisk
  <1>20. CASE Settings
    BY <1>20 DEF Settings, SaveConfig, DiscoverDisk
  <1>21. CASE StartGuest
    BY <1>21 DEF StartGuest, CommandBuilds, Repair
  <1>22. CASE GuestStops
    BY <1>22 DEF GuestStops
  <1>23. CASE Crash
    BY <1>23 DEF Crash
  <1>24. CASE Upgrade
    <2>1. package' # 0
      BY <1>24 DEF Upgrade, TypeOK, Releases
    <2> QED
      BY <1>24, <2>1 DEF Upgrade
  <1>25. ASSUME NEW m \in 1..Mirrors, Publish(m) PROVE Control'
    BY <1>25 DEF Publish
  <1>26. CASE UNCHANGED vars
    BY <1>26 DEF vars
  <1> QED
    BY <1>1, <1>2, <1>3, <1>4, <1>5, <1>6, <1>7, <1>8, <1>9, <1>10, <1>11, <1>12, <1>13,
       <1>14, <1>15, <1>16, <1>17, <1>18, <1>19, <1>20, <1>21, <1>22, <1>23, <1>24, <1>25,
       <1>26 DEF Next, Disk, Fetch, Expansion, Around

-----------------------------------------------------------------------------
(* What the image is: a step changes it only while there is no overlay,    *)
(* and then it copies a chunk or puts a whole image in its place.          *)

(* The steps that may write the image.                                     *)
Writing == UseLocal \/ Copy \/ Accept

(* Any other step leaves the image alone.                                  *)
LEMMA OnlyWritingWrites ==
  ASSUME [Next]_vars, ~Writing
  PROVE  base' = base
  BY DEF Writing, Next, Disk, Fetch, Expansion, Around, vars, disk, Rest, Prepare, ReadManifest,
         UseExistingOrDownload, CreateOverlay, FillOverlay, EnsureSeed, BurnSeed, PollPrepared,
         RequestFails, Respond, Receive, Mismatch, Materialize, Extract, UnlinkPackage, Images,
         Open, Settings, StartGuest, GuestStops, Crash, Upgrade, Publish

(* No writing step leaves an overlay, or starts with one.                  *)
LEMMA WritesBeforeOverlay ==
  ASSUME Fresh, Writing
  PROVE  overlay = "none" /\ overlay' = "none"
  BY DEF Fresh, Fetching, Writing, UseLocal, Copy, Accept, At, Rest, disk

(* The copy starts in UseLocal, and is gone on with by Copy alone.         *)
LEMMA OnlyCopyCopies ==
  ASSUME [Next]_vars, pc' = "copy"
  PROVE  UseLocal \/ Copy \/ UNCHANGED <<pc, base, from>>
  <1> USE DEF disk, download, Rest, Images, At
  <1>1. ASSUME Disk PROVE UseLocal \/ Copy
    BY <1>1 DEF Disk, Prepare, ReadManifest, UseExistingOrDownload, CreateOverlay, FillOverlay,
                EnsureSeed, WriteSeed, SeedReady, BurnSeed, PollPrepared
  <1>2. ~Fetch
    BY DEF Fetch, RequestFails, NextMirror, Respond, Receive, Accept, Mismatch
  <1>3. ASSUME Expansion \/ Around \/ UNCHANGED vars PROVE UNCHANGED <<pc, base, from>>
    BY <1>3 DEF Expansion, Around, vars, Materialize, Extract, UnlinkPackage, Open, Settings,
                StartGuest, GuestStops, Crash, Upgrade, Publish
  <1> QED
    BY <1>1, <1>2, <1>3 DEF Next

(* A copy that grows is of one edition still.                              *)
LEMMA CopiedStays == TypeOK /\ Copied /\ [Next]_vars => Copied'
PROOF
  <1> SUFFICES ASSUME TypeOK, Copied, [Next]_vars, pc' = "copy"
               PROVE  base' \in Seq(Editions) /\ \A i \in 1..Len(base') : base'[i] = from'
    BY DEF Copied
  <1>1. CASE UseLocal
    <2>1. base' = <<>>
      BY <1>1 DEF UseLocal, At
    <2> QED
      BY <2>1, NoChunk
  <1>2. CASE Copy
    <2>1. pc = "copy" /\ base' = Append(base, from) /\ from' = from
      BY <1>2 DEF Copy, At, download
    <2>2. base \in Seq(Editions) /\ \A i \in 1..Len(base) : base[i] = from
      BY <2>1 DEF Copied
    <2>3. from \in Editions
      BY DEF TypeOK
    <2> QED
      BY <2>1, <2>2, <2>3, OneMore
  <1>3. CASE UNCHANGED <<pc, base, from>>
    BY <1>3 DEF Copied
  <1> QED
    BY <1>1, <1>2, <1>3, OnlyCopyCopies

(* Prepare goes on to the overlay only with a whole image.                 *)
LEMMA SoundStays == TypeOK /\ Fresh /\ Made /\ Copied /\ Sound /\ [Next]_vars => Sound'
PROOF
  <1> SUFFICES ASSUME TypeOK, Fresh, Made, Copied, Sound, [Next]_vars,
                      overlay' # "none" \/ pc' = "overlay"
               PROVE  IsImage(base')
    BY DEF Sound
  <1>t. expected \in Editions /\ from \in Editions
    BY DEF TypeOK
  <1>1. CASE Writing
    <2>1. pc' = "overlay"
      BY <1>1, WritesBeforeOverlay
    <2>2. CASE UseLocal
      BY <1>t, <2>1, <2>2 DEF UseLocal, At, IsImage
    <2>3. CASE Copy
      <3>1. pc = "copy" /\ Len(base) = Whole /\ base' = base
        BY <2>1, <2>3 DEF Copy, At
      <3>2. base = Image(from)
        BY <1>t, <3>1, WholeIsImage DEF Copied
      <3> QED
        BY <1>t, <3>1, <3>2 DEF IsImage
    <2>4. CASE Accept
      BY <1>t, <2>4 DEF Accept, IsImage
    <2> QED
      BY <1>1, <2>2, <2>3, <2>4 DEF Writing
  <1>2. CASE ~Writing
    <2>1. base' = base
      BY <1>2, OnlyWritingWrites
    <2>2. overlay # "none" \/ pc = "overlay" \/ (UseExistingOrDownload /\ base = Image(expected))
      BY <1>2 DEF Made, Writing, Next, Disk, Fetch, Expansion, Around, vars, disk, Rest, At, Prepare,
           ReadManifest, UseExistingOrDownload, CreateOverlay, FillOverlay, EnsureSeed, WriteSeed,
           SeedReady, BurnSeed, PollPrepared, RequestFails, NextMirror, Respond, Receive,
           Mismatch, Materialize, Extract, UnlinkPackage, Images, Open, Settings, StartGuest,
           GuestStops, Crash, Upgrade, Publish
    <2> QED
      BY <1>t, <2>1, <2>2 DEF Sound, IsImage
  <1> QED
    BY <1>1, <1>2

(* Every step keeps the invariant.                                         *)
LEMMA InvStays == Inv /\ [Next]_vars => Inv'
  BY TypeStays, ControlStays, CopiedStays, SoundStays DEF Inv, Control

(* It holds in every state of every behaviour.                             *)
LEMMA InvHolds == Spec => []Inv
  BY InvStarts, InvStays, PTL DEF Spec

-----------------------------------------------------------------------------
(* The theorems.                                                           *)

(* Every file and every place of the program is one the model has: no      *)
(* counter of mirrors or attempts, no length of a file leaves its range.   *)
THEOREM TypeCorrect == Spec => []TypeOK
PROOF
  <1>1. Inv => TypeOK
    BY DEF Inv
  <1> QED
    BY <1>1, InvHolds, PTL

(* Whatever was cut, mixed, resumed or left half done, an overlay stands   *)
(* on one whole image; a guest that runs on a whole overlay reads that     *)
(* image in its true format, with the bundled images beside it.  Of an     *)
(* overlay cut short nothing is claimed but that its image is whole.       *)
THEOREM GuestAlwaysReadsImage == Spec => []GuestReadsImage
PROOF
  <1>1. Inv => GuestReadsImage
    BY DEF Inv, Sound, NamesADisk, GuestRuns, GuestReadsImage
  <1> QED
    BY <1>1, InvHolds, PTL

(* The image under an overlay is never replaced.                           *)
THEOREM ImageAlwaysStays == Spec => ImageStays
PROOF
  <1>1. Inv /\ [Next]_vars => [overlay # "none" => base' = base]_base
    BY OnlyWritingWrites, WritesBeforeOverlay DEF Inv
  <1> QED
    BY <1>1, InvHolds, PTL DEF Spec, ImageStays

(* A program at rest has the seed of its own release.                      *)
THEOREM SeedAlwaysFollowsRelease == Spec => []SeedFollowsRelease
PROOF
  <1>1. Inv => SeedFollowsRelease
    BY DEF Inv, SeedIsCurrent, SeedFollowsRelease
  <1> QED
    BY <1>1, InvHolds, PTL

(* The bundled images are never lost.                                      *)
THEOREM ImagesAlwaysKept == Spec => []ImagesKept
PROOF
  <1>1. Inv => ImagesKept
    BY DEF Inv
  <1> QED
    BY <1>1, InvHolds, PTL
=============================================================================
