----------------------------- MODULE DfuProofs -----------------------------
(* The safety properties of Dfu, for any versions, sizes and bounds.       *)
EXTENDS Dfu, TLAPS

\* A download is the one that downloading_started stands for, and what it has
\* written is at the front of the slot.
Downloading ==
  source # NoVersion =>
    /\ started /\ version = source /\ next < Blocks
    /\ "downloaded" \notin sems /\ main \notin {"updating", "reboot"}
    /\ next > 0 => secondary = [ver |-> source, blocks |-> next] /\ swap # "revert"

\* Between the last block and the reboot nothing is downloaded.
Downloaded ==
  "downloaded" \in sems =>
    /\ started /\ source = NoVersion /\ main \notin {"updating", "reboot"}
    /\ version \in Versions /\ secondary = Image(version)

Updating ==
  main \in {"updating", "reboot"} =>
    /\ started /\ source = NoVersion /\ "downloaded" \notin sems
    /\ said \in Versions /\ secondary = Image(said)

\* mcuboot is asked for a swap by the last step before the reboot, and keeps the
\* old image whole until the new one is confirmed.
Swapping ==
  /\ primary.blocks = Blocks
  /\ swap = "test" => main = "reboot"
  /\ swap = "revert" => secondary.blocks = Blocks

UpdateInv == TypeOK /\ Downloading /\ Downloaded /\ Updating /\ Swapping

LEMMA UpdateInit == Init => UpdateInv
<1> SUFFICES ASSUME Init PROVE UpdateInv
  OBVIOUS
<1>1. TypeOK
  <2>1. 0 \in 0..Blocks /\ Blocks \in 0..Blocks
    BY DfuAssumption
  <2> QED
    BY <2>1, DfuAssumption DEF Init, TypeOK, Image, Erased, CurrentVersion
<1>2. Downloading /\ Downloaded /\ Updating /\ Swapping
  BY DEF Init, Downloading, Downloaded, Updating, Swapping, Image, Erased
<1> QED
  BY <1>1, <1>2 DEF UpdateInv

\* A reset with or without a request for it.
LEMMA BootedKeeps == UpdateInv /\ Booted /\ resets' \in Nat => UpdateInv'
<1> SUFFICES ASSUME UpdateInv, Booted, resets' \in Nat PROVE UpdateInv'
  OBVIOUS
<1>1. TypeOK'
  <2>1. primary' \in {primary, secondary} /\ secondary' \in {primary, secondary}
    BY DEF Booted
  <2>2. 0 \in 0..Blocks
    BY DfuAssumption
  <2> QED
    BY <2>1, <2>2, DfuAssumption DEF UpdateInv, TypeOK, Booted, server, CurrentVersion
<1>2. Downloading' /\ Downloaded' /\ Updating'
  BY DEF Booted, Downloading, Downloaded, Updating
<1>3. Swapping'
  <2>1. swap # "none" => secondary.blocks = Blocks
    BY DEF UpdateInv, TypeOK, Swapping, Updating, Image
  <2> QED
    BY <2>1 DEF UpdateInv, TypeOK, Swapping, Booted
<1> QED
  BY <1>1, <1>2, <1>3 DEF UpdateInv

LEMMA MainKeeps == UpdateInv /\ Main => UpdateInv'
<1> SUFFICES ASSUME UpdateInv, Main PROVE UpdateInv'
  OBVIOUS
<1> USE DfuAssumption DEF UpdateInv, TypeOK, Downloading, Downloaded, Updating, Swapping,
        Image, Erased, ctx, download, client, server, boots, ghosts, flash
<1>1. CASE Boot
  BY <1>1 DEF Boot
<1>2. CASE TakeConnected
  BY <1>2 DEF TakeConnected, Take
<1>3. CASE TakeDownloading
  BY <1>3 DEF TakeDownloading, Take
<1>4. CASE TakeDownloaded
  BY <1>4 DEF TakeDownloaded, Take
<1>5. CASE RequestUpgrade
  BY <1>5 DEF RequestUpgrade
<1>6. CASE Reboot
  BY <1>6, BootedKeeps DEF Reboot
<1> QED
  BY <1>1, <1>2, <1>3, <1>4, <1>5, <1>6 DEF Main

\* A download begins only when none was begun in this boot.
LEMMA UpdateKeeps == UpdateInv /\ Update => UpdateInv'
<1> SUFFICES ASSUME UpdateInv, Update PROVE UpdateInv'
  OBVIOUS
<1>1. ~started /\ "downloaded" \notin sems /\ main \notin {"updating", "reboot"}
      /\ source = NoVersion
  BY Zenon DEF Update, Busy, UpdateInv, Downloaded, Updating, Downloading
<1>2. started' \in BOOLEAN /\ (release # current => started')
  BY Zenon DEF Update, Starts
<1>3. /\ release \in Versions /\ version' = release /\ 0 \in 0..Blocks /\ 0 < Blocks
      /\ UNCHANGED <<primary, secondary, swap, main, session, observed, release, releases,
                     resets, current, said, missed>>
      /\ due' = FALSE
  BY DfuAssumption DEF Update, UpdateInv, TypeOK, client, flash, server, boots
<1>4. CASE release = current
  <2>1. UNCHANGED <<sems, source, next, failed>>
    BY <1>4 DEF Update, download
  <2> QED
    BY <1>1, <1>2, <1>3, <2>1 DEF UpdateInv, TypeOK, Downloading, Downloaded, Updating, Swapping
<1>5. CASE release # current
  <2>1. /\ sems' = sems \union {"downloading"}
        /\ \/ source' = release /\ next' = 0 /\ failed' = failed
           \/ source' = source /\ next' = next /\ failed' = TRUE
    BY <1>5, Zenon DEF Update, download
  <2>2. TypeOK'
    BY <1>2, <1>3, <2>1 DEF UpdateInv, TypeOK
  <2>3. Downloading'
    BY <1>1, <1>2, <1>3, <1>5, <2>1 DEF Downloading
  <2>4. Downloaded' /\ Updating' /\ Swapping'
    BY <1>1, <1>3, <2>1 DEF UpdateInv, Downloaded, Updating, Swapping
  <2> QED
    BY <2>2, <2>3, <2>4 DEF UpdateInv
<1> QED
  BY <1>4, <1>5

LEMMA NoticeKeeps ==
  UpdateInv /\ (Connect \/ UpdateIgnored \/ UpdateBroken \/ Update) => UpdateInv'
<1> SUFFICES ASSUME UpdateInv, Connect \/ UpdateIgnored \/ UpdateBroken \/ Update
             PROVE  UpdateInv'
  OBVIOUS
<1> USE DfuAssumption DEF UpdateInv, TypeOK, Downloading, Downloaded, Updating, Swapping,
        Image, Erased, ctx, download, client, server, boots, ghosts, flash
<1>1. CASE Connect
  BY <1>1 DEF Connect
<1>2. CASE UpdateIgnored
  BY <1>2 DEF UpdateIgnored
<1>3. CASE UpdateBroken
  BY <1>3 DEF UpdateBroken, Busy
<1>4. CASE Update
  BY <1>4, UpdateKeeps
<1> QED
  BY <1>1, <1>2, <1>3, <1>4

\* Only the download that was begun writes, one block after the other, and never
\* to an image that mcuboot may have to go back to.
LEMMA BlockKeeps == UpdateInv /\ BlockStored => UpdateInv'
<1> SUFFICES ASSUME UpdateInv, BlockStored PROVE UpdateInv'
  OBVIOUS
<1>1. /\ started /\ version = source /\ source \in Versions /\ next < Blocks /\ next \in Nat
      /\ "downloaded" \notin sems /\ main \notin {"updating", "reboot"}
      /\ next > 0 => swap # "revert"
  BY DEF BlockStored, UpdateInv, TypeOK, Downloading
<1>2. swap = "none"
  BY <1>1 DEF BlockStored, MayErase, UpdateInv, TypeOK, Swapping
<1>3. /\ secondary' = [ver |-> source, blocks |-> next + 1] /\ next + 1 \in 0..Blocks
      /\ UNCHANGED <<primary, swap, main, version, started, session, observed, due, release,
                    releases, resets, current, said, failed, missed>>
  BY <1>1, DfuAssumption DEF BlockStored, ctx, client, server, boots, ghosts
<1>4. \/ /\ next + 1 = Blocks /\ sems' = sems \union {"downloaded"}
         /\ source' = NoVersion /\ next' = 0
      \/ next + 1 # Blocks /\ next' = next + 1 /\ UNCHANGED <<sems, source>>
  BY DEF BlockStored
<1>5. TypeOK'
  <2>1. secondary' \in [ver : Versions, blocks : 0..Blocks]
    BY <1>1, <1>3
  <2>2. sems' \subseteq {"connected", "downloading", "downloaded"}
    BY <1>4 DEF UpdateInv, TypeOK
  <2>3. source' \in Versions \union {NoVersion} /\ next' \in 0..Blocks
    BY <1>1, <1>3, <1>4, DfuAssumption
  <2> QED
    BY <1>3, <2>1, <2>2, <2>3 DEF UpdateInv, TypeOK
<1>6. Downloading'
  BY <1>1, <1>2, <1>3, <1>4, DfuAssumption DEF Downloading
<1>7. Downloaded'
  BY <1>1, <1>3, <1>4 DEF Downloaded, Image
<1>8. Updating' /\ Swapping'
  BY <1>1, <1>2, <1>3 DEF UpdateInv, Updating, Swapping
<1> QED
  BY <1>5, <1>6, <1>7, <1>8 DEF UpdateInv

LEMMA DownloadKeeps ==
  UpdateInv /\ (BlockStored \/ DownloadFails \/ Disconnect) => UpdateInv'
<1> SUFFICES ASSUME UpdateInv, BlockStored \/ DownloadFails \/ Disconnect
             PROVE  UpdateInv'
  OBVIOUS
<1> USE DfuAssumption DEF UpdateInv, TypeOK, Downloading, Downloaded, Updating, Swapping,
        Image, Erased, ctx, download, client, server, boots, ghosts, flash
<1>1. CASE BlockStored
  BY <1>1, BlockKeeps
<1>2. CASE DownloadFails
  BY <1>2 DEF DownloadFails, MayErase
<1>3. CASE Disconnect
  <2>1. failed' \in BOOLEAN
    BY <1>3, Zenon DEF Disconnect
  <2>2. 0 \in 0..Blocks
    OBVIOUS
  <2> QED
    BY <1>3, <2>1, <2>2 DEF Disconnect
<1> QED
  BY <1>1, <1>2, <1>3

LEMMA WorldKeeps == UpdateInv /\ (Release \/ LosePower) => UpdateInv'
<1> SUFFICES ASSUME UpdateInv, Release \/ LosePower PROVE UpdateInv'
  OBVIOUS
<1> USE DfuAssumption DEF UpdateInv, TypeOK, Downloading, Downloaded, Updating, Swapping,
        Image, Erased, ctx, download, client, server, boots, ghosts, flash
<1>1. CASE Release
  BY <1>1 DEF Release
<1>2. CASE LosePower
  BY <1>2, BootedKeeps DEF LosePower
<1> QED
  BY <1>1, <1>2

LEMMA StutterKeeps == UpdateInv /\ UNCHANGED vars => UpdateInv'
  BY DEF UpdateInv, TypeOK, Downloading, Downloaded, Updating, Swapping, Image, vars, boots, ctx,
     download, client, server, ghosts, flash

\* The inductive invariant: what downloading_started, sem_downloaded and the swap
\* type say of the second slot, from the first block to the confirmed boot.
THEOREM UpdateInvariant == Spec => []UpdateInv
<1>1. UpdateInv /\ [Next]_vars => UpdateInv'
  BY MainKeeps, NoticeKeeps, DownloadKeeps, WorldKeeps, StutterKeeps DEF Next
<1> QED
  BY <1>1, UpdateInit, PTL DEF Spec

\* Every reachable state is well typed, for any versions and any size of image.
THEOREM DfuTypes == Spec => []TypeOK
  BY UpdateInvariant, PTL DEF UpdateInv

\* However often power fails, and wherever in an update, mcuboot finds a whole
\* image and the one to fall back on (flash_img_prepare, boot_request_upgrade).
THEOREM NeverBricked == Spec => []AlwaysBoots
<1>1. UpdateInv => AlwaysBoots
  BY DEF UpdateInv, TypeOK, Swapping, Updating, AlwaysBoots, Image
<1> QED
  BY <1>1, UpdateInvariant, PTL

\* The version reported with UPDATING is the one in the slot, whole, whatever
\* was rolled out in the meantime (golioth_desired_update).
THEOREM ReportIsTrue == Spec => []ReportedIsFlashed
<1>1. UpdateInv => ReportedIsFlashed
  BY DEF UpdateInv, Updating, ReportedIsFlashed
<1> QED
  BY <1>1, UpdateInvariant, PTL
=============================================================================
