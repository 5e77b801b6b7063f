-------------------------------- MODULE Dfu --------------------------------
(***************************************************************************)
(* The firmware update of samples/dfu: the main thread reports what goes   *)
(* on and asks mcuboot for the new image; callbacks on the client thread   *)
(* begin a download when the desired version changes and write it to the   *)
(* second slot of the flash.  Three semaphores and one flag connect them.  *)
(* The device may lose power between any two steps.                        *)
(*                                                                         *)
(* What the request engine promises of a download (blocks in order, one    *)
(* end) is in ReqContract; golioth_fw_desired_parse is MapDecode.          *)
(***************************************************************************)
EXTENDS Naturals

CONSTANTS
  Versions,     \* of firmware
  Factory,      \* the one on a new device
  NoVersion,    \* an empty version string, or no download
  Blocks,       \* blocks of an image
  MaxReleases,  \* bound: releases rolled out
  MaxResets     \* bound: losses of power

ASSUME DfuAssumption ==
  /\ Factory \in Versions /\ NoVersion \notin Versions
  /\ Blocks \in Nat \ {0} /\ {MaxReleases, MaxResets} \subseteq Nat

VARIABLES
  primary, secondary, \* the slots of the flash: version and blocks written
  current,      \* current_version_str
  swap,         \* what mcuboot does at the next reset: none, test or revert
  main,         \* the main thread
  sems,         \* the semaphores that have been given
  version,      \* update_ctx.version
  started,      \* update_ctx.downloading_started
  source, next, \* what is being downloaded and the block to come
  session,      \* the client is connected
  observed,     \* and observes the desired version
  due,          \* a notification of the desired version is under way
  release,      \* the release rolled out, or NoVersion
  releases, resets,
  said,         \* ghost: the version reported with the state UPDATING
  failed,       \* ghost: this boot gave an update up
  missed        \* ghost: the device was not told of the release

flash == <<primary, secondary, swap>>
download == <<source, next>>
ctx == <<version, started>>
client == <<session, observed>>
server == <<release, releases>>
boots == <<current, resets>>
ghosts == <<said, failed, missed>>
vars == <<flash, main, sems, ctx, download, client, due, server, boots, ghosts>>

Image(v) == [ver |-> v, blocks |-> Blocks]
\* flash_img_erase_if_needed; also what is only partly erased.
Erased(v) == [ver |-> v, blocks |-> 0]

\* current_version_init: the header of the running image may be unreadable.
CurrentVersion(image) == {image.ver, NoVersion}

Init ==
  /\ primary = Image(Factory) /\ secondary = Erased(Factory)
  /\ swap = "none" /\ current \in CurrentVersion(primary)
  /\ main = "boot" /\ sems = {} /\ version = NoVersion /\ started = FALSE
  /\ source = NoVersion /\ next = 0 /\ session = FALSE /\ observed = FALSE /\ due = FALSE
  /\ said = NoVersion /\ failed = FALSE /\ missed = FALSE
  /\ release = NoVersion /\ releases = 0 /\ resets = 0

-----------------------------------------------------------------------------
(* main.                                                                   *)

\* boot_write_img_confirmed may fail, which is logged.
Boot ==
  /\ main = "boot" /\ main' = "start"
  /\ swap' \in {"none", swap}
  /\ UNCHANGED <<primary, secondary, sems, ctx, download, client, due, server, boots, ghosts>>

\* k_sem_take, and golioth_fw_report_state, whose failure is logged.
Take(sem, from, to) ==
  /\ main = from /\ sem \in sems
  /\ sems' = sems \ {sem} /\ main' = to
  /\ UNCHANGED <<flash, ctx, download, client, due, server, boots, failed, missed>>

TakeConnected == Take("connected", "start", "idle") /\ UNCHANGED said
TakeDownloading == Take("downloading", "idle", "downloading") /\ UNCHANGED said
TakeDownloaded == Take("downloaded", "downloading", "updating") /\ said' = version

\* boot_request_upgrade.
RequestUpgrade ==
  /\ main = "updating"
  /\ \/ main' = "reboot" /\ swap' = "test" /\ UNCHANGED failed
     \/ main' = "ended" /\ failed' = TRUE /\ UNCHANGED swap
  /\ UNCHANGED <<primary, secondary, sems, ctx, download, client, due, server, boots>>
  /\ UNCHANGED <<said, missed>>

-----------------------------------------------------------------------------
(* Callbacks of the client thread.                                         *)

\* golioth_on_connect: the observation is answered with the desired version, or
\* it could not be requested, which is logged.
Connect ==
  /\ main # "boot" /\ ~session
  /\ session' = TRUE /\ sems' = sems \union {"connected"}
  /\ \E answered \in BOOLEAN :
       observed' = answered /\ due' = answered /\ missed' = ~answered
  /\ UNCHANGED <<flash, main, ctx, download, server, boots, said, failed>>

\* golioth_desired_update returns early: a download was started, or nothing is
\* rolled out.  Mistaken: only a download under way counts.
BusyWhileDownloading == source # NoVersion
Busy == started

UpdateIgnored ==
  /\ session /\ due /\ (Busy \/ release = NoVersion)
  /\ due' = FALSE
  /\ UNCHANGED <<flash, main, sems, ctx, download, client, server, boots, ghosts>>

\* It cannot be parsed, but for the version; the next one may be.
UpdateBroken ==
  /\ session /\ due /\ ~Busy /\ release # NoVersion
  /\ due' = FALSE /\ version' \in {version, release} /\ missed' = TRUE
  /\ UNCHANGED <<flash, main, sems, started, download, client, server, boots, said, failed>>

\* The version is compared with the running one, if that is known.  Mistaken: the flag
\* is set before that.
StartsAlways == TRUE
Starts == release # current

Update ==
  /\ session /\ due /\ ~Busy /\ release # NoVersion
  /\ due' = FALSE /\ version' = release /\ started' = Starts
  /\ IF release = current THEN UNCHANGED <<sems, download, failed>>
     ELSE /\ sems' = sems \union {"downloading"}
          /\ \/ source' = release /\ next' = 0 /\ UNCHANGED failed
             \/ failed' = TRUE /\ UNCHANGED download
  /\ UNCHANGED <<flash, main, client, server, boots, said, missed>>

\* flash_img_prepare, before the first block; mistaken: without the swap type.
MayEraseAlways == TRUE
MayErase == swap # "revert"

\* data_received.
BlockStored ==
  /\ source # NoVersion /\ (next = 0 => MayErase)
  /\ secondary' = [ver |-> source, blocks |-> next + 1]
  /\ IF next + 1 = Blocks
     THEN /\ sems' = sems \union {"downloaded"}
          /\ source' = NoVersion /\ next' = 0
     ELSE next' = next + 1 /\ UNCHANGED <<sems, source>>
  /\ UNCHANGED <<primary, swap, main, ctx, client, due, server, boots, ghosts>>

\* It returns an error, after the slot was erased or before; or the engine ends
\* the download with one.
DownloadFails ==
  /\ source # NoVersion
  /\ \/ UNCHANGED secondary
     \/ next = 0 /\ MayErase /\ secondary' = Erased(source)
  /\ source' = NoVersion /\ next' = 0 /\ failed' = TRUE
  /\ UNCHANGED <<primary, swap, main, sems, ctx, client, due, server, boots, said, missed>>

\* The engine ends what is on its list.
Disconnect ==
  /\ session /\ session' = FALSE /\ observed' = FALSE /\ due' = FALSE
  /\ source' = NoVersion /\ next' = 0
  /\ failed' = (failed \/ source # NoVersion)
  /\ UNCHANGED <<flash, main, sems, ctx, server, boots, said, missed>>

-----------------------------------------------------------------------------
(* The server, and the device as a whole.                                  *)
Release ==
  /\ releases < MaxReleases /\ releases' = releases + 1
  /\ release' \in Versions \ {release} /\ due' = observed
  /\ missed' = (missed /\ ~observed)
  /\ UNCHANGED <<flash, main, sems, ctx, download, client, boots, said, failed>>

\* mcuboot swaps the slots for a test, and swaps them back if it was not
\* confirmed.
Booted ==
  /\ swap' = IF swap = "test" THEN "revert" ELSE "none"
  /\ IF swap = "none" THEN UNCHANGED <<primary, secondary>>
                      ELSE primary' = secondary /\ secondary' = primary
  /\ current' \in CurrentVersion(primary')
  /\ main' = "boot" /\ sems' = {} /\ version' = NoVersion /\ started' = FALSE
  /\ source' = NoVersion /\ next' = 0 /\ session' = FALSE /\ observed' = FALSE /\ due' = FALSE
  /\ said' = NoVersion /\ failed' = FALSE /\ missed' = FALSE
  /\ UNCHANGED server

Reboot == main = "reboot" /\ Booted /\ UNCHANGED resets

LosePower == resets < MaxResets /\ resets' = resets + 1 /\ Booted

Main ==
  \/ Boot \/ TakeConnected \/ TakeDownloading \/ TakeDownloaded \/ RequestUpgrade
  \/ Reboot

Next ==
  \/ Main
  \/ Connect \/ UpdateIgnored \/ UpdateBroken \/ Update
  \/ BlockStored \/ DownloadFails \/ Disconnect
  \/ Release \/ LosePower

Spec == Init /\ [][Next]_vars

\* The main thread runs, the client reconnects, a download goes on or ends, and
\* a session lasts for a notification once in a while.
FairSpec ==
  /\ Spec
  /\ WF_vars(Main) /\ WF_vars(Connect) /\ WF_vars(BlockStored \/ DownloadFails)
  /\ SF_vars(UpdateIgnored \/ UpdateBroken \/ Update)

-----------------------------------------------------------------------------
TypeOK ==
  /\ primary \in [ver : Versions, blocks : 0..Blocks]
  /\ secondary \in [ver : Versions, blocks : 0..Blocks]
  /\ swap \in {"none", "test", "revert"}
  /\ main \in {"boot", "start", "idle", "downloading", "updating", "reboot", "ended"}
  /\ sems \subseteq {"connected", "downloading", "downloaded"}
  /\ {version, source, release, said, current} \subseteq Versions \union {NoVersion}
  /\ started \in BOOLEAN /\ next \in 0..Blocks
  /\ session \in BOOLEAN /\ observed \in BOOLEAN /\ due \in BOOLEAN
  /\ failed \in BOOLEAN /\ missed \in BOOLEAN
  /\ releases \in Nat /\ resets \in Nat

\* Whenever the power fails, mcuboot finds a whole image to run, and one to go
\* back to if the running one was not confirmed: nothing is written to a slot
\* that is to be swapped, although notifications keep coming until the reboot
\* (downloading_started) and after an unconfirmed boot (flash_img_prepare).
AlwaysBoots ==
  primary.blocks = Blocks /\ (swap # "none" => secondary.blocks = Blocks)

\* The version reported as being installed is that of the image in the slot, and
\* all of it is there: CHANGELOG.md:107, "handling of multiple desired firmware
\* changes in `samples/dfu/`, which previously caused corrupted firmware upgrade".
ReportedIsFlashed ==
  main \in {"updating", "reboot"} => secondary = Image(said)

\* README.rst:13, "The device will detect this change and automatically download
\* and install": the newest release runs in the end, however power and sessions
\* come and go.  A boot that gave an update up is excluded: downloading_started
\* stays set, sem_downloaded is never given, and only a reset helps.  So is a
\* device that was not told: the observation could not be requested, or the
\* notification not parsed.
InstallsRelease == []<>(release \in {NoVersion, primary.ver} \/ failed \/ missed)
=============================================================================
