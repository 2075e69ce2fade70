----------------------------- MODULE CodexManaged -----------------------------
(* The managed mode of the Codex voice relay (bridges/codex_voice/managed.py): *)
(* a background updater prepares a private copy of whatever build npm has      *)
(* installed and publishes it by a rename; the launcher starts a prepared      *)
(* build that still matches, or plain Codex at once and asks for an update.    *)
(* Every command reads config.json once and later writes all of it.            *)
EXTENDS Integers, FiniteSets

CONSTANTS
    Versions,       \* builds npm may install
    Incompatible,   \* those whose helper fails its qualification
    MaxNpm,         \* bound: npm installs
    MaxSyncFaults   \* bound: crashes and failures of the network or of Windows

VARIABLES
    installed,   \* the build of the global package
    torn,        \* npm is in the middle of replacing it
    settings,    \* config.json "managed": [enabled, ready, status, attempted]
    published,   \* builds/<build> directories
    syncing,     \* the updater: [step, build, cfg], its config as it read it
    unitOn,      \* the systemd unit exists and may be started
    retryDue,    \* its last run failed: systemd starts it again in five minutes
    remove,      \* the unmanage command: "none", "disabled", "stopped", "restored", "done", "died"
    npms, syncFaults

vars == <<installed, torn, settings, published, syncing, unitOn, retryDue, remove, npms, syncFaults>>

NoBuild == 0
NoSync == [step |-> "none", build |-> NoBuild,
           cfg |-> [enabled |-> TRUE, ready |-> NoBuild, status |-> "pending", attempted |-> NoBuild]]

Init ==
    /\ installed \in Versions /\ torn = FALSE /\ settings = NoSync.cfg /\ published = {}
    /\ syncing = NoSync /\ unitOn = TRUE /\ retryDue = FALSE /\ remove = "none" /\ npms = 0 /\ syncFaults = 0

(* npm takes its time over a package: the tree it leaves meanwhile fails the   *)
(* checks of native_package.                                                   *)
NpmBegins(b) ==
    /\ npms < MaxNpm /\ npms' = npms + 1 /\ ~torn /\ torn' = TRUE /\ installed' = b
    /\ UNCHANGED <<settings, published, syncing, unitOn, retryDue, remove, syncFaults>>
NpmEnds == torn /\ torn' = FALSE
           /\ UNCHANGED <<installed, settings, published, syncing, unitOn, retryDue, remove, npms, syncFaults>>

(* prepared_entry: published, marked ready, and for this very build.           *)
Prepared(cfg, b) == cfg.ready = b /\ b \in published

(* launch: plain Codex and a request, which starts the unit unless it runs.    *)
Start == /\ syncing' = [step |-> "begin", build |-> NoBuild, cfg |-> settings] /\ retryDue' = FALSE
RequestSync == IF unitOn /\ syncing = NoSync THEN Start ELSE UNCHANGED <<syncing, retryDue>>
Launch ==
    /\ settings.enabled /\ ~torn /\ ~Prepared(settings, installed) /\ RequestSync
    /\ UNCHANGED <<installed, torn, settings, published, unitOn, remove, npms, syncFaults>>

(* Restart=on-failure, five minutes after.                                     *)
Retry ==
    /\ retryDue /\ unitOn /\ syncing = NoSync /\ Start
    /\ UNCHANGED <<installed, torn, settings, published, unitOn, remove, npms, syncFaults>>

(* The end of a sync: its whole config is written back, or nothing is.         *)
Done(cfg) == settings' = cfg /\ syncing' = NoSync /\ retryDue' = (cfg.status = "pending")
Quit == UNCHANGED <<settings, retryDue>> /\ syncing' = NoSync
Dies == UNCHANGED settings /\ syncing' = NoSync /\ retryDue' = TRUE
Outcome(s) == [syncing.cfg EXCEPT !.status = s]
SyncKeeps == UNCHANGED <<installed, torn, unitOn, remove, npms, syncFaults>>

(* native_package on a torn tree: a missing file is retried, a manifest that   *)
(* does not fit is held for inspection.                                        *)
TornPackage == torn /\ \E s \in {"held", "pending"} : Done(Outcome(s))

(* sync, up to the work: nothing to do, held for inspection, or a build that   *)
(* was published before and only has to be checked again.                      *)
SyncBegin ==
    /\ syncing.step = "begin"
    /\ \/ ~syncing.cfg.enabled /\ Quit
       \/ syncing.cfg.enabled /\ TornPackage
       \/ /\ syncing.cfg.enabled /\ ~torn
          /\ LET held == syncing.cfg.status = "held" /\ syncing.cfg.attempted = installed
             IN  IF Prepared(syncing.cfg, installed) \/ held THEN Quit
                 ELSE /\ syncing' = [step |-> IF installed \in published THEN "qualify" ELSE "prepare",
                                     build |-> installed,
                                     cfg |-> [syncing.cfg EXCEPT !.attempted = installed]]
                      /\ UNCHANGED <<settings, retryDue>>
    /\ UNCHANGED published /\ SyncKeeps

(* npm install, provisioning and qualification of a private copy, then the     *)
(* package is read again: only the build that is still installed is published. *)
StillInstalled == installed = syncing.build
Qualifies == syncing.build \notin Incompatible
Ready == [syncing.cfg EXCEPT !.ready = syncing.build, !.status = "ready"]

\* Mutated form: config.json calls the build ready before the rename.
PublishReadyFirst ==
    /\ settings' = Ready /\ UNCHANGED <<published, retryDue>>
    /\ syncing' = [syncing EXCEPT !.step = "published"]

Publish ==
    /\ published' = published \cup {syncing.build} /\ UNCHANGED <<settings, retryDue>>
    /\ syncing' = [syncing EXCEPT !.step = "published"]
SyncPrepare ==
    /\ syncing.step = "prepare"
    /\ \/ ~Qualifies /\ Done(Outcome("held")) /\ UNCHANGED published
       \/ Qualifies /\ TornPackage /\ UNCHANGED published
       \/ Qualifies /\ ~torn /\ StillInstalled /\ Publish
       \/ Qualifies /\ ~torn /\ ~StillInstalled /\ Done(Outcome("pending")) /\ UNCHANGED published
    /\ SyncKeeps
SyncPublished ==
    /\ syncing.step = "published"
    /\ \/ TornPackage
       \/ ~torn /\ Done(IF StillInstalled THEN Ready ELSE Outcome("pending"))
    /\ UNCHANGED published /\ SyncKeeps
SyncQualify ==
    /\ syncing.step = "qualify" /\ Done(Ready) /\ UNCHANGED published /\ SyncKeeps

(* The network, npm or the sleeping PC fails it; or it is killed.              *)
SyncFails ==
    /\ syncing.step \in {"prepare", "qualify"} /\ syncFaults < MaxSyncFaults /\ syncFaults' = syncFaults + 1
    /\ Done(Outcome("pending"))
    /\ UNCHANGED <<installed, torn, published, unitOn, remove, npms>>
SyncDies ==
    /\ syncing # NoSync /\ syncFaults < MaxSyncFaults /\ syncFaults' = syncFaults + 1 /\ Dies
    /\ UNCHANGED <<installed, torn, published, unitOn, remove, npms>>

(* unmanage, which takes no lock: disable and save, stop the unit (and with it *)
(* a sync it runs), put the launcher back, remove the unit, save again.        *)
Disable ==
    /\ remove = "none" /\ remove' = "disabled"
    /\ settings' = [settings EXCEPT !.enabled = FALSE]
    /\ UNCHANGED <<installed, torn, published, syncing, unitOn, retryDue, npms, syncFaults>>
StopUnit ==
    /\ remove = "disabled" /\ remove' = "stopped" /\ syncing' = NoSync /\ retryDue' = FALSE
    /\ UNCHANGED <<installed, torn, settings, published, unitOn, npms, syncFaults>>
RestoreLauncher ==
    /\ remove = "stopped" /\ remove' = "restored" /\ unitOn' = FALSE
    /\ UNCHANGED <<installed, torn, settings, published, syncing, retryDue, npms, syncFaults>>
SaveDisabled ==
    /\ remove = "restored" /\ remove' = "done"
    /\ settings' = [settings EXCEPT !.enabled = FALSE, !.status = "disabled"]
    /\ UNCHANGED <<installed, torn, published, syncing, retryDue, unitOn, npms, syncFaults>>
UnmanageFails ==
    /\ remove \in {"disabled", "stopped", "restored"} /\ remove' = "died"
    /\ UNCHANGED <<installed, torn, settings, published, syncing, retryDue, unitOn, npms, syncFaults>>

Next ==
    \/ \E b \in Versions : NpmBegins(b)
    \/ NpmEnds \/ Launch \/ Retry \/ SyncBegin \/ SyncPrepare \/ SyncPublished \/ SyncQualify
    \/ SyncFails \/ SyncDies \/ Disable \/ StopUnit \/ RestoreLauncher \/ SaveDisabled \/ UnmanageFails

Spec == Init /\ [][Next]_vars

-----------------------------------------------------------------------------
TypeOK ==
    /\ installed \in Versions /\ published \subseteq Versions
    /\ \A c \in {settings, syncing.cfg} :
        c.ready \in Versions \cup {NoBuild} /\ c.status \in {"pending", "ready", "held", "disabled"}
    /\ syncing.step \in {"none", "begin", "prepare", "published", "qualify"}
    /\ remove \in {"none", "disabled", "stopped", "restored", "done", "died"}

(* Safety: a build the launcher would start as ready was published, whole,     *)
(* before config.json said so: a crash between the two leaves plain Codex.     *)
ReadyIsPublished == settings.ready # NoBuild => settings.ready \in published

(* What the README of the relay says of unmanage ("This stops the updater").   *)
(* The code lets one run on: an updater that was running when unmanage began   *)
(* writes its whole configuration back, enabled, before it is stopped, and a   *)
(* launch before the launcher is put back starts it again.                     *)
UpdaterStopped == remove = "done" => syncing = NoSync

(* Safety: no build whose helper does not qualify is ever published, whatever  *)
(* npm installed while the copy was prepared.                                  *)
OnlyQualified == published \cap Incompatible = {}

(* Both: what config.json has the launcher start is whole and qualified.       *)
PreparedBuilds == ReadyIsPublished /\ OnlyQualified
=============================================================================
