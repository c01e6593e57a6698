# A TLA+ model of the SK-D840N OpenWrt firmware

The repository holds a root filesystem for the SK-D840N router (OpenWrt
24.10.8 with LuCI, prebuilt programs and the shell, ucode and C sources that
glue them together), the scripts that build and pack it, and a few host tools.
This directory models the parts of it that have state and concurrency worth
checking: the upgrade of the firmware first, since a mistake there leaves a
router that does not boot, then the web interface, LuCI, which is most of the
code: what its pages are built on, and the pages and widgets that keep state.

Paths below are relative to the repository; `rootfs/` is the root filesystem of
the device.

## 1. Inventory

### Firmware upgrade
`rootfs/sbin/sysupgrade`, `rootfs/lib/upgrade/*`, `scripts/pack_sysupgrade.sh`,
`rootfs/lib/preinit/80_mount_root`, `rootfs/etc/init.d/done`, the LuCI view
`flash.js`.

* State: image files `/tmp/sysupgrade.img` and `/tmp/firmware.bin`, the settings
  archive `/tmp/sysupgrade.tgz`, the validator's `/tmp/sysupgrade.meta` and
  `/tmp/skd-sysupgrade-check`, the unpacked payloads in `/tmp/skd-sysupgrade`,
  the MTD partitions `dtb`, `root`, `kernel`, and `/sysupgrade.tgz` in the root
  partition.
* Operations: fetch, validate, save settings, call procd, validate again, kill
  everything, pivot to RAM, unpack, check the layout, write the three
  partitions, reboot, restore the settings.
* Interaction: sessions run as separate processes and share files under `/tmp`
  without locks; `ubus call system sysupgrade` hands the request to procd, which
  replaces itself by `upgraded`; that runs `stage2` and `do_stage2`.
* Hard: concurrent sessions, check against use of the image file, power loss and
  I/O errors between the writes, exit codes nobody looks at.
* Correct when: what is flashed was verified; nothing is erased that cannot be
  replaced; the kernel is written last; settings survive; it always ends in a
  reboot.

### Restoring the settings
`rootfs/lib/preinit/80_mount_root`, `uci_apply_defaults` in
`rootfs/etc/init.d/boot`, `rootfs/etc/init.d/done`.

* State: `/sysupgrade.tgz`, `/etc/passwd` (and group, shadow), its copy in
  `/tmp`, the configuration, the scripts in `/etc/uci-defaults`, the changes
  they stage in `/tmp/.uci`, and what of all this has reached the flash.
* Operations: copy, unpack over the root, append the accounts the archive lacks,
  `sync`; run each script and remove it if it succeeds, commit, `sync`;
  `init.d/done` removes the archive at the end of the boot.
* Hard: power loss between any two of them, and before the flash is synced.
* Correct when: after any number of interrupted boots the accounts of both the
  image and the backup exist, the settings are the ones of the backup and
  migrated, and the archive never overwrites newer ones.

### LuCI apply, confirm and rollback
`rootfs/usr/share/ucode/luci/controller/admin/uci.uc`,
`rootfs/www/luci-static/resources/ui.js` (`UI.changes`), rpcd (binary).

* State: the pending changes and the running configuration, rpcd's rollback
  timer and session, the rollback token in the null session, the state and the
  deadline of each browser.
* Operations: apply with rollback, apply unchecked, confirm, revert, and rpcd's
  timeout.
* Hard: timers of browser, token and rpcd are set in different places and to
  different values; answers get lost; several browsers share one token.
* Correct when: a configuration that cuts the browser off is rolled back, and
  what the browser tells the user is what happened.

### package-manager-call
`rootfs/usr/libexec/package-manager-call`.

* State: `/tmp/ipkg.lock`, `/tmp/ipkg.out`, `/tmp/ipkg.err`.
* Operations: lock, run opkg, read the output, unlock, remove the files.
* Hard: the lock file is removed after it was released.
* Correct when: one opkg runs at a time and each caller gets its own output.

### LuCI: the cache of the configuration and the running page
`uci.js`, `luci.js`, `rpc.js` (all under `rootfs/www/luci-static/resources/`, as
everything of LuCI below).

* State: what was loaded, and the overlays of created, changed and deleted
  sections (`uci.js`); the queue of polled functions, the tick and its timer; the
  calls waiting for the next frame and the batches on their way; the classes
  that were required.
* Operations: load, add, clone, remove, set, unset, move, get, save, reorder;
  add, remove, start and stop polling; batch, answer, lose and settle a call;
  ask for access after a denial; fetch, compile and make a class.
* Hard: a save whose answer is lost and is retried; the answers of a batch are
  told apart by their places; lost replies while the session expires; classes
  that require each other.
* Correct when: the page edits a document, and what is saved is what it showed;
  every call is settled with its own answer; polling goes on, and ends with the
  session; a circle of classes is an error and not a silence.

### LuCI: forms
`form.js`: fields (`FormFields`), tables (`GridRows`), JSON documents
(`JSONConfig`).

* State: what the fields hold, which are shown, what they were loaded with, the
  rows, the section that Add has made, the dialog, the save on its way.
* Hard: dependencies among fields in any order; a field that is refused among
  others that are written; dialogs that are built while others are dismissed; a
  save that is cut off between one of its steps and the next.
* Correct when: what is shown is what should be, what is saved is what is shown,
  and the table has the sections the user wanted.

### LuCI: widgets
`ui.js`: dropdowns, dynamic lists, the file browser, tabs.

* State: elements of the page, hidden inputs, the item that is dragged, listings
  on their way, the tab of each group in the session store.
* Hard: the same value is kept in two or three places; handlers keep references
  to elements that are gone; listings cross.
* Correct when: what the form reads is what is selected, no item is lost or
  there twice, a file that is picked exists, the tab that was chosen stays.

### LuCI: network and firewall
`network.js`, `firewall.js`, `view/firewall/zones.js`,
`view/network/wireless.js`.

* State: zones, rules, interfaces, wireless networks and what refers to them,
  all by name; the running state with the gathering under way; rows and dialogs
  of the wireless page with the scan that is polled.
* Hard: renaming and deleting what others refer to, in several configurations
  of which some may not be loaded; promises that read before an earlier write;
  a flush during a gathering.
* Correct when: no name dangles, a state asked for afresh is not older than the
  one before, switching one radio on does not switch on its other networks.

### LuCI: package manager and repository keys
`view/package-manager.js`, `view/system/repokeys.js`.

* State: the lists and the rows made from them, the command under way, uploads;
  the key directory, its listing, and each key on its way.
* Hard: downloads that cross; keys pasted, dropped and fetched at once; the order
  of versions and the closure of dependencies.
* Correct when: the page shows what is installed, the dialog names everything a
  package needs, no upload is left, a key that is installed fits the package
  manager and is there once.

### Other components
* Failsafe wait: `30_failsafe_wait`, `40_run_failsafe_hook`: a timer, one reader
  per console, signal traps and the main process share three files and a lock.
* Firewall: `fw4`, `main.uc`, `fw4.uc`, the hotplug script. Start, stop, reload
  and restart under a lock; restart is a stop and a start.
* procd service API: `procd.sh`, `rc.common`, `service.sh`, `reload_config`.
* Network protocols: `netifd-proto.sh`, `dhcp.script`, the proto handlers.
* Ethernet and address tools: the C programs `if_addr` and `eth_setup`.
* Board configuration: `board_detect`, `config_generate` and the helpers of the
  migration scripts.
* Packet steering: `packet-steering.uc` spreads queues over CPUs.
* LuCI dispatcher, HTTP and RPC: request parsing, sessions, menu look-up.
* Other LuCI pages and libraries: `cbi.js`, `validation.js`, `fs.js`, status
  pages, forms that only declare fields.
* Build pipeline, the host tool `tftp.py`, buttons, binaries and data.

`PROJECT.json` lists each with its sources and status, and the hazards with the
line where each bites.

## 2. Modules

| module | models | extends |
| --- | --- | --- |
| `FirmwareImage` | an image and the checks on it, as operators | |
| `ImageCheck` | overlapping runs of `validate_firmware_image`, step by step | `FirmwareImage` |
| `ImageCheckProofs` | theorems about `ImageCheck` | `ImageCheck`, `TLAPS` |
| `Sysupgrade` | the upgrade from the command line to the next boot | `FirmwareImage` |
| `SysupgradeProofs` | theorems about `Sysupgrade` | `Sysupgrade`, `TLAPS` |
| `UciApply` | browsers, `uci.uc` and rpcd: apply, confirm, roll back | |
| `FirstBoot` | preinit restore, uci-defaults, `done`, power losses | |
| `FirstBootProofs` | theorems about `FirstBoot` | `FirstBoot`, `TLAPS` |
| `PackageManagerCall` | concurrent calls of `package-manager-call` | |
| `LuciCallsProofs` | theorems about `UciApply` and `PackageManagerCall` | both, `TLAPS` |
| `UciDocument` | what `uci.js` promises: a document | |
| `InOrder` | finite sets in the order of a number | |
| `InOrderProofs` | lemmas about `InOrder` | `InOrder`, `TLAPS` |
| `UciCache` | the overlays of `uci.js` and its save; implements `UciDocument` | `InOrder` |
| `LuciRuntime` | polling, batches of calls, the end of a session | `InOrder` |
| `LuciBaseProofs` | theorems about `LuciRuntime` and `UciCache` | both, `InOrderProofs`, `TLAPS` |
| `ClassLoader` | `L.require` | |
| `FormFields`, `GridRows`, `JSONConfig` | forms | |
| `Dropdown`, `DynamicList`, `FileBrowser`, `TabMenus` | widgets | |
| `FirewallZones`, `NetworkConfig` | zones, interfaces and what refers to them | |
| `NetworkState`, `NetMasks`, `WirelessNetworks` | running state, masks, the wireless page | |
| `PackagePage`, `PackageDeps` | the package manager: page, versions and dependencies | |
| `RepoKeys` | the repository keys page | |
| `LuciPages` | the pages and widgets from `ClassLoader` on, one at a time, but for `NetMasks` and `PackageDeps` | `RepoKeys` |
| `LuciWidgetsProofs` | lemmas about the dropdown, list, tabs, packages, files, class loader and table rows | `LuciPages`, `InOrderProofs`, `TLAPS` |
| `LuciPagesProofs` | lemmas about the other pages; theorems about `LuciPages` and `RepoKeys` | `LuciWidgetsProofs` |
| `MCImages` | the images of the instances | `FirmwareImage` |
| `MCSysupgrade`, `MCImageCheck`, `MCFirstBoot` | instances for TLC | |
| `MCLuciCalls` | instances of `UciApply` and `PackageManagerCall`, either one | both |
| `MCLuciBase` | instances of `UciCache` and `LuciRuntime`, either one | both |
| `MCLuci` | an instance of `LuciPages`, with `NetMasks` and `PackageDeps` | `LuciPages` |

### FirmwareImage
An image is a record of what the checks tell apart: the fwtool metadata, the
board lists, the compat version, the members of the tar archive, the `BOARD=`
line, whether the checksums match, and the payload sizes. `FwtoolCheckImage`
follows `fwtool_check_image`, `PlatformCheckImage` follows
`platform_check_image`; their parts (`ControlOk`, `SumsOk`, `SizesOk`) take the
unpacked directory as an argument, so that `ImageCheck` can use them on a
directory that holds files of several images. `fwtool_check_signature` returns 0
for every image because the image ships no `/usr/bin/ucert`.

### ImageCheck
One command of the scripts per step for callers that overlap, some of which keep
the settings (`SavesConfig`) or ignore the minor compat version
(`IgnoresMinor`). `meta` is `/tmp/sysupgrade.meta`, `dir` and `exists` are
`/tmp/skd-sysupgrade-check`, each file remembered by the image it came from.
`disturbed` is a history variable: another run was active during this one. Two
facts come out: an undisturbed run returns `ValidateFirmwareImage` of its image,
with its own options, whatever is lying around, and a disturbed run may accept
an image that fails on its own.

### Sysupgrade
A session is one run of `/sbin/sysupgrade`; `pc` is where it is. `file` holds
the two image files, an image or `"cut"` while it is being written; `confTar` is
the settings archive; `procd` is `"serving"`, `"validating"` or `"replaced"`;
`stage` is where stage2 and `platform_do_upgrade` are; `flash` gives each
partition the image it comes from and whether it is complete. A validation is
two actions, `CheckStart` and `CheckEnd`: when anything interferes in between
(another validation, or a write to the file) its verdict is arbitrary, which is
what `ImageCheck` shows. `slipped` is a history variable: procd's own validation
was disturbed, or the file was written between it and the kill. `Configure`
copies the file of `-f` and looks whether it is an archive, which ends the
session if it is not; `ArchiveEnd` makes the archive of a session that keeps the
settings, but none where the running system is a RAM disk (`ramdisk`).
`MtdWrite` erases, and `MtdWritten` or `MtdFail` ends the call. `Boot` is the
loss of everything in `/tmp`, and the preinit restore as one step.

### UciApply
Per browser, `ui` is what `UI.changes` of its page shows, `left` its deadline,
`auth` whether its `confirm_auth` is the token of the entry, and `link` its one
request: where it is on the device, or its answer. On the device, `pending` and
`running` are the changes and the configuration in force, `rpcd` is the trial
(owner, timer, what to go back to) and `token` the rollback entry of the null
session. `fate` is a history variable: what became of the last change of each
browser, kept, on trial or undone. `uci_apply` is `RpcdApply` and `SetToken`,
`uci_confirm` is `CheckToken`, `RpcdConfirm` and `ClearToken`: one step per ubus
call, so that requests of other browsers and the timer come in between. An
answer to the apply that is lost leaves the page as it is (`Unheard`, the state
`"silent"`): the request is rejected and nothing handles that. `sess` is the
session `uci_confirm` has read before it calls rpcd. A change is good or
`"cut"`: with one of these in force no request gets through (`Reachable`).
`Tick` counts the three clocks down; rpcd's timer is punctual, and so is the
network unless `Lossy`. `LoadPage` is `rollback_pending` in `footer.ut`, which
hands the token to every page. rpcd is a binary: its part is modelled from how
`uci.uc` uses it and marked external.

### FirstBoot
`phase` is the next step of the boot. `now` is the file system as programs see
it, and `flash` has, for each item, every version that a power loss may leave:
a write adds one, `sync` leaves only the last. Files are not ordered among each
other, so the model assumes less of JFFS2 than it gives. A file that tar is
unpacking may be torn. `PowerLoss` picks a version of each item and empties
RAM. Scripts of `/etc/uci-defaults` come in four kinds: they commit, they only
stage (`uci set` without commit, as `00_uhttpd_ubus` does), they fail, or they
come with the archive (`10_disable_services`, which `sysupgrade` adds to it).

### PackageManagerCall
`lockFile` is the file the name `/tmp/ipkg.lock` stands for, `lockFd` the file
each call has open as descriptor 200: after `rm -f` the two differ. `outFd` says
whether the file opkg writes to still has the name `/tmp/ipkg.out`. `report` is
whose output a call read. `alone` is a history variable for `OwnReport`.

### UciCache and UciDocument
`device` is the configuration of the device, `values` what was loaded of it,
`creates`, `changes` and `deletes` are the overlays of the same names; `touched`
tells an overlay that is there but empty from one that is not, which `save` and
`reorderSections` do. A save is a batch that the device serves (`RpcdSaves`),
its answers (`Answered`), the order (`RpcdOrders`) and the reload (`Finish`); it
may fail at any of these. `IsDocument` is the refinement: with `doc` the
sections in the order of `sections()`, each with what `get()` says of it, every
step is an edit of `UciDocument`, or changes nothing the page sees. The records
that `sections()` hands out are `Recorded`: they lay the changes over what was
loaded, and an option that was deleted is still in them until somebody calls
`get()` of the section. A batch of which the device serves only a part is not
modelled. A move takes a section out (`Place`, `Spliced`) and numbers all of
them anew (`Reindex`). `NameAssumption` has at most 1000 names, since `uci.js`
gives what it adds the index `1000 + newidx` (`uci.js:20`): behind everything
that is loaded only as long as that is less. `FreshNames` stands for rpcd, which
finds names that are not in use.

### InOrder
`Rank` counts who comes before a member; `ByKey` lists a finite set by rank,
`Ascending` a set of numbers, and `Selected` what a sequence has at given places.
Calls of a batch, entries of the poll queue and sections are put in order with
these, and not with folds, so that theorems about the order need no induction.

### LuciRuntime and ClassLoader
An entry of `queue` has the function and `r`, whether its last call has settled;
`calls` has each call's state and whether it is the question for access that the
interceptor of `luci.js` asks. `LoseReply` cuts a reply short. In `ClassLoader`
`class` is what stands under each name in `classes`, and `from` the chain of the
requests that wait.

### Pages and widgets
Each module has the variables its page keeps in closures, elements and sections,
and one action per handler or per continuation of a promise: what comes after an
`await` or `then` is an action of its own wherever something else can run in
between, or wherever it can fail. A save in a dialog is the longest of these: it
is sent, served (or not, or served and not read again), drawn, and only then is
the dialog closed; `saving` of `GridRows` says how far it is, `fresh` which
sections still have the name the page has made up. A click on the head of a
table is no action: `handleSort` searches the head for rows, finds none and
sorts nothing. `trouble`, `odd`, `overlapped`, `stale` and the like are history
variables: they note that requests have crossed, or that something was refused,
for properties that hold but for this (section 3). `LuciPages` chooses a page at
first and gives each module its own variables among `v1` to `v16`; the pages do
not run at the same time, as a browser shows one. `RepoKeys` keeps variables of
its own, which rest while another page is open. `MCLuci` adds what pages only
compute (`PackageDeps`, `NetMasks`). What a handler does to several items one
after the other is stated by its outcome where that has a short form: which
values are added to a list (`AddItems`), which item of a dropdown stays selected
because one must (`LastStays`), which classes are fetched before a circle is
found (`Require`).

`PackageDeps` takes the packages in one order (`Listing`) with what they depend on
(`Graph`), with or without a version, and what they provide (`Provided`), which may
be the name of another. As in the code, a name that was seen is passed over,
whatever version is asked for now. The item with the text field of a dropdown
(`TextField`) is selected where there is no other.

## 3. What the runs check

| run | instance | shows |
| --- | --- | --- |
| `MCSysupgrade` | 1 session, 5 images, 9 command lines, flash or RAM disk, 2 faults | safety and liveness of one upgrade; settings survive |
| `MCSysupgradeTwo` | 2 sessions, 3 images, 2 command lines, 1 fault | nothing unverified is flashed but in one window; no caller of procd hangs |
| `MCImageCheck` | 2 callers, 6 images | undisturbed verdicts are right; the directory is removed |
| `MCLuciCalls` | 1 browser, default times, nothing lost while reachable; 3 processes, `flock` may fail and takes no turns | the page tells what happened, a cut is undone; own reports, nothing left behind, every call returns |
| `MCBoot` | 4 scripts, 2 power losses | the archive stays until it is safe and never comes back; scripts get done |
| `MCLuciBase` | 2 sections, 3 edits, 1 failed save; 1 polled function, 1 lost reply | the cache is a document; calls are settled and polling stops |
| `MCLuci` | 16 pages and widgets, 2 to 4 of each thing | see below |

The properties of `MCLuci` are conjunctions over the pages:

| property | says |
| --- | --- |
| `FormatFits`, `DuplicatesNeedOverlap` | a key that was installed fits the package manager; it is there twice only if two were on their way at once |
| `PagesCalculate` | versions are ordered as numbers and texts; a dialog without an error names all a package needs; masks are prefixes |
| `ShownIsCurrent` | packages, pages of rows, picked files, buttons of the wireless page |
| `WidgetsAgree` | hidden inputs and selection, list and combobox, stored tab and active pane |
| `NamesResolve` | rules and their zones, references and their interfaces, wireless networks and their places |
| `FormsAreObeyed` | fields shown, options saved, networks of a zone, sections and rows of a table, sections of a document |
| `NothingIsLeftBehind` | uploads, scans that are polled, circles of classes |
| `ValuesSurvive` | no step empties a dropdown that must have a value, doubles an item, or gives a name that is taken |
| `NothingGoesBack` | no step shows an older state after a flush, or wakes a network that was off |

Violations, each a finding in `PROJECT.json`:

| run | property | what happens |
| --- | --- | --- |
| `MCCheckRace` | `ValidMeansOwnImage` | two validations share a directory; a corrupt image is valid |
| `MCImageExchanged` | `VerifiedAnyway` | another session replaces `/tmp/sysupgrade.img` after procd's validation: a corrupt image is flashed |
| `MCUciShortRollback` | `ToldApplied` | `option rollback` below 90: the token dies first, the page reports success, rpcd rolls back |
| `MCBootPowerLoss` | `Migrated` | power fails after scripts were removed: the archive is unpacked again and nothing migrates it |
| `MCPackageLock` | `OneAtATime` | the lock file is removed under a waiting call: two run opkg |

Limits of the properties that hold. Some hold for these instances and not for
others that the code allows; TLC shows each with a change of constants:

* `VerifiedUnlessForced` excepts an image that was exchanged between procd's
  validation and the kill, or whose validation was disturbed (`slipped`);
  `VerifiedAnyway` does not, and is violated.
* `SettingsKept` holds for one session. With two that keep the settings the second
  truncates `/tmp/sysupgrade.tgz` and is killed before it has filled it. From a RAM
  disk no archive is made, which the property excepts.
* `ArchiveMatchesRequest` admits an archive that is cut short if something failed:
  when the copy of the file of `-f` fails half way, nobody looks at its status, and
  the truncated archive is appended.
* `NoConfigAcrossCompat` excepts `-n` together with `-f`, which is validated without
  `SAVE_CONFIG` and flashed with it.
* `FlashesWhatWasAsked` excepts an image that does not exist (`CopyMissing`):
  `readlink -f` hides that, and what an earlier call left in `/tmp` is flashed.
* `ToldApplied` and `CutIsUndone` hold for one browser. With two, the end of one
  confirmation erases the token of the next apply, whose page gets 204, reports
  success, and is rolled back; and a confirmation that was checked against an
  earlier apply may confirm a later one that cuts the browsers off, since
  `RpcdConfirm` looks at the session only.
* `ToldRolledBack`: on a lossy network the answer to a successful confirmation
  may come after the deadline; the page then reports a rollback.
* `WaitingIsTold` is about pages that have heard the answer to their apply. Of the
  others it is false: a page whose answer is lost stays silent.
* `CompleteWithoutFaults`: with a power loss between `Unpack` and
  `AddMissingLines` the accounts of the image are gone.

The properties of the LuCI modules except what the code does get wrong. Each
exception was found by TLC as a violation of the property without it:

* `uci.js`: an option deleted, looked at with `get(conf, sid)`, set and deleted
  again stays on the device; after a delete in the same save, created sections
  take the wrong names and moves are not sent; a save whose answer is lost is
  repeated in full, so anonymous sections are there twice.
* `luci.js`: a circle of classes that is entered at two places is not seen: each
  waits for the other, and no error is shown.
* `form.js`: dependencies are worked out in two passes, which is too few for a
  chain of three fields in reverse order (the property excepts every form in
  which more than one field comes before one it depends on); when a field is
  refused, the others have been written to the cache and go out with the next
  save; a grid's dialog that cannot be built leaves the section it has added,
  dismissing another dialog removes it, and a save that comes back closes
  whatever dialog is open; a save of a dialog that is cut off after the cache
  was written, as when the access check is lost, leaves the section without a
  row, and Dismiss then looks for it under the name it had before; a deletion
  that could not be saved leaves the row; when the cache cannot be read again,
  nothing is said of the table; `CBIJSONConfig.add` counts the sections of a
  type for a name and may hit one that is taken.
* `ui.js`: a group of tabs whose panes are all empty has no tab to select, which
  raises an error; listings of the file browser that cross leave the older one, and
  one that fails shows an empty directory; `draggedItem` outlives its item.
* `network.js`: a gathering that is overtaken by a later one replaces the newer
  state with its own; `maskToPrefix` takes 255.128.255.0 for a prefix;
  `renameNetwork` leaves what DHCP, rules and zones refer to;
  `WifiDevice.deleteWifiNetwork` calls `uci.delete`, which does not exist.
* `firewall.js`, `zones.js`: a zone renamed and given networks in one save loses
  the networks; a new zone may take a name that is there; deleting a zone
  without a name deletes the rules without source or destination.
* `wireless.js`: Add enables the radio and wakes its other networks while the
  rows stay as drawn, so that Enable disables; a save that replaces the dialog of
  a scan leaves the scan polled.
* `package-manager.js`: two downloads that cross leave packages listed as
  installed that were removed; a dependency that was met without a version passes
  over the version asked for later, and a package that another one is to replace is
  not looked at again, so a dialog without an error may leave either unmet; an
  upload whose removal fails stays in `/tmp`.
* `repokeys.js`: two keys that are added at once are both written, though equal;
  a dropped or fetched file may have the name of one that is there.

### Bounds and why they are enough
One session with two faults reaches every action; a fault is a power loss, an
I/O error or a full RAM disk, and two of them cover one that breaks an upgrade
and one that breaks its repair. Two sessions are enough for interference: the
shared files have one content at a time, so a third session can only do what the
second one could. The command lines are the ones whose options the properties
tell apart, `-f` with and without `-n` and in a test run among them. The images
are one per outcome of the checks. Sizes are in MiB so that "fits exactly" (8,
1, 241) and "one too many" are both there.

In `UciApply` one tick is 30 seconds when `Minimum` is 3; only the order of the
three expiries matters, and a minimum of 3 leaves ticks before, between and
after them. In `FirstBoot` there is one script of each kind, the failing one
early; two power losses cover one during the recovery from another. In
`PackageManagerCall` three processes are one that runs, one that waits on a file
that lost its name and one that comes later, and `MCInode` has a file for each
and one more, so that a new one is always free.

In `UciCache` three edits are enough for each of the exceptions above but the
first, which takes four and is noted in `history.relapsed`; two sections that
differ tell which one moved. In `LuciRuntime` one function that is also removed,
and the calls of the user, make batches of up to three calls; every second tick
polls, so a tick may come with nothing to do. The pages of `MCLuci` have two or
three of what they list: two that cross, or are swapped, and one more that must
stay as it is. Clicks of the user are bounded where a page could go on for ever:
three on a table (add or edit, save, dismiss), four in the file browser (open,
pick or enter, delete or upload, and one that crosses), two commands in the
package manager. Masks are checked for the octets 0, 64, 128, 254 and 255, in
which there is each case of the loop, and version numbers for all pairs of two
characters. `Documents`, `FourForms`, `DependencyGraphs`, `ProvidedNames` and
`RequireLists` in `MCLuci` enumerate the inputs of the modules that take one.

### Fairness
`Revalidate` is procd waiting for its child and `Stage2Step` is a process that
runs on its own; both are weakly fair, as processes that wait for nobody.
Sessions wait for users and networks and have no fairness, and nothing forces a
fault. `UpgradeEnds` and `CallAnswered` need no more. In `UciApply` rpcd's
timer, pages (JavaScript timers) and the device are weakly fair; a request is
served or lost, never pending for ever, and a lost one need not be said to
anybody; `Tick` is strongly fair because a busy network can disable it again and
again (a tick waits for the requests of a network that loses nothing), and no
stretch of real time is that busy. Users have no fairness. In `FirstBoot` a boot
goes on by itself. In `PackageManagerCall` every process that has the lock runs
on and opkg ends (`Work`), and `flock` returns when nobody else takes the lock
any more: `Lock` is weakly fair for each process, and being disabled again and
again by others it promises no turn. `LockFails` has no fairness: nobody is let
out of the queue by an error. `CallReturns` holds all the same, because every
call that ends removes the name of the lock file: the next ones lock another
file, and overtake a call that waits only as long as its file has the name.

In `LuciRuntime` the interval timer and the frames come by themselves, and every
request is answered or times out: weak fairness of `Ticks`, `Flush` and, for each
call, of its batch being served or received. The other modules of LuCI are
checked for safety only.

`CHECK_DEADLOCK FALSE` in the `Sysupgrade` runs: a device whose flash is
incomplete is dead and does nothing; in the runs of `MCLuciCalls`: a change that
was applied for good and cuts the browser off leaves it nothing to do; and in
`MCLuci`, where clicks are bounded and some pages only compute.

## 4. What is proved

`SysupgradeProofs` proves, for every set of sessions, images, options and
faults, that `Spec` implies `TypeOK`, `OnlyFaultsBreakFlash`,
`PreflightBeforeErase`, `KernelLast` and `VerifiedUnlessForced`. The assumptions
are the ones of `FirmwareImage` and `Sysupgrade` (types of the constants, and
`Option` non-empty). `OnlyFaultsBreakFlash` says nothing about the stages
between the writes, so it is not inductive: `Inv` adds `TypeOK`, that all
sessions are dead from the unpacking on, that the payloads are unpackable and
the layout verified from the check of the layout on, how much of the flash
belongs to the unpacked image at each stage (`Progress`), and that what procd
found valid is what will be unpacked, and then what is, unless it has slipped
(`Vetted`). The proof has one lemma per group of actions for types
(`SessionType`, `Stage2Type`, `BootType`), for progress (`SessionProgress`,
`Stage2Progress`) and for what was validated (`SessionVetted`); `WhoErases` says
which two actions touch the flash, and the action properties follow from it and
`Inv`.

The last part of `SysupgradeProofs` has one session, any images, options and
number of faults, and proves `FlashesWhatWasAsked`, `SettingsKept`,
`ArchiveMatchesRequest` and `NoConfigAcrossCompat`. With two sessions they are
not to be had: nothing locks the files under `/tmp` (section 3). The flash is
written long after the command line was read, by a process that has only a
request and some files; so `One` follows the session through all that: which
files it has fetched and written when it calls procd, that the request procd
works on is its own and was checked with its own options, and that the archive
is the one it has made. `SessionAlone`, `SessionChecked` and `SessionArchived`
go through the steps of the session, and `SystemAlone`, `SystemChecked` and
`SystemArchived` through those of procd, stage2 and the boot. `Complete` says
that without a fault no archive is cut short but while it is written. None of
the four has a hypothesis on the command lines, nor on the faults: what the code
gets wrong with `-f` is excepted inside the properties (section 3).

`ImageCheckProofs` proves, for any number of callers and any images, that `Spec`
implies `UndisturbedVerdict` and `CleansUp`, from `FirmwareAssumption` and
`ImageCheckAssumption`. `Inv` adds what makes them inductive: `OwnRun` says what a
run that nobody overlaps has found out at each of its steps (that the metadata is
its own, which members are unpacked so far and that they are its own, which tests
the image has passed), `Tidy` that whoever has made the directory has yet to remove
it, and `Counting` how far each loop over the members is. A step of another run
cannot disturb `OwnRun`, because that run would be active; `StartVerdict`,
`ExtractVerdict`, `TestVerdict` and `EndVerdict` go through the steps of the run
itself.

The first part of `LuciCallsProofs` proves that `Spec` implies `TypeOK` for any
number of browsers and any network, and `ToldApplied` and `ToldRolledBack` for
one browser, `Lossy` = FALSE and every `Rollback` of at least `Minimum`. The
page believes a "204" that also stands for an expired token, so the invariant
`Told` says that the token outlives the timer of rpcd while rpcd may still roll
back, and that no answer on its way says otherwise. That is about the timer;
`ToldApplied` is about what became of the change, also when the timer is gone.
`Settled` says which pages have no timer running, and that one that was never
answered has one only while it is cut off; `Kept`, that a page that says
"applied", or waits without a timer before its deadline, has a change that
stays. `ToldRolledBack` compares clocks: the page says so when its own deadline
has passed. `Timed` has the timer of rpcd and the token run out together, and
`Awaited` the deadline of the page with them, or else the confirmation has come
through and is about to be heard (`Waiting`). The conditions are needed:
`MCUciShortRollback` has a shorter `Rollback`, and section 3 says what two
browsers and a lossy network do.

`FirstBootProofs` proves, for every set of scripts and any number of power
losses, that `Spec` implies `TypeOK`, `ArchiveUntilSafe`, `NeverRestoredAgain`
and `CompleteWithoutFaults`, from `FirstBootAssumption`. The second and the
third speak of what is on the flash now, and depend on what was there in earlier
phases; `Inv` adds `Current` (what programs see is one of the versions a power
loss may leave) and `Progress`: during a restore every version has the archive,
from its sync on every version has the settings and accounts of the backup, and
after the first complete boot no version has the archive.
`CompleteWithoutFaults` rests on a second invariant, `Uninterrupted`: until
power fails, the accounts of the image are in the file system, in `/tmp/passwd`,
or in both, and each migration is in the settings, staged, or still to run; a
script is removed only after its turn, since no two are next at once
(`NextIsOne`). `LaterIsSafe`, `LaterWrite` and `LaterSync` are what the steps
after the restore share; `PreinitInv`, `BootScriptInv`, `RunningInv` and
`PowerLossInv` go through the actions.

The second part of `LuciCallsProofs` proves, for any number of processes, that
`CallSpec` implies `OwnReport` and `NothingLeft`, from
`PackageManagerAssumption`. The lock does not exclude callers in general
(`MCPackageLock`), so `CallInv` says what it does: holders of the same file
exclude each other (`Exclusive`), a call under which nobody has cleaned up has
the same file open as everyone in the subshell (`Shared`), and so the report is
empty or its own (`Undisturbed`).

The part of `LuciPagesProofs` about keys proves, for all sets of keys, names and
tasks, that `RepoSpec` implies `FormatFits` and `DuplicatesNeedOverlap`, from
`RepoKeysAssumption`. A key is written several calls after it was submitted, to
a directory that was looked at when the page was opened, so `KeysInv` carries
both along: `KeyPageFits` (an open page knows the directory of the device),
`TasksFit` (a key on its way is in the format that directory takes) and, until
two keys have been on their way at once, `Alone` (the one that is about to be
written is not there yet). `PagesKeepTheKeys` says the same of `PagesSpec`,
where the page of the keys is one of many.

`InOrderProofs` has the lemmas about `InOrder` that the others share: a member with a
smaller number has fewer members before it (`RankMonotone`), every rank is taken
(`RankOnto`), so that `ByKey` lists each member once and in order (`ByKeyLists`), and
it is the only such list (`ListsUnique`); `SelectedFacts` says the same of a part of
a sequence, `Least` gives the first place where something holds, and `WithinJoined`,
`WithinSelected` and `WithoutOne` say what the parts of a sequence hold. All of it
follows from cardinalities. `UpTo` is an induction over the numbers up to a bound, by
the least one for which something fails, and `StepsTaken` derives from it that a
function that is defined step by step is the one its steps say: the place of the
library's induction, whose theorems take an operator as a parameter. With them, what
is done field after field or name after name can be proved of any number of them.

The first part of `LuciBaseProofs` proves, for any functions, intervals, number
of lost replies and length of the queue, that `RuntimeSpec` implies
`CallsAreAnswered`, the types of the runtime and that polling, once stopped,
starts only at the user's wish (`StaysStopped`, the half of `PollingStops` that
is not liveness). A call is in a list that waits for the next frame, in a batch,
or done, and the answer is told apart by its place in the list alone. The
invariant `Underway` says so: each call is in one place (`OnePlace`), each reply
belongs to a batch and fits it in length and order, or is cut short (`Replies`),
and an entry of the queue that waits has a call on its way (`Entries`). The
session is reported to have expired only after a question for access was refused
(`ExpiryIsReal`).

The second part proves that `UciCache` implements `UciDocument` (`IsDocument`), for any
configuration with names of their own for its sections, any options and values and
any number of edits, faults and saves. `CacheFits` is the invariant: `Overlays` are
the shapes of the overlays and of what was loaded; `Indexed` says that no two sections
have the same index and that the next one created comes last; what is to be loaded
has no overlays; and the device's sections keep names of their own through a batch
(`BatchFits`) and an order (`OrderFits`). With it `sections()` is the one list of what
is shown in the order of the indices (`SectionsAre`), and each operation has a lemma
that says what becomes of that list: it gets one more at the end (`CreateStep`), loses
one (`RemoveEdit`), has one put elsewhere (`MoveStep`), or stays (`LookStep`,
`AnsweredStep`); `SetNewStep` and `SetLoadedStep` do the same for what the sections
have. `LoadStep` is where the bound on the names is needed.

The last part proves that what `UciCache` saves is what the page shows (`SavedAsSeen`,
`SavedInOrder`), from the same assumptions. What a batch does to the device says
nothing of the page unless the page still knows what the device had when it was
loaded, so the invariant `SaveFits` starts there: an overlay that does not exist has
nothing (`Touches`), and as long as no save has failed every option of the device is
what was loaded, or changed, or deleted (`Traced`; what `get()` has overwritten in the
loaded section is the reason why it cannot be simply equal), and the indices are
those of the device until a section is moved (`IndicesKept`). From the batch on there
is a naming of the page's sections that carries them to the device (`Carries`): the
loaded ones keep their names, and the created ones get what the answers say, since
without deletions the answers begin with them (`BatchCarries`, `BatchAnswers`,
`Delivered`). `OrderIsSections` says that the names sent to be ordered are the page's
sections under that naming (`AskedInOrder`), `OrderedAsSeen` that rpcd then has them in
that order, and `CarriedIsSame` that such a naming makes both sides have as many
sections of each kind. `BatchInOrder` is the save without moves. `EditKnown` goes
through the edits; `SavedKnown`, `AnsweredKnown` and `OrdersKnown` through the requests.
The exception of `SavedAsSeen` is where `Traced` stops being inductive: an option that
was deleted, looked at, set and deleted again.

`LuciPagesProofs` proves that `PagesSpec` implies `PagesTypeOK` and seven more
of the properties of `MCLuci`, `ShownIsCurrent`, `WidgetsAgree`, `NamesResolve`,
`FormsAreObeyed`, `NothingIsLeftBehind`, `ValuesSurvive` and `NothingGoesBack`,
for all values of the constants of `LuciPages`: any packages, choices, lists,
trees of files, groups of tabs, zones, interfaces, radios, classes, forms,
tables and documents, and any number of steps. The assumptions are one per page
and give the types of its constants (`DropAssumption`: no choice is the
placeholder; `ZonesAssumption`: the rules there at first are about zones that
are there; `FilesAssumption`: a directory is above each file;
`LoaderAssumption`: classes are finitely many; `FormsAssumption`: a form lists
each field once, fields do not depend on each other in a circle, and "none" and
"hidden" are no contents; `TableAssumption`: the sections of a table have names
of their own; `DocumentAssumption`: an object of a document has a type, and is
named, in a list, or the single one of its type). The inductive invariant
`PagesFit` has a part per page, which the module of the page defines under
"Why":

* `ListsFit` (packages): downloads follow one another, and what one has read is what
  is on the device unless a command has come since (`DownloadsFit`); a command or
  an upload has its dialog; the offset is that of a page with rows (`OffsetFits`,
  which takes `NextPage` and the finiteness of the rows).
* `BoxFits` (dropdown): what is selected is among the items, and the placeholder
  only where nothing need be chosen. `SetValuesHolds` and `CreatedHolds` say what is
  left of a selection when values are set or typed, `HoldsAValue` that it is not empty.
* `EntriesFit` (dynamic list): `EntryMoved`, `MarkInserted` and `EntriesSettled` follow
  an item through a drag or a touch.
* `TabsFit`: the tab that was chosen is the one in the store of this page, until a
  group that shares its path takes the place (`ChoiceStored`).
* `FilesFit`: unless requests have crossed, there is one listing or one task on its
  way, and what it is about is in front of the user.
* `ZonesFit`: `ZonesRenamed` and `DialogSaved` take the rules along with the zones.
* `ReferencesFit` (interfaces): sections have names of their own, so that the number of
  a section among those of its radio leads back to it (`NumbersDiffer`,
  `NamesArePlaces`).
* `GatheringsFit` (state of the network): gatherings see the device one after the
  other, and a caller that flushed waits for one that starts later (`SeenInOrder`,
  `CallersWait`). It is what makes `FlushedIsFresh` more than a comparison of two
  numbers of a step.
* `RowsFit` (wireless): there is a name for another section (`NameIsNew`, by counting),
  rows are of sections, and a scan in front is the one that is polled.
* `ChainsKept` (class loader): the chain of a class goes on with the chain of the class
  that required it, and a class that waits requires nothing on its chain. So among
  classes that wait for each other two were entered from outside (`LoaderReports`).
* `FieldsFit` (forms): what was shown gets into the cache before it gets to the device,
  and what the cache has is what a form that is loaded again shows. `checkDepends` goes
  over the fields a second time when something changed, and no more: `TwoPasses` and
  `PassesSettle` say that this is enough when at most one field comes before the one it
  depends on. `ParseKeeps` says of a field that is shown that its option has its content
  after all fields have been written, when the other fields of that option are hidden
  and leave it alone.
* `TableFits` (rows of a table): until something has crossed or was refused, also after
  saves that were cut off, there is one dialog or one save at a time (`OneThing`), and
  the sections are the wanted ones and the one that was added, which is not wanted
  before it has been saved (`CacheAgrees`); if no save was cut off the rows are the
  sections but for the last one that was added (`RowsAgree`). `PlacedAppended` and
  `WithoutAppended` say what a drag and a deletion do to both, `GridWritten`,
  `GridRefused` and `GridRedrawn` what the steps of a save do.
* `SectionsFit` (documents): the names of a kind are numbered up to how many
  there are, so that the next one is new and comes last (`NextIsBehind`,
  `OneNumbering`, `ReadFacts`).

Each page has a lemma for its start, one per operation and one for its step
(`DropStep`, `ListStep`, and so on); `PagesStart` and `PagesStep` put them together,
and `PagesAlwaysFit` is the theorem. The lemmas about forms and documents are in
`LuciPagesProofs`, those about the table in `LuciWidgetsProofs`.

Most of `PagesTypeOK` is in `PagesFit`; `PagesTyped` has the rest, which takes
an invariant of its own: a dropdown for one value holds at most one, through
every way items are added, removed and set (`BoxTyped`, `SetSingle`); at most
one item of a list is dragged, none is while `draggedItem` is one that was
removed, and `touching` is true exactly while a placeholder is looked after
(`ListTyped`, `KindMoved`, `KindInserted`, `KindSettled`); an interface has a
list of devices whatever is renamed (`NetTyped`); and the device changes at most
`MaxVersion` times (`VersionTyped`, from `StateAssumption`).

Only model-checked:

* the liveness properties `UpgradeEnds`, `CallAnswered`, `OthersRun`, `CallReturns`,
  `PollingStops`, `WaitingIsTold` and `CutIsUndone`: fairness and ENABLED are out of the
  prover's reach;
* `PagesCalculate`: recursion over the characters of a version, over dependencies and
  over the bits of a mask, each an induction over data.

## 5. Not modelled

Of the upgrade: the contents of the backup list, `-b`, `-r` and `-l`; the failsafe
hand-over through `/tmp/sysupgrade`, which carries the same request; setting up
the RAM root; options the board ignores (`-p`, `-s`).

Of LuCI: drawing, translation, validation of values, `cbi.js`, and the parts the
header of each module names as left out. Composing `UciCache` with the pages
that edit through it is left out as well: each page's module has the cache as
far as it uses it.

The components listed as `not_modelled` in `PROJECT.json`: most are sequential
scripts that keep no state, or hand their state to a binary (procd, netifd)
without source here, so that a model would be one of guesses. Four hazards in
them are worth naming: the readers, the timer and the main process of
`30_failsafe_wait` race for three files, so a key in the last moment may be
lost; the failsafe loop waits for a lock that only `sysupgrade` releases;
`restart` of the firewall leaves a moment without rules; a script of a service
that is started by another one inherits descriptor 1000 and runs without its own
lock (`procd.sh:51`).
