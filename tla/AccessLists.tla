---------------------------- MODULE AccessLists ----------------------------
(***************************************************************************)
(* service/file_watcher.rs: the thread that loads the banned IPs and the   *)
(* whitelist from the server directory, watches the directory, and loads   *)
(* again what changes, while the Minecraft server, or its operator, writes *)
(* the files.                                                              *)
(***************************************************************************)
EXTENDS Integers

CONSTANTS
    Names,        \* IP addresses and user names that may be listed
    CheckBans,    \* block_banned_ips or drop_banned_ips
    WakeWhitelist \* wake_whitelist

ASSUME BansFlag      == CheckBans \in BOOLEAN
ASSUME WhitelistFlag == WakeWhitelist \in BOOLEAN

BanFile  == "banned-ips.json"
ListFile == "whitelist.json"
OpsFile  == "ops.json"
PropFile == "server.properties"

WhitelistFiles == {ListFile, OpsFile, PropFile}
Files == {BanFile} \cup WhitelistFiles

\* A file cannot be parsed, or lists names; one that is missing lists nobody.
Contents == [ok: {FALSE}, names: {{}}] \cup [ok: {TRUE}, names: SUBSET Names]

\* server.properties turns the white-list on if it lists anybody; one that
\* cannot be read does not, like one that lists nobody.
Unread == {d \in [Files -> Contents] : ~d[PropFile].ok}

VARIABLES
    disk,       \* the files
    banned_ips, \* the BannedIps of the Server
    whitelist,  \* its Option<Whitelist>
    at,         \* what the watcher does next
    loaded,     \* load_dir's local list, while it reads the other file
    armed,      \* the directory is being watched
    events,     \* files whose change is on its way to the watcher
    missed      \* history: files changed unnoticed since they were last read

vars == <<disk, banned_ips, whitelist, at, loaded, armed, events, missed>>

NoWhitelist == [some |-> FALSE, whitelist |-> {}, ops |-> {}]

\* Without a server directory nothing is loaded or watched.
Init ==
    /\ disk \in [Files -> Contents] \ Unread
    /\ banned_ips = {} /\ whitelist = NoWhitelist
    /\ at \in {"bans", "gone"} /\ loaded = {}
    /\ armed = FALSE /\ events = {} /\ missed = {}

Listed(f)  == disk[f].names
Garbled(f) == ~disk[f].ok

\* read_property(.., "white-list") is true.
Enabled == Listed(PropFile) # {}

-----------------------------------------------------------------------------
\* A reload returns to the scan it is part of, or to the event loop.
Return(next) == at' = IF armed THEN "recv" ELSE next

\* A list that cannot be parsed leaves the old one in place.
ReloadBans ==
    /\ at = "bans"
    /\ banned_ips' = IF CheckBans /\ ~Garbled(BanFile) THEN Listed(BanFile)
                     ELSE banned_ips
    /\ missed' = missed \ {BanFile}
    /\ Return("enabled")
    /\ UNCHANGED <<disk, whitelist, loaded, armed, events>>

\* Mutant of ReadEnabled: the old whitelist is dropped before the new one is read.
ReadEnabledAndClear ==
    /\ at = "enabled"
    /\ missed' = missed \ {PropFile}
    /\ whitelist' = IF WakeWhitelist THEN NoWhitelist ELSE whitelist
    /\ IF WakeWhitelist /\ Enabled THEN at' = "whitelist" ELSE Return("watch")
    /\ UNCHANGED <<disk, banned_ips, loaded, armed, events>>

ReadEnabled ==
    /\ at = "enabled"
    /\ missed' = missed \ {PropFile}
    /\ IF WakeWhitelist /\ Enabled
       THEN at' = "whitelist" /\ UNCHANGED whitelist
       ELSE /\ whitelist' = IF WakeWhitelist THEN NoWhitelist ELSE whitelist
            /\ Return("watch")
    /\ UNCHANGED <<disk, banned_ips, loaded, armed, events>>

ReadWhitelist ==
    /\ at = "whitelist"
    /\ missed' = missed \ {ListFile}
    /\ IF Garbled(ListFile)
       THEN Return("watch") /\ UNCHANGED loaded
       ELSE at' = "ops" /\ loaded' = Listed(ListFile)
    /\ UNCHANGED <<disk, banned_ips, whitelist, armed, events>>

ReadOps ==
    /\ at = "ops"
    /\ missed' = missed \ {OpsFile}
    /\ whitelist' = IF Garbled(OpsFile) THEN whitelist
                    ELSE [some |-> TRUE, whitelist |-> loaded, ops |-> Listed(OpsFile)]
    /\ loaded' = {}
    /\ Return("watch")
    /\ UNCHANGED <<disk, banned_ips, armed, events>>

\* The debouncer starts, cannot be started, or the directory is gone.
Watch ==
    /\ at = "watch"
    /\ at' \in {"recv", "bans", "gone"}
    /\ armed' = (at' = "recv")
    /\ UNCHANGED <<disk, banned_ips, whitelist, loaded, events, missed>>

\* Mutant of Update: a change of the operators is not looked at.
UpdateWithoutOps(f) ==
    /\ at = "recv" /\ f \in events
    /\ events' = events \ {f}
    /\ at' = CASE f = BanFile -> "bans" [] f = OpsFile -> "recv" [] OTHER -> "enabled"
    /\ UNCHANGED <<disk, banned_ips, whitelist, loaded, armed, missed>>

\* Changes of the same file within the debounce time are one event.
Update(f) ==
    /\ at = "recv" /\ f \in events
    /\ events' = events \ {f}
    /\ at' = IF f = BanFile THEN "bans" ELSE "enabled"
    /\ UNCHANGED <<disk, banned_ips, whitelist, loaded, armed, missed>>

\* Mutant of WatchFails: the directory is watched again without a new scan.
WatchAgain ==
    /\ at = "recv"
    /\ at' = "watch"
    /\ armed' = FALSE /\ events' = {}
    /\ UNCHANGED <<disk, banned_ips, whitelist, loaded, missed>>

\* "Rescanning server directory files due to file watching problem".
WatchFails ==
    /\ at = "recv"
    /\ at' = "bans"
    /\ armed' = FALSE /\ events' = {}
    /\ UNCHANGED <<disk, banned_ips, whitelist, loaded, missed>>

Load == ReloadBans \/ ReadEnabled \/ ReadWhitelist \/ ReadOps

-----------------------------------------------------------------------------
\* Somebody writes a file, in one go or leaving it half written for a while.
Change(f) ==
    /\ \E c \in Contents :
          /\ c # disk[f] /\ (f = PropFile => c.ok)
          /\ disk' = [disk EXCEPT ![f] = c]
    /\ IF armed THEN events' = events \cup {f} /\ UNCHANGED missed
                ELSE missed' = missed \cup {f} /\ UNCHANGED events
    /\ UNCHANGED <<banned_ips, whitelist, at, loaded, armed>>

Next == Load \/ Watch \/ WatchFails \/ \E f \in Files : Update(f) \/ Change(f)

Spec == Init /\ [][Next]_vars

\* The thread runs, and every event of a batch is looked at before the next
\* batch; the files need not ever be left alone.
FairSpec ==
    /\ Spec /\ WF_vars(Load) /\ WF_vars(Watch)
    /\ \A f \in Files : SF_vars(Update(f))

-----------------------------------------------------------------------------
TypeOK ==
    /\ disk \in [Files -> Contents]
    /\ banned_ips \subseteq Names
    /\ whitelist \in [some: BOOLEAN, whitelist: SUBSET Names, ops: SUBSET Names]
    /\ at \in {"bans", "enabled", "whitelist", "ops", "watch", "recv", "gone"}
    /\ loaded \subseteq Names
    /\ armed \in BOOLEAN
    /\ events \subseteq Files /\ missed \subseteq Files

BansMatch == CheckBans /\ ~Garbled(BanFile) => banned_ips = Listed(BanFile)

WhitelistMatch ==
    WakeWhitelist =>
        IF ~Enabled THEN whitelist = NoWhitelist
        ELSE Garbled(ListFile) \/ Garbled(OpsFile)
             \/ whitelist = [some |-> TRUE, whitelist |-> Listed(ListFile), ops |-> Listed(OpsFile)]

\* When the watcher has nothing to do, the lists in memory are those on disk,
\* although the three files behind the whitelist are read one after the other
\* while they change, and events are merged and dropped.  A list may be old
\* only if one of its files cannot be parsed, or was changed between being
\* read and the directory being watched.
ListsCurrent ==
    at = "recv" =>
        /\ BanFile \notin events \cup missed => BansMatch
        /\ WhitelistFiles \cap (events \cup missed) = {} => WhitelistMatch

\* A ban list that stays as it is gets into memory, whatever happens to the
\* other files, unless its change was missed or the directory is gone.
ListsSettle ==
    \A b \in SUBSET Names :
        <>[](disk[BanFile] = [ok |-> TRUE, names |-> b] /\ BanFile \notin missed /\ at # "gone")
            => (CheckBans => <>(banned_ips = b))

\* Server::ban_entry and is_whitelisted: what a login is told.
IsBanned(n)      == n \in banned_ips
IsWhitelisted(n) == whitelist.some => n \in whitelist.whitelist \cup whitelist.ops

BannedOnDisk(n)   == CheckBans /\ (Garbled(BanFile) \/ n \in Listed(BanFile))
UnlistedOnDisk(n) ==
    WakeWhitelist /\ Enabled /\ n \notin Listed(ListFile) \cup Listed(OpsFile)

\* The watcher is in its event loop and has seen every change.
Settled == at = "recv" /\ events \cup missed = {}

\* Once the lists are loaded, a login that the files refuse, and go on
\* refusing, is refused at every moment: no reload, rescan, half written file
\* or change of another name lets it in for a while (reload_whitelist and
\* reload_bans replace a list in one step, and only by one that was read).
NeverLetIn ==
    \A n \in Names :
        /\ [](Settled /\ IsBanned(n) /\ []BannedOnDisk(n) => []IsBanned(n))
        /\ [](Settled /\ ~IsWhitelisted(n) /\ []UnlistedOnDisk(n) => []~IsWhitelisted(n))

-----------------------------------------------------------------------------
\* What is known of the lists before the watcher is back in its event loop.
Clean(fs) == fs \cap (events \cup missed) = {}

Progress ==
    /\ at = "recv" => armed
    /\ at \in {"watch", "gone"} => ~armed

BansKnown == at # "gone" /\ at # "bans" /\ Clean({BanFile}) => BansMatch

WhitelistKnown ==
    /\ at \in {"whitelist", "ops"} => WakeWhitelist
    /\ at \in {"whitelist", "ops"} /\ Clean({PropFile}) => Enabled
    /\ at = "ops" /\ Clean({ListFile}) =>
         ~Garbled(ListFile) /\ loaded = Listed(ListFile)
    /\ (at \in {"recv", "watch"} \/ (at = "bans" /\ armed)) /\ Clean(WhitelistFiles)
         => WhitelistMatch

ListsInv == Progress /\ BansKnown /\ WhitelistKnown
=============================================================================
