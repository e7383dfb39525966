------------------------- MODULE AccessListsProofs -------------------------
(***************************************************************************)
(* The lists in memory are those on disk, for any set of names and with    *)
(* any of the checks turned on.  ListsCurrent speaks of the watcher in its *)
(* event loop only; ListsInv adds what is known on the way there: which    *)
(* files have been read since they last changed, and what the half-done    *)
(* reload of the whitelist relies on.                                      *)
(***************************************************************************)
EXTENDS AccessLists, TLAPS

LEMMA FilesDiffer ==
    /\ BanFile \in Files /\ ListFile \in Files /\ OpsFile \in Files /\ PropFile \in Files
    /\ BanFile \notin WhitelistFiles
    /\ ListFile # OpsFile /\ ListFile # PropFile /\ OpsFile # PropFile
  BY DEF Files, WhitelistFiles, BanFile, ListFile, OpsFile, PropFile

\* Init: the scan has not begun, or never will.
LEMMA InitLists == Init => TypeOK /\ ListsInv
<1> SUFFICES ASSUME Init PROVE TypeOK /\ ListsInv
  OBVIOUS
<1>1. TypeOK
  BY DEF Init, TypeOK, NoWhitelist
<1>2. ListsInv
  BY DEF Init, ListsInv, Progress, BansKnown, WhitelistKnown
<1> QED
  BY <1>1, <1>2

LEMMA TypeStep == TypeOK /\ [Next]_vars => TypeOK'
<1> SUFFICES ASSUME TypeOK, [Next]_vars PROVE TypeOK'
  OBVIOUS
<1>0. \A f \in Files : Listed(f) \subseteq Names
  BY DEF TypeOK, Contents, Listed
<1>1. CASE ReloadBans
  BY <1>0, <1>1, FilesDiffer DEF TypeOK, ReloadBans, Return
<1>2. CASE ReadEnabled
  <2>1. whitelist' \in {whitelist, NoWhitelist}
    BY <1>2 DEF ReadEnabled
  <2>2. whitelist' \in [some: BOOLEAN, whitelist: SUBSET Names, ops: SUBSET Names]
    <3>1. NoWhitelist \in [some: BOOLEAN, whitelist: SUBSET Names, ops: SUBSET Names]
      BY DEF NoWhitelist
    <3>2. whitelist \in [some: BOOLEAN, whitelist: SUBSET Names, ops: SUBSET Names]
      BY DEF TypeOK
    <3> QED
      BY <2>1, <3>1, <3>2
  <2>3. at' \in {"recv", "watch", "whitelist"}
    BY <1>2 DEF ReadEnabled, Return
  <2> QED
    BY <1>2, <2>2, <2>3 DEF TypeOK, ReadEnabled
<1>3. CASE ReadWhitelist
  BY <1>0, <1>3, FilesDiffer DEF TypeOK, ReadWhitelist, Return
<1>4. CASE ReadOps
  BY <1>0, <1>4, FilesDiffer DEF TypeOK, ReadOps, Return
<1>5. CASE Watch
  BY <1>5 DEF TypeOK, Watch
<1>6. CASE WatchFails
  BY <1>6 DEF TypeOK, WatchFails
<1>7. ASSUME NEW f \in Files, Update(f) PROVE TypeOK'
  BY <1>7 DEF TypeOK, Update
<1>8. ASSUME NEW f \in Files, Change(f) PROVE TypeOK'
  BY <1>8 DEF TypeOK, Change
<1>9. CASE UNCHANGED vars
  BY <1>9 DEF TypeOK, vars
<1> QED
  BY <1>1, <1>2, <1>3, <1>4, <1>5, <1>6, <1>7, <1>8, <1>9 DEF Next, Load

\* A reload reads the files as they are: what it has read matches them.
LEMMA LoadStep == TypeOK /\ ListsInv /\ Load => ListsInv'
<1> SUFFICES ASSUME TypeOK, ListsInv, Load PROVE ListsInv'
  OBVIOUS
<1>0. /\ UNCHANGED <<disk, armed, events>>
      /\ armed \in BOOLEAN
      /\ \A f : Listed(f)' = Listed(f) /\ Garbled(f)' = Garbled(f)
      /\ Enabled' = Enabled
  BY DEF Load, ReloadBans, ReadEnabled, ReadWhitelist, ReadOps, TypeOK, Listed, Garbled, Enabled
<1>1. CASE ReloadBans
  <2>1. at' # "gone" /\ at' # "bans" /\ (armed \/ at' = "enabled") /\ (at' \in {"recv", "enabled"})
    BY <1>0, <1>1 DEF ReloadBans, Return
  <2>2. BansMatch'
    BY <1>0, <1>1 DEF ReloadBans, BansMatch
  <2>3. WhitelistMatch' = WhitelistMatch
    BY <1>0, <1>1 DEF ReloadBans, WhitelistMatch
  <2>4. Clean(WhitelistFiles)' = Clean(WhitelistFiles)
    BY <1>0, <1>1, FilesDiffer DEF ReloadBans, Clean
  <2>5. Progress'
    BY <1>0, <1>1, <2>1 DEF ReloadBans, Progress, Return
  <2>6. WhitelistKnown'
    BY <1>0, <1>1, <2>1, <2>3, <2>4 DEF ReloadBans, ListsInv, WhitelistKnown, Return
  <2> QED
    BY <2>2, <2>5, <2>6 DEF ListsInv, BansKnown
<1>2. ASSUME ~ReloadBans PROVE ListsInv'
  <2>1. at \in {"enabled", "whitelist", "ops"}
    BY <1>2 DEF Load, ReadEnabled, ReadWhitelist, ReadOps
  <2>2. at' \in {"whitelist", "ops"} \/ (at' = IF armed THEN "recv" ELSE "watch")
    BY <1>2 DEF Load, ReadEnabled, ReadWhitelist, ReadOps, Return
  <2>3. \E f \in WhitelistFiles : missed' = missed \ {f}
    BY <1>2 DEF Load, ReadEnabled, ReadWhitelist, ReadOps, WhitelistFiles
  <2>4. Progress'
    BY <1>0, <2>2 DEF Progress
  <2>5. BansKnown'
    <3>1. banned_ips' = banned_ips
      BY <1>2 DEF Load, ReadEnabled, ReadWhitelist, ReadOps
    <3>2. Clean({BanFile})' = Clean({BanFile})
      BY <1>0, <2>3, FilesDiffer DEF Clean
    <3>3. BansMatch' = BansMatch
      BY <1>0, <3>1 DEF BansMatch
    <3> QED
      BY <2>1, <3>2, <3>3 DEF ListsInv, BansKnown
  <2>6. WhitelistKnown'
    <3>1. CASE ReadEnabled
      <4>1. CASE WakeWhitelist /\ Enabled
        BY <1>0, <3>1, <4>1 DEF ReadEnabled, WhitelistKnown
      <4>2. CASE ~(WakeWhitelist /\ Enabled)
        <5>1. WhitelistMatch'
          BY <1>0, <3>1, <4>2 DEF ReadEnabled, WhitelistMatch
        <5>2. at' \notin {"whitelist", "ops"}
          BY <3>1, <4>2 DEF ReadEnabled, Return
        <5> QED
          BY <5>1, <5>2 DEF WhitelistKnown
      <4> QED
        BY <4>1, <4>2
    <3>2. CASE ReadWhitelist
      <4>1. Clean({PropFile})' = Clean({PropFile}) /\ (Clean(WhitelistFiles)' => Clean({PropFile}))
        BY <1>0, <3>2, FilesDiffer DEF ReadWhitelist, Clean, WhitelistFiles
      <4>2. CASE Garbled(ListFile)
        BY <1>0, <3>2, <4>1, <4>2
           DEF ReadWhitelist, Return, ListsInv, WhitelistKnown, WhitelistMatch
      <4>3. CASE ~Garbled(ListFile)
        BY <1>0, <3>2, <4>1, <4>3 DEF ReadWhitelist, ListsInv, WhitelistKnown
      <4> QED
        BY <4>2, <4>3
    <3>3. CASE ReadOps
      <4>1. Clean(WhitelistFiles)' => Clean({PropFile}) /\ Clean({ListFile})
        BY <1>0, <3>3, FilesDiffer DEF ReadOps, Clean, WhitelistFiles
      <4>2. Clean({PropFile}) /\ Clean({ListFile}) => WhitelistMatch'
        BY <1>0, <3>3 DEF ReadOps, ListsInv, WhitelistKnown, WhitelistMatch
      <4>3. at' \notin {"whitelist", "ops"}
        BY <3>3 DEF ReadOps, Return
      <4> QED
        BY <4>1, <4>2, <4>3 DEF WhitelistKnown
    <3> QED
      BY <1>2, <3>1, <3>2, <3>3 DEF Load
  <2> QED
    BY <2>4, <2>5, <2>6 DEF ListsInv
<1> QED
  BY <1>1, <1>2

\* A change leaves alone what is said of the other files, and its own file is
\* no longer clean.
LEMMA ChangeStep ==
    ASSUME TypeOK, ListsInv, NEW f \in Files, Change(f) PROVE ListsInv'
<1>1. /\ f \in events' \cup missed'
      /\ events \cup missed \subseteq events' \cup missed'
  BY DEF Change
<1>2. ASSUME NEW g \in Files, g # f PROVE Listed(g)' = Listed(g) /\ Garbled(g)' = Garbled(g)
  BY <1>2 DEF Change, Listed, Garbled, TypeOK
<1>3. UNCHANGED <<banned_ips, whitelist, at, loaded, armed>>
  BY DEF Change
<1>4. Progress'
  BY <1>3 DEF ListsInv, Progress
<1>5. BansKnown'
  BY <1>1, <1>2, <1>3, FilesDiffer DEF ListsInv, BansKnown, BansMatch, Clean
<1>6. WhitelistKnown'
  <2>1. ASSUME NEW g \in Files, Clean({g})' PROVE g # f /\ Clean({g})
    BY <1>1, <2>1 DEF Clean
  <2>2. Clean(WhitelistFiles)' => f \notin WhitelistFiles /\ Clean(WhitelistFiles)
    BY <1>1 DEF Clean
  <2>3. f \notin WhitelistFiles => WhitelistMatch' = WhitelistMatch
    <3>1. f \notin WhitelistFiles => ListFile # f /\ OpsFile # f /\ PropFile # f
      BY DEF WhitelistFiles
    <3> QED
      BY <1>2, <1>3, <3>1, FilesDiffer DEF WhitelistMatch, Enabled
  <2> QED
    BY <1>2, <1>3, <2>1, <2>2, <2>3, FilesDiffer DEF ListsInv, WhitelistKnown, Enabled
<1> QED
  BY <1>4, <1>5, <1>6 DEF ListsInv

LEMMA WatcherStep ==
    ASSUME TypeOK, ListsInv,
           Watch \/ WatchFails \/ (\E f \in Files : Update(f)) \/ UNCHANGED vars
    PROVE  ListsInv'
<1> USE FilesDiffer DEF ListsInv, Progress, BansKnown, WhitelistKnown, Clean, BansMatch,
        WhitelistMatch, Listed, Garbled, Enabled
<1>1. CASE Watch
  BY <1>1 DEF Watch
<1>2. CASE WatchFails
  BY <1>2 DEF WatchFails
<1>3. ASSUME NEW f \in Files, Update(f) PROVE ListsInv'
  <2>1. CASE f = BanFile
    BY <1>3, <2>1 DEF Update
  <2>2. CASE f # BanFile
    BY <1>3, <2>2 DEF Update
  <2> QED
    BY <2>1, <2>2
<1>4. CASE UNCHANGED vars
  BY <1>4 DEF vars
<1> QED
  BY <1>1, <1>2, <1>3, <1>4

\* Whenever the watcher waits for changes, a list whose files it has read
\* since they last changed is the one on disk (service/file_watcher.rs).
THEOREM ListsAreCurrent == Spec => []ListsCurrent
<1>1. Init => TypeOK /\ ListsInv
  BY InitLists
<1>2. TypeOK /\ ListsInv /\ [Next]_vars => (TypeOK /\ ListsInv)'
  BY TypeStep, LoadStep, ChangeStep, WatcherStep DEF Next
<1>3. ListsInv => ListsCurrent
  BY DEF ListsInv, BansKnown, WhitelistKnown, Clean, ListsCurrent
<1> QED
  BY <1>1, <1>2, <1>3, PTL DEF Spec

-----------------------------------------------------------------------------
(* A refused login stays refused.                                          *)

\* While the files refuse n: n is refused, and not on a list that is being read.
Refused(n) == ~IsWhitelisted(n) /\ (at = "ops" => n \notin loaded)

LEMMA StaysBanned ==
    ASSUME NEW n \in Names, IsBanned(n), BannedOnDisk(n), [Next]_vars
    PROVE  IsBanned(n)'
<1>1. CASE ReloadBans
    BY <1>1 DEF ReloadBans, IsBanned, BannedOnDisk
<1>2. CASE ~ReloadBans
    <2>1. UNCHANGED banned_ips
        BY <1>2 DEF Next, Load, ReadEnabled, ReadWhitelist, ReadOps, Watch,
                    WatchFails, Update, Change, vars
    <2> QED
        BY <2>1 DEF IsBanned
<1> QED
    BY <1>1, <1>2

LEMMA StaysRefused ==
    ASSUME NEW n \in Names, Refused(n), UnlistedOnDisk(n), [Next]_vars
    PROVE  Refused(n)'
<1>1. CASE ReadOps
    BY <1>1 DEF ReadOps, Return, Refused, IsWhitelisted, UnlistedOnDisk
<1>2. CASE ReadWhitelist
    BY <1>2 DEF ReadWhitelist, Return, Refused, IsWhitelisted, UnlistedOnDisk
<1>3. CASE ReadEnabled
    BY <1>3 DEF ReadEnabled, Return, Refused, IsWhitelisted, UnlistedOnDisk
<1>4. CASE ~(ReadOps \/ ReadWhitelist \/ ReadEnabled)
    <2>1. UNCHANGED <<whitelist, loaded>> /\ (at' = "ops" => at = "ops")
        BY <1>4 DEF Next, Load, ReloadBans, Return, Watch, WatchFails, Update, Change, vars
    <2> QED
        BY <2>1 DEF Refused, IsWhitelisted
<1> QED
    BY <1>1, <1>2, <1>3, <1>4

\* Once the lists are loaded, whom the files refuse and go on refusing is
\* refused at every moment, however the files are reloaded, watched anew, half
\* written or changed for others (reload_bans, reload_whitelist): for any names.
THEOREM NobodySlipsIn == Spec => NeverLetIn
<1>1. ASSUME NEW n \in Names
      PROVE  Spec => /\ [](Settled /\ IsBanned(n) /\ []BannedOnDisk(n) => []IsBanned(n))
                     /\ [](Settled /\ ~IsWhitelisted(n) /\ []UnlistedOnDisk(n) => []~IsWhitelisted(n))
    <2>1. IsBanned(n) /\ BannedOnDisk(n) /\ [Next]_vars => IsBanned(n)'
        BY StaysBanned
    <2>2. Refused(n) /\ UnlistedOnDisk(n) /\ [Next]_vars => Refused(n)'
        BY StaysRefused
    <2>3. Settled /\ ~IsWhitelisted(n) => Refused(n)
        BY DEF Settled, Refused
    <2>4. Refused(n) => ~IsWhitelisted(n)
        BY DEF Refused
    <2> QED
        BY <2>1, <2>2, <2>3, <2>4, PTL DEF Spec
<1> QED
    BY <1>1 DEF NeverLetIn
=============================================================================
