# TLA+ models of DCS Web Dashboard

DCS Web Dashboard is one Rust process (`rust-web-dashboard/`) that serves an embedded single-page
application (`web-dashboard/`) to administrators of a DCS World server, talks to the running mission
through DCS-gRPC, starts and stops the server's Windows processes, and edits the server's files.
Two Lua modules run inside the mission, and PowerShell scripts (`services/`) run beside the server.
Most of what can go wrong happens between these parts: two browser tabs and a watchdog act on one
process, a mission restarts under a request, answers come in after what they were asked for has
changed, a file is rewritten by two handlers. That is what these modules model.

## Inventory

| Part | State it keeps | Operations | Interacts through | What must hold |
|---|---|---|---|---|
| Carrier recovery (`lua/carrier_recovery.lua`) | `M.active[group]`, `M.deckOffsets` etc.; captured routes; timers of the mission | start, restore, status, monitor callback, delegation to Foothold | Eval from the Airboss page, DCS timers, Foothold's own recovery | one monitor per ship, turns announced, a ship ends a recovery on its route or in another's hands |
| Airboss panels (`airboss/page.tsx`, `CarrierPanel.tsx`, `carrierPersistence.ts`) | a layout per mission in localStorage, the target of each panel, reports and errors, LOST mark | choose, restore, send, poll, sync, hide | POST of the target, polls, radar stream | an acknowledged target is the ship's, layouts are kept, a panel that is not synced is frozen, a loss is shown |
| Decks and routes (`deckTracking.ts`, `deckRenderer.ts`, `deckRoutes.ts`, `deckSpots.ts`, `deckProfiles.ts`) | the unit a panel is locked on, what is selected | find the ship, draw, classify, click | radar snapshot | a panel draws what bears its name, never an aircraft, an aircraft is on one deck, lit routes are marked |
| Radar feed (`telemetry.rs`, `stream.rs`, `airboss/page.tsx`, `deckTracking.ts`) | upstream streams, broadcast channel, batch and snapshot in the page | report, lag, receive, commit, reconnect | gRPC streams, SSE | batching invisible, nothing missing, page converges |
| Carrier list (`useCarrierList.ts`, `carrierDetection.ts`) | list, rejected groups, in-flight flag, last attempt | refresh, radar trigger | HTTP, React effects | carriers the radar shows are listed, refreshes settle |
| Process control (`routes/system.rs`, `services/*.ps1`) | Windows processes, stop flags, scheduled tasks | start, stop, restart, watchdog cycle, start scripts, start tasks run from the Tasks page or at logon | process table, flag files, Task Scheduler | bounded instances, a deliberate stop is not undone, a crash is repaired |
| Message feed (`lua/screen_messages.lua`, `screen_messages.rs`, `chat/page.tsx`) | ring buffer and ids in the mission, cursor in each page | probe, install, since, poll | Eval, HTTP answers | in order, once, nothing skipped |
| Sessions (`lib/api.ts`, `AuthGate.tsx`, `Sidebar.tsx`, `login/page.tsx`, `auth.rs`) | JWT in localStorage, what each tab has read of it | sign in, log out, verify, reject, redirect | HTTP 401, storage events | only a rejected token ends a session, and then in every tab |
| Pages over host actions (`mission`, `srs`, `tasks`, `weather`, `players`, `foothold`, `leaderboard`, `access-logs`, `tacview`, `console`) | what was last shown, disabled buttons, error | poll, act, lock, free | HTTP answers in any order | a page shows what it did, comes to rest, frees its buttons |
| Server settings and mission queue (`settings_lua.rs`, `system.rs`, `dcs.rs`, `settings/page.tsx`) | `serverSettings.lua`, forms | load, save, add, remove | the file | saved settings stay, no duplicates, file parses |
| Audit log and logins (`auth.rs`, `routes/auth.rs`) | JSON log, tokens | OAuth callback, append, list | the file, Discord | entries kept, newest first |
| Weather (`system.rs`, `weather/page.tsx`) | A/B mission files, `dto.json` | apply, get | generator process, DCS | never writes the loaded file |
| Foothold (`foothold.rs`, `foothold/`) | Lua saves, configuration file, form | parse, flatten, edit, rewrite | file system | untouched lines kept, edits of plain fields and rows saved |
| SRS (`routes/srs.rs`, `srs/`) | `server.cfg`, form | read, edit, rewrite | file system | what was saved is read back |
| Mission files (`downloads.rs`, `system.rs`, `mission/page.tsx`, `lib/download.ts`) | the Missions folder, queue, browser's folder and search | list, browse, search, queue, upload, download | HTTP, file system | what is shown and asked for is what is there |
| LSO grades (`lso.rs`, `routes/lso.rs`, `lso/page.tsx`, `lso/pilots/page.tsx`) | `lso.db` of the LSO client, what a page shows | count, list, group by pilot, poll | SQLite, HTTP answers | numbers and statistics agree with the passes, a page catches up |
| Preferences (`navPrefs.ts`, `SortableNav.tsx`, `columnPrefs.ts`, `LsoTable.tsx`) | localStorage, what each tab shows, drag, toast | move, drop, hide, show, sort, reset, undo | storage events | every page and column once, nothing comes back by itself, tabs agree |
| Chat, triggers | none on the server | one RPC each | gRPC | |
| gRPC wrappers, protobuf rendering, configuration, embedding, start-up | none after start | | | |
| `_legacy_api`, `_legacy_proxy.ts`, `append.rs`, protos, docs, release script | | not built, or no behaviour | | |

Hard to test, and listed line by line under `hazards` in `PROJECT.json`: interleavings of requests
with each other, with the watchdog and with timers of the mission; state read before an `await` and
used after it; answers that pass each other; files truncated and filled in two steps; mission
restarts under open pages; ids and cursors that mean something else in the next mission; answers
lost after they took effect; handlers dropped with their client; rate limits and retries.

## Modules and the code

Each module has the state of one component as variables, one action per handler, callback or step
between two awaits, and its properties at the end. Operators headed "Fault" are not part of any
specification: each is a way the definition after it could be wrong, used to see that a property
notices (`mutants` in `PROJECT.json`). `map` there names the lines every definition stands for.

| Module | Code | State | Actions |
|---|---|---|---|
| `CarrierRecovery` | `lua/carrier_recovery.lua` | `active`, timers, generation counter and `bc` of the mission, the ships' routes, the clock, and one "picture" per ship (what `windData` reads: heading, solver's plan, clear water, switch) | `Start`, `Monitor` (wait, turn, align, retarget, open, guard, close), restore, the delegation to Foothold and back, time, world, mission restart |
| `AirbossTargets` | `airboss/page.tsx`, `CarrierPanel.tsx`, `carrierPersistence.ts` | mission, the ship's target, stored layouts, the page, the panel's timer and `lastSentTargetRef`, requests | open, leave, restore, toggle, add, remove, choose, send, apply, answer, lose |
| `AirbossReports` | `airboss/page.tsx`, `CarrierPanel.tsx` | ships, the stream's ships, panels shown and synced, reports, errors, LOST marks, requests | sink, frame, sync, show, tick, serve, answer, fail |
| `DeckView` | `deckTracking.ts`, `deckRenderer.ts`, `deckRoutes.ts`, `deckSpots.ts`, `deckProfiles.ts`, `CarrierPanel.tsx` | the contacts by id, per panel hull, place, lock and selection | a frame, a report, a click; routes, spots, hit targets, lit routes and halos are operators |
| `RadarFeed` | `telemetry.rs`, `stream.rs`, `airboss/page.tsx`, `deckTracking.ts` | the units, what the streams reported, the channel, batch and snapshot of the page | `Change`, `Report`, stream end and opening, `Receive`, `Commit`, disconnect, connect, reopen |
| `CarrierList` | `useCarrierList.ts`, `carrierDetection.ts`, `listCarriers` | mission's groups, radar, list, rejected groups, request, rate limit | spawn, loss, radar commit with its effect, `Refresh`, `Serve`, `Answer`, `AnswerWithoutList`, `Fail`, `Rest` |
| `ProcessControl` | `system.rs`, `Start-DCS.ps1`, `Start-SRS.ps1`, `Register-DcsSrsTasks.ps1`, `Watchdog-DCS-SRS.ps1` | running and dying instances, the flag file, each request and each start script at its await | `Receive`, `Kill`, `Wait`, `WriteFlag`, `RemoveFlag`, `Launch`, `Report`, `Abandon`; `Script`; `StartTask`, `StopTask`, `LogOn`; the watchdog's look, start and return; crash, exit, reboot |
| `ScreenMessages` | `screen_messages.lua`, `screen_messages.rs`, `dcs.rs`, `chat/page.tsx` | the mission's module, buffer and next id; each page's cursor, request and list | `Show`, `Poll`, `Probe`, `Install`, `Receive`, `Fail`, mission restart, dashboard upgrade |
| `DashboardSession` | `lib/api.ts`, `AuthGate.tsx`, `Sidebar.tsx`, `login/page.tsx`, `auth.rs` | the stored token, tokens issued and accepted, per tab its path and what its guard read, requests | reload, notice, redirect, sign in, log out, expire, ask, refuse, serve, lose, judge, end |
| `HostPages` | the pages named above, with the handlers they call | one page: what the host is, what is shown, answers and actions on their way, disabled buttons | host changes, `Ask`, `Show`, `Fail`, `Click`, `Perform`, `Settle`; a page is a record of its four traits |
| `ServerSettings` | `settings_lua.rs`, `system.rs`, `dcs.rs`, `settings/page.tsx` | the file, each page's form, each write at its await | load, edit, save; queue actions; give up; kill |
| `AuditLog`, `LoginTrail` | `auth.rs`, `routes/auth.rs` | the log, each login at its await; `LoginTrail` is what the log promises | callback, verify, read, truncate, fill, respond, failures, crash |
| `WeatherSwap` | `weather_apply` in `system.rs` | loaded slot, contents of the slots, `dto.json`, each apply and its generator | resolve, start, time out, write, fail, load, respond, switch |
| `FootholdConfig` | `foothold.rs`, `foothold/config/page.tsx` | the file as lines, forms, saves | open, edit, remove, add, save, read, write, answer; reading and rewriting lines are operators |
| `SrsConfig` | `routes/srs.rs`, `srs/page.tsx` | the file, forms, posts | open, edit, save, read, write, answer |
| `MissionFiles` | `mission/page.tsx`, `system.rs`, `downloads.rs`, `dcs.rs` | the folder, the queue, the running mission, what the page shows, its browser, transfers | list, browse, search, queue, delete, upload, download |
| `SharedFile` | `tokio::fs::write` (external) | | what a truncated, filled or overlapped file reads as |
| `NavPrefs` | `SortableNav.tsx`, `useNavPrefs.ts`, `navPrefs.ts`, `navPages.ts` | the stored preferences; per tab the loaded release, what is rendered and the toast; the drag | the menu's moves, hide, show, reset; undo; grip, drop, let go; storage event; upgrade; load |
| `ColumnPrefs` | `LsoTable.tsx`, `useColumnPrefs.ts`, `columnPrefs.ts` | as `NavPrefs`, with the sort | header clicks and menus, the Columns menu, drag and drop, reset, storage event, upgrade, load |
| `LsoBoard` | `lso.rs`, `routes/lso.rs`, `lso/page.tsx`, `lso/pilots/page.tsx` | the rows of `lso.db`, the page and what it shows, its requests in flight | record, refresh, toggle, count, select, 404 and status, show, fail |
| `Filter` | `Array.prototype.filter` (external) | | what is kept of a sequence, by its places |

Five instances compose them: `MCAirboss` (`CarrierRecovery`, with the world of `MCCarrierRecovery`,
`AirbossTargets`, `DeckView`), `MCDashboardLive` (`RadarFeed`, `CarrierList`, `AirbossReports`),
`MCDashboardHost` (`ProcessControl`, `DashboardSession`, `HostPages`, `ScreenMessages`),
`MCDashboardFiles` (`ServerSettings`, `AuditLog`, `WeatherSwap`, `FootholdConfig`, `SrsConfig`) and
`MCDashboardPages` (`NavPrefs`, `ColumnPrefs`, `LsoBoard`, `MissionFiles`). What one part needs of
another (the recovery its target, the list the radar's commits, the panels the stream's frames, a
page an applied weather) is an action or an input of its own module. So the parts of an instance
share no variable, a behaviour follows one of them (`focus`) and leaves the others in their initial
states: every state a part can reach is reached, and none of the products, which would show nothing
more. Properties of an instance gather those of the parts that belong together
(`ControlsDoAsAimed`, `FormsAreSaved`, ...); each part is stated, with the code it is about, in the
part's module.

`*_proofs` modules hold the theorems of the module they are named after. Those of an instance
(`MCAirboss_proofs`, `MCDashboardFiles_proofs`, ...) are about the specification of the instance:
they keep its CONSTANTS as parameters, and prove each part's theorem for the behaviours that follow
that part, so that it holds of every behaviour of the instance.

### Choices that hold throughout

* One action per stretch between two awaits: the Rust handlers and the PowerShell scripts can be
  interrupted at each await or call of another program, the Lua modules and React event handlers
  cannot.
* Clients may vanish: a handler is dropped at any await (`Abandon`, `Dropped`), an answer may be
  lost after the server acted (`Fail`, `LoseAnswer`, the outcome "lost").
* Some properties only promise something as long as a certain mishap has not occurred (two requests
  that write at once, a kill, an unreachable DCS, a lost answer). The mishaps are history variables
  that record what HAS happened, `mishaps`, `turns`, `crossed`, `spoilt`, `lost`, `missed`,
  `undecided`, `blind`; no action's guard reads them (`Writing` of
  `ServerSettings` only drops the other history once it promises nothing), so the interesting behaviours are all explored
  and the property's exception is exact. Each is named in the property's comment, and each exception
  is a weakness of the code that is listed under `hazards`.
* A name, path or value is a member of a small set. Where a conversion matters it is modelled by
  what it does: `Parsed` and `Printed` of `SrsConfig` (numerals, booleans, NaN and null), the
  flattening and the line rewriting of `FootholdConfig`, what `MissionFiles` places its browser in and
  asks for (`Placed`, `Asked`).

## Runs

Bounds are CONSTANTS, named in the modules as bounds.

| Run | What is explored | What it shows |
|---|---|---|
| `recovery` | one ship, four headings, pictures of the world (wind from two sides and of two strengths, ship turned or not, land ahead, sunk, switched off), Foothold taking over and handing back, two starts, nine ticks; two targets and two requests in flight, a mission that starts anew, a page that leaves and comes back; two panels, three unit ids, three frames, one click on any spot, route or aircraft of two hulls; units that bear a panel's name by their own or their group's, both or none, of any category or none | every recovery has one monitor, its circuit is kept, it ends in bounded time, and courses are ordered only when announced; an acknowledged target is the ship's and layouts are kept; decks show what bears their name, and no aircraft. The second start after a resumed recovery is what a stale callback needs; two requests are what it takes to overtake; three ids let a ship lose its id to an escort or to the other carrier. Requests and panels are symmetric: no definition chooses among them, and the run has no liveness property |
| `recovery_margin` (violation) | wind that strengthens between order and window | the escape-margin guard measures with the course and speed ordered before the window opened |
| `live` | two units in two categories, a channel of two, four changes, one reload; two carriers and a look-alike, in the mission at first or not, one spawn, one loss; two panels, two polls, two clicks | batches are faithful, nothing goes missing unnoticed, the page converges; list and rejected groups never contradict each other, refreshes settle; panels that are not synced are frozen and a loss is marked. Four changes let a unit spawn, die, return and move within one batch while the channel overflows; two polls let an old answer come last |
| `carriers_failing` (violation) | carriers without losses | a failed refresh rejects the group |
| `host` | two requests of any action, watchdog and both start scripts, the start task run and stopped by itself, four set-ups (the watchdog with scheduled tasks and with commands, the start task at logon with scheduled tasks and with no start of the dashboard's own; `MCInit` says why the others do no more), every host operation failing, at most two instances alive; two tabs, two requests, two sessions; each of twelve pages with two different answers and two actions on their way; two pages of the feed, a ring buffer of two, three messages, two missions | with scheduled tasks no more instances than start scripts; a settled Stop is not undone by watchdog, crash or reboot (a run of the start task from the Tasks page or at logon does undo it, and is named in the property); a crash is repaired; sessions end for a reason and everywhere; pages show their own actions and come to rest; the feed is in order and complete for a page alone. Two sessions and two tabs are what a false logout needs |
| `process_flag` (violation) | one request and the watchdog | the flag is read before a wait and not after it |
| `session_stale` (violation) | two tabs, two sessions | the refusal of an old token removes a new one |
| `messages_skipped` (violation) | two pages | with two pages messages are skipped after a restart |
| `files` | two Settings pages and a queue action, two missions, one with a brace in its name; two logins, a log of two, four entries; two applies, four in all; two forms each over a Foothold file with a table, a list, a note and what dotted names set, and over an SRS file with one key in two sections, two edits | files keep what was saved, queued and recorded one at a time; no duplicate and no false success whatever interleaves; the log implements `LoginTrail`; forms write what was edited where it has a line or table of its own, and nothing else. The queue is as the queue actions asked until a Save posts another list (`old list`, the run `settings_queue`). A log of two with four entries is cut twice |
| `settings_queue` (violation) | one page, one queue action, loads that fail | a Save puts back the mission list its page loaded, over what was queued since (so does one of an error answer, which has no list and no settings) |
| `foothold_list` (violation) | one form | elements of a list, and what dotted names set, are not saved |
| `pages` | two tabs, a release that drops one page or column and inserts another, three stored changes; three passes (two pilots of one name, a row without a UCID), two requests in flight; a folder of namesakes with inner folders called Missions and Missions_old, a deletion, an upload | panels and tables show each entry once and tabs agree; moves, drops, hiding and undo do what was aimed at; the board's numbers, groups and statistics are right and it catches up; the mission page's types hold. Three changes are what it takes to hide in one release, move in the other and undo |

Counter-examples of the "violation" runs are the seven `findings` of `PROJECT.json`, each with the
comment or the line of the documentation it contradicts.

`CHECK_DEADLOCK FALSE` stands where everything may stop by itself once the bounds are used up: a
page that has no timer, a mission that ends, a file nobody opens.

## Refinement

`AuditLog` implements `LoginTrail` (`EntriesAreAppended`, part of `LogIsKept`): a list that grows at
the front by one newer entry at a time and is cut at a limit. The mapping takes an entry for recorded
when the file is truncated for it, and the file, while it is blank, for what it is about to hold;
then the fill is a stutter, and a kill in between is the one step that may empty the list. Once two
logins were recorded at a time `LoginTrail` promises nothing (that is a hazard, not a choice).
`BatchIsFaithful` relates `RadarFeed` in the same way to a page that applies every frame at once.

## Fairness

* `ProcessControl`: the watchdog's loop and the scripts it waits for keep running and killed
  processes leave the process table (the loop of `Watchdog-DCS-SRS.ps1` has no exit; Windows reaps).
  `CrashIsRepaired` also needs that the host is not rebooted for ever and that the script does not
  fail for ever, which is stated as `<>[][~Reboot /\ ~WatchdogScriptFails]_vars`. Requests are under
  no fairness: an administrator need not press anything and a handler may be dropped.
* `DashboardSession`: timers ask, answers come, browsers render and deliver storage events. In the
  end nobody reloads and no request of an expired token is lost (`LeftOpen`).
* `HostPages`: timers fire and actions end. Answers that fail again and again are allowed as long as
  some come through (strong fairness of `Show`) and, from some time on, no failure changes the page
  (`LeftOpen`): pages that keep what they show then need nothing more.
* `ScreenMessages`, `LsoBoard`: timers fire, the server answers; in the end requests do not fail
  (`LeftOpen`) and, for the board, the page stays open.
* `RadarFeed`: reports, streams, delivery, reconnection and the 20 ms timer are weakly fair. The
  timer restarts with every frame; it fires because changes are finite in number. That frames which
  never pause starve it is listed as a hazard and not modelled (there is no clock).
* `CarrierList`: the radar goes on, time passes, requests end (the fetch has a timeout in the
  browser's network stack). Only groups that move come on the radar: one that lies still is not
  promised to be listed, as `docs/src/airboss_multi_carrier_plan.md:70-78` says. `ListCatchesUp`
  excepts requests that fail, or are answered without a list, for ever.
* `AirbossReports`: ticks, answers and the frames of a ship that is gone. `LossIsShown` is about a
  panel that stays synced and polls that do not fail for ever.
* `NavPrefs`: the browser delivers storage events.
* The instances repeat the fairness of their parts, where the part is the one that is followed.
* An assumption "this action does not go on for ever" is only worth something if no other step looks
  like that action. So a failed request is taken to fail before it is served where its service
  changes nothing (`FailPoll`, `Lose`), and elsewhere a failure leaves a trace (`lost`, an error).
* `CarrierRecovery`, `AirbossTargets`, `DeckView`, the five modules over files, `ColumnPrefs` and
  `MissionFiles` state safety only.

## Proofs

TLAPS proves these for every value of the constants that satisfies the named assumptions; TLC
checks the same formulas on the instances above.

* `CarrierRecovery_proofs`: `TypeCorrect`; `OneMonitor`, `CircuitKept`, `BoundedRecovery`,
  `TurnedAsAnnounced`. `OneMonitorPerRecovery` is not inductive: a callback of a resumed recovery
  stays scheduled, and only because generations are never reused does it not count for the next
  recovery of the ship. `Pairing` says so (no timer bears a generation that has not been given out,
  a recovery not taken over has exactly one timer of its own). `BoundedRecovery` needs `Timely`:
  the time of the recovery's one timer is bounded by its phase, its deadline and its end, so it
  rests on `Pairing` too. Time is discrete, and advances only when no timer is due
  (`timer.scheduleFunction` calls back on time).
* `ProcessControl_proofs`: `TypeCorrect`; `FewProcesses`, whose inductive invariant counts what each
  start script may still launch from where it stands, together with the instances there are;
  `SettledStop`, an action property: the runs of the start task that are no request's are named in it,
  since they do not read the flag.
* `ServerSettings_proofs`: `SettingsTypeCorrect`, `QueuedOnce`, `AskedIsKept`, `StaysReadable`, all
  from one invariant `IInv`. Its parts need each other: no form or file lists a mission twice
  (`Once`) only because a write composes its text from a file that was whole when it was read; while
  requests write one at a time (`Sequential`) a write under way holds what it asks for, and of the rest
  what is in the file, or, of the queue, an old list that is remembered when it is written (`Record`), and the file is blank for exactly the time between
  truncation and fill. A handler that is given up before it truncates must leave the file's promise
  as it was. Lemmas state what adding to and removing from a queue does to its places.
* `MCDashboardFiles_proofs`:
  `LogImplementsTrail`, the refinement of `LoginTrail`, step by step, with `LogInv`: what a login
  is about to write is what it read with its own entry in front, no other login has that entry
  (entries are instants of a clock), and while logins record one at a time the newest entry is the
  clock's. `WeatherIsSwapped`, with `WeatherInv`: an apply aims at the slot that is not loaded from
  the moment it resolves it, and while nothing spoils the swap, it is the only one and what its
  generator wrote is still there when DCS loads it. `SettingsReadBack`: parsing what was printed,
  for each of the texts that stand for all, and one write per form. `EditsAreNotForgotten`, an
  action property. `RewritingSaves`, about Foothold's file of any length: the file is followed line
  by line with three states side by side, of its reader, of the one who rewrites it and of the reader
  of what has been written (`Follows`). After each line the third agrees with the first on every key
  that was not sent; a key that was sent reads as sent once its line has come or its table has ended,
  and is not there before (`KeyFollows`). What dotted names have set is apart:
  the lines are not touched, and the reader takes it as before. It needs files as one expects them (`Tidy`):
  tables are closed, not nested and opened once, and names are not repeated in a table; and that no
  field sent has the name of a row in a table that a dotted name opens (`IsClear`), which the code
  would take that row for. Of two namesakes Lua would keep the last and the code rewrite the first.
  `SampleFile` is tidy, rewriting keeps a file tidy, and a form holds and sends only keys that such a
  file can have (`FormsInv`; that a form with fields has both elements of the list is what keeps the
  list's own name from being sent). So the file of every save that interleaves with others is tidy:
  `FormsSaved`. `FilesTypeCorrect`.
* `MCDashboardLive_proofs`: `Rejections` from one inductive conjunction: the types, that no listed
  group is rejected, that the rejected were denied or undecided, and that a request's hints were
  unknown when it was sent. `Faithful`, by lemmas on the merge of a frame into a batch.
  `NothingIsLost`: `UnderWay` is the last frame of a unit between the stream and the page, and each
  of the five things a frame can go through (reported, dropped by the full channel, received,
  merged, committed) keeps it the last. `Frozen`, whose invariant is that a request which still
  counts asks for the ships synced now, for any number of requests. `LiveTypeCorrect`.
* `MCDashboardHost_proofs`: `EndsForAReason`: a request is rejected only if the token it carried is
  not valid, so the token that is removed without a Logout is either not valid or another one (that
  the other one exists is the finding `session_stale`). `OwnActionsShown`, with `PageInv`: what the
  last action left is shown or on its way, for every page that asks again after an action; the
  induction goes over the kinds of pages by their traits only. `FeedFaithful`, with `FeedInv`: the
  log's ids are consecutive and end before the next one (`IsLog`), an answer is an end of that log,
  or of an earlier mission's, and continues what the page lists (`OnTheWay`), and for a page that is
  alone whatever is not after its cursor is listed or on its way (`NotSkipped`). Alone matters since
  no log grows then that this page has not installed: with two pages it fails (the finding
  `messages_skipped`). `HostTypeCorrect`.
* `MCAirboss_proofs`: `AckedTarget`, `LayoutsKept`. `AckedIsTheShips` speaks of a page at rest; the
  induction follows a request through its way (`Sequential`: one at a time, an applied one is the
  ship's, the panel's memory is the ship's while none is applied, a request whose panel is gone
  finds no memory) and needs `ClosedIsEmpty` for missions that start while the page is closed.
  `LayoutsKept` needs that a loaded page shows what is stored. `DecksRight`, with `DeckShape`: that a
  lit route has its ends marked needs to know where a selection can come from (a spot, a route or an
  aircraft of some hull, not of the one drawn now, since a deck may change its hull under a
  selection). `AirbossTypeCorrect`, which rests on `TypeCorrect` of `CarrierRecovery_proofs`.
* `MCDashboardPages_proofs`: `ListedOnce`, `ControlsAim`, `HidingKept`, `BoardRight`, `StatisticsRight`,
  `PagesTypeCorrect`. All of them rest on what `filter` keeps (`FilterKeeps`): `Filtered` is defined
  by the places it keeps, numbered by how many are kept up to each, and `RankedBy` shows that this
  numbering is a bijection. For the panel and the tables, `PanelInv` and `TableInv` are typing
  invariants whose point is that the stored order never holds an entry twice, of whatever
  release the tab that wrote it is, and that a sorted column is hidden only after another tab hid it
  (`SortIsSeen`). What a control does is proved of the order: a sequence without repetition is known by
  what comes before what (`SameOrder`), every operation puts one entry beside another and leaves the
  rest (`Beside`, `MovedBeside`), and that is seen in the same way among the visible entries
  (`KeptMoves`), whatever is hidden between them. `PlacesAreKept` holds of releases that list
  the pages they share in one order, and says so. For the board, `BoardInv` says what a request knows at each of its steps (`Says`:
  the rows read were not fewer when they were counted; without a database "not configured" is true
  for good), and `PilotIs`, `GroupHasNewest` and `KeysOf` say of the grouping that the newest row of
  each key names its pilot and that two rows share a key exactly if they are one pilot's. The
  statistics are sums over sequences (`SumOf`, a recursive function): that such a function exists and
  obeys its equation is shown by a least counter-example (`SumsExist`, `SumIs`), a set of rows weighs
  the sum of the weights of its rows and so two disjoint sets weigh together what they weigh apart
  (`WeightAdds`), and groups that divide the rows weigh as much as all rows (`WeightsAddUp`), whether a
  row weighs one (the totals), one if it has points (the graded) or its points.

Every module's types are proved in `*TypeCorrect` theorems.

The assumptions are the ASSUMEs of the modules and of the instances: bounds and counts are natural
numbers; the capacity of the radar's channel, the ring buffer's and the log's limit, `AlignStable`,
the board's page limit and the passes per pilot are positive; there is a release, each lists its
pages and its columns once, and every table has columns; there is a mission, and every path has a
name; points are integers; words that stand for "none", "error" or "nothing" are not among the values they stand beside;
clients have different names; hulls are hulls of the code's table; and unit ids are numbers. TLC
evaluates each in the run whose module extends it.

What the provers do not reach stays with TLC:

* properties under fairness (`CrashIsRepaired`, `ShowsTheWorld`, `PagesSettle`, `PagesCatchUp`,
  `CarriersSettle`, `LossIsShown`, `SessionEndsEverywhere`), as does ENABLED;
* induction over data as such. Where a proof needs one, over the lines of a file, the rows of a table
  or the ids of a log, it takes the least place at which its claim would fail instead (`HasLeast`),
  and where the model could say the same by places in a sequence it does: `Filtered`, `Since` of
  `ScreenMessages` by SubSeq, and the frames under way to a page one by one. Every invariant and every
  action property that a passing run checks has a theorem, with these two means.

## Abstractions and what is left out

* `CarrierRecovery`: a failing `pcall` of restore is a choice; the unprotected `setRoute` of the
  monitor is taken not to raise; `windData` is nil exactly when the lead unit is missing; Foothold's
  own functions are external and may do what their names say at any time; a captured route is the
  course it orders. When Foothold takes a hull over in mid-recovery, the monitor's last call
  delegates and `M.active` may never be cleared: `g \notin bc` in the properties, listed as a hazard.
* `AirbossTargets`: one tab, one panel; the 400 ms timer may fire at any time after it was started;
  the order of two requests at the server is any.
* `AirbossReports`: a report is there or not, its numbers are left out; nearness is fixed.
* `DeckView`: a unit's two names are the set of panels they name (`NameSets`); those of aircraft are all for helicopters and none
  for airplanes, as the code does not look at them; places are areas (near which ship something is); distances, smoothing, canvas
  coordinates, zoom and the images are left out. The spots and routes are the code's, by number.
* `ProcessControl`: the task runs once at a time (IgnoreNew), whoever starts it; a logon may come at any
  time; time limits may expire at any moment; DCS has two executables, of which the
  dashboard counts both and the watchdog one; the watchdog's limit of 120 s for a script is not
  modelled; a look at the processes and at the task is one step.
* `ScreenMessages`: the page's cap on lines and its Clear button are left out; an upgrade of the
  dashboard happens between polls.
* `RadarFeed`: frames that cannot be encoded are left out. A late subscriber sees a unit only when
  it next reports, as `docs/src/airboss_multi_carrier_plan.md:73-77` says.
* `DashboardSession`: a token is a number; the login's own errors are left out.
* `HostPages`: what a page shows is a version and one state of the host; equal answers are one; one
  page is open at a time; forecasts, charts, filters and wording are left out.
* `ServerSettings`: the tokens of the serializer stand for settings as a whole; the list in a form is the one its page loaded, which it cannot edit; DCS's own reading
  and rewriting of the file is left out, as is the upload, which does not touch the queue
  (`system.rs:225`) although the page says it does (`mission/page.tsx:538`).
* `WeatherSwap`: the partial file of a failed generator; the matching of directories.
* `FootholdConfig`: a value is a number or absent; the mission's file is not in the repository, and
  `SampleFile` has one entry of each kind the code distinguishes, dotted ones included; deeper nesting
  than one table is left out. `SrsConfig`: a few texts that are
  parsed in different ways stand for all. Both write in one step, for `SharedFile` is checked with
  the settings and the log.
* `MissionFiles`: of names only those in the tree are there, and `Matched` says what /missions matches
  of them; byte ranges, size limits and the server's path checks are left out. The page's folders and files are
  those of its listing by definition, and `Asked` is the path clicked but for folders called Missions:
  nothing is stated of either, only the types.
* `NavPrefs`, `ColumnPrefs`: one user with one pointer; an open menu is as old as its tab's view; a
  localStorage that cannot be read, written or parsed is left out.
* `LsoBoard`: `since_id`, which no page uses; charts, notation, the pilots' filter and the sorting of
  rows. Rows are only ever added, so an answer is the number of rows it has read.

### Not modelled

* Floating point: the wind solver, the wheel, deck geometry and smoothing. What the controller does
  with a plan is modelled, how the plan is calculated is not; TLC has no reals.
* The planner panel, charts and notation only calculate and draw.
* Parsers of files that are only read (Foothold's state, SRS client export, the forecast).
* gRPC wrappers, protobuf rendering, configuration, embedding and start-up: one call each, without
  later state. `_legacy_api`, `_legacy_proxy.ts` and `append.rs` are not built.
* Three hazards have no property: the delegation of a recovery to a Foothold script that is loaded
  late (above), the starved 20 ms timer, and the download of a file below a folder called Missions,
  for which the page asks by another path. `PROJECT.json` gives the reason with each.

## Plan

Done, in this order: the controller that steers ships, processes, messages, radar and carrier list,
the shared files, the preferences and the board; then sessions, the Airboss panels and decks, the
pages over host actions, the two configuration editors and the mission files. What would come next:

1. An abstract feed (a page lists a growing prefix) refined by `ScreenMessages` for a page alone.
2. Clocks for the radar's batch timer, and for the time limits of `ProcessControl`.
3. The parsers of Foothold's state and of the SRS client export, as operators on sequences.

## Checking

    tlc -config MCDashboardPages.cfg MCDashboardPages.tla
    tlapm MCDashboardFiles_proofs.tla

`PROJECT.json` names the module and configuration of every run. The five passing runs take one to
three minutes each with two workers.
