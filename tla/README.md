# Formal model of AudioServer 2.0

TLA+ modules, TLC runs and TLAPS proofs for AudioServer 2.0: a Minecraft plugin
(Paper and Velocity, Java), a relay (Rust), a listen page (Svelte) and an admin
and player portal (Next.js), tied together by Redis, PostgreSQL and S3.

Paths below are relative to the repository. `PROJECT.json` lists, for machines,
the components, runs, mutants, the source lines of every definition, findings,
hazards and theorems.

## 1. The system

| Part | State it keeps | Operations | Talks to |
|---|---|---|---|
| **RedisManager** (`plugin/common`) | a Jedis pool | `publish` = PUBLISH, LPUSH, LTRIM; `sessionJoin`, `sessionLeave`; token writers; player default | Redis |
| **AudioSessionHandler** (`plugin/paper`) | WorldGuard's last value of the flag | `onInitialValue`, `onSetValue`, `onAbsentValue` on the server's main thread | RedisManager |
| **PlayerEventListener** (`plugin/velocity`) | none; one virtual thread per event | `onPostLogin`, `onServerConnected`, `onDisconnect` | RedisManager |
| **Commands** (`AudioCommand`, `VelocityAudioCommand`) | none | links for lite client, portal and admin; `set default` | RedisManager |
| **ModuleRegistry**, **AudioServerPlugin** | ordered map of modules | `register`, `enableAll`, `disableAll` | modules |
| **Player WebSocket** (`backend/src/ws/handler.rs`) | one task per connection: socket, subscription | upgrade with token, `auth_success`, SUBSCRIBE, select loop, `translate_event` | Redis, lite client |
| **Admin WebSocket** (`backend/src/ws/admin.rs`) | one task per connection | upgrade with ticket, LRANGE, replay, sentinel, SUBSCRIBE, select loop | Redis, portal |
| **Tokens** (`backend/src/auth`) | Redis keys with TTL, consumed by GETDEL | issue, validate; JWT sign and verify | Redis |
| **REST API** (`backend/src/api`) | PostgreSQL, Redis, S3 | sessions, stats, login, player profile and settings, media upload, confirm, list, delete, permalink | all stores |
| **Lite client** (`client-lite/src/routes/+page.svelte`) | `authenticated`, `enabled`, `desired`, `activeHowl`, `activeSrc`, socket | WebSocket callbacks, `enableAudio`, `reconcile`, `onDestroy` | relay, howler |
| **Portal** (`portal/`) | per page; cookies | activity feed, media, sessions, settings, preferences, login callbacks | relay |

The parts meet in four places in Redis: the channel `audio:events` (plugin to
relay tasks), the list `audio:recent-events` (plugin to admin sessions), the
hash `audio:sessions` (proxy to REST API) and the token keys (plugin to relay).

**What is hard here.** Nothing spans two Redis commands, two stores or two
threads: PUBLISH and LPUSH are separate, so are LRANGE and SUBSCRIBE; the proxy
dispatches each event to its own unordered thread; Redis Pub/Sub forgets what
was published before SUBSCRIBE; WebSockets end without notice and there is no
heartbeat; in the page, user gestures, `resume()`, messages and the close race.

**What makes each part correct.**

* Feed: a session sends every event once, in publication order, newest ones
  first to survive trimming, and cleans up after itself.
* Registry: it agrees with the proxy about who is online, and where.
* Delivery: a page obeys the commands of its own player, all of them, in order;
  the sound follows the last one; the end of the session is the end of the sound.
* Tokens and cookies: a token admits one request at most; the cookie it becomes
  belongs to its owner; redirects end where the login meant to go.
* Media: row, object, pending key and the page's list agree in spite of partial
  failures, so that a URL once copied into a region keeps playing.
* Settings: what was submitted and told as saved is stored, for the player it is shown for,
  and a page does not go back in time.

## 2. Plan

| # | Module | Models | State |
|---|---|---|---|
| 1 | `EventFeed` | `publishAndRecord`, admin session, activity page | written, checked, proved |
| 2 | `SessionRegistry` | lifecycle listener, `audio:sessions`, sessions API | written, checked, proved |
| 3 | `AudioDelivery`, `CommandStream` | from region to sound; what delivery promises | written, checked, proved with the refinement |
| 4 | `PortalLogin`, `OneTimeToken` | the four kinds of tokens, callbacks, cookies, login form, redirects; what a token promises | written, checked, proved with the refinement |
| 5 | `MediaLibrary` | upload, confirm, list, delete, permalink and the media page | written, checked, proved |
| 6 | `PlayerSettings` | both settings pages, four handlers, the plugin as a second writer | written, checked, proved |

Two modules that had been considered are not worth writing, see section 6: one
for `ModuleRegistry`, one for the first admin user. Every safety property a
passing run checks is also a theorem (section 5).

## 3. The modules

### EventFeed

An event stands for the task that publishes it; `pc[e]` is its next Redis
command. `recent` is the list, `pubsub[c]` what Redis has delivered to the relay
task of connection `c` and the task has not taken, `sent[c]` all the frames the
task wrote, `read[c]` how many of them the page has handled. A connection is
used once; a page that reconnects takes a fresh one while the old task may still
run. `task` walks through `admin_ws_session`, one step per await:

    lrange -> replay -> subscribe -> live -> closed

`link` is the WebSocket as the browser knows it; `lost` is a dead TCP connection
neither side has noticed. `TaskNotices` is possible only where the code touches
the socket: during the replay and in the select loop; the Pub/Sub connection is
dropped with what waits in it. An event is underway (`IsUnderway`) as long as it
can still arrive, on an open link only. `pushed` and `earlier` are history
variables.

### SessionRegistry

`tasks` holds every submitted task in the order of the proxy's events. A task
first stores (HSET or HDEL), then publishes. A command may fail before or after
Redis executed it. `proxy` is the truth the registry is compared with. A proxy
crash takes players offline without an event; they are `unseen` until their next
one.

### AudioDelivery and CommandStream

One session is one `/audio lite` link: token, page and relay task. `where[p]` is
the audio of the player's region, `Silence` or `Offline`. `Publish` puts a message in the
queue of every subscribed task. Paper publishes within the callback; the proxy's
messages wait in `pending` for their thread. `client[s]` is the component's
state, `Reconcile` its function `reconcile`, and every callback that calls it
does so within its action. A Howl is `playing` from its creation (loading
included) until it is replaced, ends (only if it does not loop), fails to load,
or is unloaded by `onDestroy`, which keeps the reference, as the code does.

`CommandStream` is the promise, in two parts. Safety (`Spec`): commands issued
since SUBSCRIBE are applied one by one and in order, and the page wants what the
last one asks for (`LastObeyed`). Liveness (`Delivery`): each is applied unless
the session ends. `AudioDelivery` implements both (`StreamImplemented`,
`StreamDelivers`) with `want <- client.desired` and
`over <- link in {closing, closed, lost}`; the history variables `issued` and
`applied` are the other two.

### PortalLogin and OneTimeToken

`issue[t]` says what a token is for and whether its link was sent, `live` is
what GETDEL would find in Redis (all four key prefixes), `exchange[x]` the one
request that tab `x` makes with a token: `asked -> taken -> recorded ->
answered`, the steps of `player_callback`, `admin_ott_login` and the WebSocket
upgrades. `said` is what the portal's callback made of the answer, which may be
lost while the relay goes on. `cookie` holds the two cookies of one browser, a
JWT being its subject, role and validity; `tab` what each tab shows and loads;
`Follow` is one redirect decided by `Redirect`, the function `proxy` of
`proxy.ts`, over the cookies as they are then. `pending` are the two forms of
the login page, whose server actions end in `LoginSucceeds` or `LoginFails`.

`OneTimeToken` is the promise: issued once, then it admits one request or is
void, and never comes back (`AdmitsOnce`, `StaysSpent`). `PortalLogin` implements
it with
`state[t] <- TokenState(t)` (valid while it is in Redis or a request that took
it is not over) and `admitted[t] <- Admitted(t)`.

### MediaLibrary

`pending`, `bucket` and `rows` are the three stores; a clip is named by the
upload it came from. `upload[u].step` walks through `handleFile` and the two
relay handlers it calls:

    askUrl -> url -> put -> stored -> confirm -> insert -> inserted -> done

with `refused` and `failed` for what goes wrong on either side. `delete[d]` does
the same for `handleDelete` and `delete_media`, and `told` is what the user
learns. A page has its list (`items`, counted, so that a clip listed twice is
seen), the load error, and the one `upload` state all its uploads share
(`phase`). Failures are actions of their own next to the step they replace, and
may come before or after its effect. `ProxyAnswer` is the portal's relay proxy:
a 204 becomes a 500, since a response with that status may have no body.

### PlayerSettings

`row` is a row of `user_settings` (`at` counts its upserts, as `updated_at`
does), `pref` the key `audio:player:pref:<uuid>`. A request goes through
`asked -> row -> pref -> answered`, one step per statement of `get_me` and
`put_player_settings`; those of the admins' page (`get_settings`,
`put_settings`) end after the row. `page[f].waits` are the requests whose
`startTransition` is pending; `ErrorShown` gives one up while the relay may
still carry it out. `page[f].settings` is the React state an answer sets. It
seeds the fields of the form and gives the uuid and the date shown, but the
fields are uncontrolled and keep what the user entered: a save may carry any
values of `Filled`, on the admins' page an empty volume field included (`Keep`:
NaN, hence null, hence COALESCE), and what "Saved." vouches for is what was
submitted (`SavedIsStored`), not what the answer brought. `fate` is a history
variable: whether the default client of a save is stored, was replaced since, or
was lost by a SET whose failure the relay ignores.

### Simplifications

* Frames, payloads and JSON are records or model values. Malformed messages are
  left out: the plugin writes none that the relay would skip.
* A ticket or token check is its outcome in `EventFeed` and `AudioDelivery`
  (`Accept`, `Reject`); `PortalLogin` models the check.
* In `EventFeed` a page that unmounts while its WebSocket is still opening is
  taken not to reach the relay; in `AudioDelivery` it may (`Accept`).
* `player_connect` and `region_enter` are dropped by the relay exactly like
  `server_switch`, which represents them. `volume` is set where `loop` is set.
* In `AudioDelivery` the queue of a task that has ended is kept, though nothing
  takes from it; the code drops it with the Pub/Sub connection.
* The socket's Close frame is not a frame of its own: the page sees the end of
  a connection whose task is closed after it has read everything.
* In `PortalLogin`, `/dashboard` stands for every path of `ADMIN_PREFIXES`;
  `/media` is not one of them, and is let through like any other path. Server
  actions are taken to reach their function. A tab logs in once, and its user
  leaves it alone while it loads. Sign-out deletes the admin's cookie, whichever
  page it is on, as the code does.
* In `MediaLibrary` file names, sizes and the order of the list are left out. A
  panic in `sanitize_filename` is one of the causes of `UrlRefused`. Because of
  the 204 above, the branch of `DeleteAnswered` that takes the item out of the
  list is never taken; it is there because the code has it.
* In `PlayerSettings` a UUID is a model value: the text of the admins' search
  field is used verbatim as the key, so another spelling is another player.
* Definitions named as a mutant (`Ltrim` / `LtrimForgotten`, ...) are never part
  of a specification. They state plausible mistakes; putting one in the place of
  the definition it follows makes TLC violate the property it is listed with.

## 4. The runs

| Run | Question | Bounds | Answer |
|---|---|---|---|
| `EventFeed` | once each, in order, newest kept, list bounded, feed right | 2 events, 2 connections, 1 page, list of 1 (`Cap = 0`), feed of 2, all faults | holds |
| `EventFeedLive` | does only a dead link or the user lose a delivered event; is it shown; are tasks released | 2 events, 1 connection, fairness | holds |
| `EventFeedGap` | is every event streamed | no faults | **violated** |
| `SessionRegistry` | self-healing; messages match the registry | 2 players, 2 servers, 4 proxy events, 2 clock values | holds |
| `SessionRegistryRace` | right about a player no task is left of | 1 player, 3 events, no faults | **violated** |
| `AudioDelivery` | sound follows the request; closed pages are silent; implements `CommandStream`; a leave is not lost and silences | 2 players, 1 page, 2 clips in 3 regions, 3 moves, all faults, fairness | holds |
| `AudioDeliveryZombie` | no session for an offline player | 1 player, no faults | **violated** |
| `AudioDeliverySwitch` | silence outside of audio regions | same | **violated** |
| `PortalLogin` | one admission per token; cookies are earned; 401 is final; no redirect is redirected; a login lands; navigation ends | 1 token of any kind, 2 tabs, 1 player, all faults, fairness | holds |
| `MediaLibrary` | rows have objects; URLs play; success and progress are true; listed once | 1 page, 2 uploads, 2 deletes, all faults | holds |
| `MediaLibraryDelete` | is the alert of a failed delete true | same, no faults | **violated** |
| `PlayerSettings` | saved is stored (but for a SET without effect); for the player shown; never older | 1 page of each kind, 2 players, 3 requests, 2 forms, all faults | holds |

Why the bounds suffice. The feed's hazards are between pairs: an event in the
replay and one sent live, an event kept and one trimmed, an old connection and
its successor; a list of one overflows with two events. What the run finds for
two, section 5 proves for any number. Two tasks of one
player race; the third and fourth let the registry heal. A page needs a play, a
change and a stop; the second player exists to be filtered out, and has one
region so that a filter that lets commands through is noticed (`Regions`). Two
pages of one player share nothing but the messages they receive. A token is
raced for by two tabs, and tokens share nothing but the cookies, which the
second tab's form writes; an earlier player's cookie is the same as an expired
one to `Redirect`. Two uploads share one state and one list, and a delete needs
a second one to be overtaken. The third request of the settings is the save that
follows a save that was given up. `MaxTasks`, `MaxTime` and `MaxMoves` bound
behaviours, `Asked` what a user types into the address bar, `Requests`,
`Uploads`, `Deletes` and `Tokens` how often something is done; `AudioDelivery`
also lets at most one message of a kind and player await publication.
`CHECK_DEADLOCK FALSE` is set in every run since the system really may stop: all
events published, all pages closed, nothing left to ask for.

Symmetry is used over events and connections (`EventFeed`), players and servers
(`SessionRegistry`), uploads and deletes (`MediaLibrary`), requests and players
(`PlayerSettings`), in runs of safety properties only.

**Fairness.** Relay tasks are polled by tokio, publishing threads run, and browser
callbacks fire: weak fairness of `PublisherStep`, `TaskStep`, `PageStep`. A relay
task learns of a socket the browser closed: weak fairness of `TaskNotices` in
that case only. In `PortalLogin` the relay answers a request somebody waits for,
the portal turns the answer into a response, and the browser follows a redirect:
weak fairness of `Relay` (while the tab waits), `Answer` and `Follow`. Users,
faults and the noticing of a lost connection are under no obligation, for no
code has a heartbeat or a read timeout.

### What the violated runs show

1. **Gap in the feed.** LRANGE precedes SUBSCRIBE; what is pushed after the one
   and published before the other is not shown. Subscribing first would need
   deduplication: that variant is the mutant of `NoEventTwice`.
2. **Wrong server, ghost entry.** Unordered threads: an older HSET may be last.
   `SelfHeals` says how much is nevertheless true.
3. **Zombie session.** A link opened after the player left, or a leave published
   before SUBSCRIBE: nothing closes the session.
4. **Audio after a server switch.** Neither the old server, the new one nor the
   relay tells the page to stop.
5. **Deletes are told as failures.** The relay answers 204, the portal's proxy
   cannot build that response, and the page alerts and keeps the clip listed.

All five occur without any fault.

Smaller observations the models contain, without a run of their own: `joined_at`
moves with each server switch (`Stored`), although `docs/events.md:80` calls it
the time of the login; a late `player_disconnect` closes the session of the next
visit (`CloseOnLeave`); a clip that has ended is not started again by the same
request (`Reconcile`); the player's *Sign out* leaves the player signed in
(`Logout`); a 500 of the relay is shown as a link that was already used
(`LinkRefused`); a default client whose SET failed is told as "Saved." and stays
selected on the page while `/audio` gives the other link (`SetFails`, the one
exception in `SavedIsStored`); an upload that ends makes the media page look idle
while another one runs (`BusyIsTrue` claims the other direction only), and an
upload confirmed before the list arrives may drop out of it (`ListShown`).
`volume_override` and `audio_enabled` are stored, but nothing on
the way of a command reads them, although `migrations/001_user_settings.sql:2`
says the relay does: `AudioDelivery` therefore does not refer to
`PlayerSettings`.

## 5. The proofs

For every set of events, connections, pages, players, servers, tabs, tokens,
uploads, deletes and requests, and every cap.

* `SeqLemmas`: facts about prefixes, prepending and dropping the last element,
  and about counting the positions that hold something (`CountIn`), which turn a
  claim on a filtered sequence into one on ranks, without induction over it.
* `EventFeed_proofs`. `FeedInv` strengthens the type invariant. The properties
  speak of `sent`, but whether a frame may be sent next depends on what waits in
  `history` and `pubsub`, so the invariant describes their concatenation: an
  event not yet published is in none of them; one that waits in `pubsub` was
  published after SUBSCRIBE and thus after LRANGE, hence is not in `history`; and
  along replay, then live messages, no later event is in `earlier` of a previous
  one (`MayFollow`). `RecentInv` ties `recent` to `pushed`. From it follow
  `TypeCorrect`, `NeverTwice`, `SentInOrder`, `TrimKeepsNewest` and
  `ListStaysBounded`. The feed itself needs `ReadInv` besides: whatever was read
  had been sent, and the k-th newest event read is entry k of the feed; a new
  event moves every rank up by one, anything else leaves ranks alone
  (`FeedIsWhatWasRead`). `DeliveredStaysUnderway` follows an event through
  queue, socket and feed, one action at a time. It uses `PhaseInv`: a task that
  is not live has nothing queued, so a session that ends by itself, whose page
  then closes after the last frame, leaves nothing behind; what does lose events,
  a lost link and the unmounting of the page, is named in the property.
* `SessionRegistry_proofs`. `RegistryInv` adds to the types: when the latest
  task of a player was submitted alone, no earlier one is unfinished
  (`AloneInv`); the latest task's kind and server are the proxy's state of the
  player (`ProxyInv`); and once it has stored, the entry is the one it wrote
  (`LatestInv`). From it follow `TypeCorrect`, `Heals` and, as an action
  property, `MessagesMatch`.

* `AudioDelivery_proofs`. `DeliveryInv` has three parts beside the types. The
  first frame on a connection, and the first one the page handles, is
  `auth_success` (`AuthFirst`: the relay sends it before it subscribes), so a
  command never reaches a page that `onclose` would not silence. A page that is
  not authenticated wants nothing and is not enabled; one that is not enabled
  has no Howl; an enabled one that does not wait for `resume()` has the Howl it
  wants (`PageInv`). A page whose link is closed wants nothing and has none. All
  of it rests on one lemma about `reconcile` (`ReconcileProperties`) and one
  that turns a callback that establishes `PageInv` into a step that keeps the
  invariant. From it follow `DeliveryTypes`, `PlaybackFollows` and
  `ClosedStaysSilent`, with every fault allowed, and `LeaveWaits`: the task takes
  messages from the front, so a player_disconnect only moves up until its turn.

* `AudioStream_proofs` is the refinement. `Pipeline` is the invariant it needs:
  the commands of a session that were issued and not obeyed are, in order and
  once each, those in the socket followed by those `IsForwarded` lets through
  in the subscription. Since such a filtered sequence cannot be reasoned about
  by induction here, it is stated by ranks: the n-th position that holds a
  command holds the n-th one that waits. With `PipelineInvariant` every step is
  an `Issue` (a publication), an `Apply` (the page handles a command), an `End` or
  `FallSilent` (close, loss, destroy), or changes nothing of the stream:
  `DeliveryImplementsStream`. Its corollary `PageWantsLast` is `LastObeyed` of the
  page: buttons, failing loads and Howler's events never change what it wants.

* `PortalLogin_proofs`. `LoginInv` adds to the types and the two invariants:
  what a tab has of a token, and of its answer, came after the token's link
  (`LinkInv`); a token that a request holds is not in Redis and held by no other
  (`TakenInv`); the player is recorded before the JWT is signed (`RecordInv`).
  `TakenInv` is what GETDEL buys. From it follow `LoginTypes`,
  `CookiesAreEarned`, `RefusedAreGone`, and `LoginImplementsToken`, the
  refinement: every step changes the state of one token at most, and then as
  `Issue`, `Admit` or `Void` of `OneTimeToken`. Its corollaries `TokensAdmitOnce`
  and `SpentStaysSpent` say what that gives a user. `RedirectsAgree` is a fact
  about `Redirect` and any cookies. `LoginLeadsHome` needs one more invariant,
  `SoughtInv`: while a tab looks for the home page of a login it loads that page
  or the login page of the same role, so the two sets of rules cannot lead it
  anywhere else.

* `MediaLibrary_proofs`. `LibraryInv` says where object, row and pending key of an
  upload are at each step: the object is there from the end of the PUT to the
  INSERT (`ObjectInv`), a row and a delete come after the only INSERT
  (`LateInv`), so that nothing a delete removes comes back; what a page has
  heard of had a row (`SeenInv`); the list arrives once (`ListInv`). From it
  follow `LibraryTypes`, `RowsHaveObjects`, `PermalinksPlay`,
  `SuccessMeansStored`, `BusyMeansRunning` and `ListedOnce`.

* `PlayerSettings_proofs`. `SettingsInv`: what any request brings is no newer than
  the row; when a save's date is the row's, the row has what the save submitted;
  a player's save is past its SET when it is answered, and a default client
  stored by it is still the one it SET (`CallInv`); a page waits for one request
  of its own at most and, while it saves, has nothing newer than the save
  (`WaitInv`), which rests on the disabled buttons; "Saved." stands for an
  answered save of that page, whose answer is the state behind the form
  (`ShownInv`). From it follow
  `SettingsTypes`, `SavesForShown`, `SavedMeansStored` and, as an action
  property, `PagesNeverGoBack`.

The constants' assumptions are the named ASSUMEs of the modules: caps are
naturals, the set of events is finite, special values differ from ordinary ones,
every upload has a page, admins' and players' pages are different ones.

Only model-checked is what is outside the prover's reach, liveness under
fairness: `LiveEventShown`, `SessionReleased`, `StreamDelivers`, `LeaveSilences`
and `NavigationEnds`. What three of them rest on is proved: the event, command or
message waits where the fair step will find it (`DeliveredStaysUnderway` for
`LiveEventShown`, `PipelineInvariant` for `StreamDelivers`, `LeaveWaits` for
`LeaveSilences`); that the step is taken is the fairness.

## 6. Not modelled

* Start-up, configuration, routing: sequential, no state afterwards. The same
  holds of `ModuleRegistry`: one module, registered and enabled on the server's
  main thread, whose `onDisable` is empty.
* `seed_bootstrap_admin`: of its three steps only the INSERT has an effect, and
  the UNIQUE username makes a second node's INSERT fail.
* Views without state of their own: dashboard and stats, the sessions page
  (one answer of `GetSessions`), the static regions, error and help pages.
* Argon2 and JWT cryptography, formats of payloads, logging, styling, and the
  texts of the pages, except where one is a promise a run checks.

Hazards no property covers are listed with the reason in `PROJECT.json`.
