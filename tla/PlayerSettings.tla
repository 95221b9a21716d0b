--------------------------- MODULE PlayerSettings ---------------------------
(***************************************************************************)
(* A player's settings: volume and mute in PostgreSQL, the default client  *)
(* in Redis.  The admins' settings page and the player's preferences page  *)
(* read and write them through the relay, and /audio default writes Redis  *)
(* itself.  A request of a page takes several steps at the relay; its      *)
(* answer may be lost while the relay goes on with it, so that a save the  *)
(* page has given up on may still be carried out.                          *)
(***************************************************************************)
EXTENDS Naturals

CONSTANTS
    Admins, Portals,  \* settings pages and preferences pages
    Players,
    Requests,         \* each sent once
    Volumes, FullVolume,
    Keep,             \* an empty volume field: parseFloat gives NaN, JSON null
    Filled,           \* what the forms are filled with when they are submitted
    NoPlayer, NoRequest

ASSUME PagesAssumption == Admins \cap Portals = {}
ASSUME VolumeAssumption == FullVolume \in Volumes /\ Keep \notin Volumes
ASSUME NoneAssumption == NoPlayer \notin Players /\ NoRequest \notin Requests

VARIABLES
    row,        \* PostgreSQL: user_settings; "at" tells the upserts apart
    pref,       \* Redis: audio:player:pref:<uuid>
    cookie,     \* the player the browser of each preferences page is signed in as
    page,       \* what each page has
    call,       \* how far each request is
    fate        \* history variable: what became of the default client of a save

stores == <<row, pref, fate>>
vars == <<row, pref, cookie, page, call, fate>>

-----------------------------------------------------------------------------
Pages == Admins \cup Portals
Client == {"lite", "portal"}

Row == [vol : Volumes, on : BOOLEAN, at : Nat]
Settings == [vol : Volumes, on : BOOLEAN, at : Nat, client : Client]
Wanted == [vol : Volumes \cup {Keep}, on : BOOLEAN, client : Client]

ASSUME FilledAssumption == Filled \subseteq Wanted

\* "input" is the search field, "player" and "settings" the state behind the form
\* (settings, profile), "by" the request that brought it, and "waits" the requests
\* not settled yet.  The state seeds the fields and gives the uuid and the date
\* shown; the fields are not controlled and keep what the user entered.
Page ==
    [input : Players, player : Players \cup {NoPlayer}, settings : Settings,
     by : Requests \cup {NoRequest}, waits : SUBSET Requests,
     status : {"idle", "saved", "error"}, broken : BOOLEAN]

Call ==
    [op : {"none", "get", "put"}, page : Pages, player : Players, wants : Wanted,
     step : {"none", "asked", "row", "pref", "answered", "failed"}, got : Settings]

\* Not SET yet; what Redis has; overwritten since; lost by a SET without effect.
Fates == {"none", "stored", "replaced", "lost"}

\* COALESCE(..., 1.0), COALESCE(..., TRUE): what a player without a row has.
NoRow == [vol |-> FullVolume, on |-> TRUE, at |-> 0]
WithClient(r, client) == [vol |-> r.vol, on |-> r.on, at |-> r.at, client |-> client]
Blank == WithClient(NoRow, "lite")

Init ==
    /\ row = [p \in Players |-> NoRow]
    /\ pref = [p \in Players |-> "none"]
    /\ cookie \in [Portals -> Players]
    /\ \E p \in Players, f \in Pages :
         /\ page = [g \in Pages |->
              [input |-> p, player |-> NoPlayer, settings |-> Blank, by |-> NoRequest,
               waits |-> {}, status |-> "idle", broken |-> FALSE]]
         /\ call = [r \in Requests |->
              [op |-> "none", page |-> f, player |-> p, step |-> "none", got |-> Blank,
               wants |-> [vol |-> Keep, on |-> TRUE, client |-> "lite"]]]
    /\ fate = [r \in Requests |-> "none"]

-----------------------------------------------------------------------------
(* The pages.                                                              *)

IsPending(f) == page[f].waits # {}

\* The request r of page f goes out.
Send(r, f, op, p, wants) ==
    /\ call[r].op = "none"
    /\ call' = [call EXCEPT ![r] =
          [op |-> op, page |-> f, player |-> p, wants |-> wants, step |-> "asked",
           got |-> Blank]]

Unused == [vol |-> Keep, on |-> TRUE, client |-> "lite"]

Type(f, p) ==
    /\ page' = [page EXCEPT ![f].input = p]
    /\ UNCHANGED <<stores, cookie, call>>

\* The settings page forgets the player it shows, and asks for the one typed.
HandleLoad(f, r) ==
    /\ ~IsPending(f)
    /\ Send(r, f, "get", page[f].input, Unused)
    /\ page' = [page EXCEPT ![f].player = NoPlayer, ![f].status = "idle",
                            ![f].broken = FALSE, ![f].waits = @ \cup {r}]
    /\ UNCHANGED <<stores, cookie>>

\* The effect of the preferences page: GET /player/me as whoever is signed in.
Mount(f, r) ==
    /\ page[f].player = NoPlayer /\ ~IsPending(f) /\ ~page[f].broken
    /\ Send(r, f, "get", cookie[f], Unused)
    /\ page' = [page EXCEPT ![f].waits = @ \cup {r}]
    /\ UNCHANGED <<stores, cookie>>

\* Whom a save is for: the loaded player; the relay takes the cookie's.
TargetOf(f) == IF f \in Admins THEN page[f].player ELSE cookie[f]

Saves(f, r, wants, p) ==
    /\ Send(r, f, "put", p, wants)
    /\ page' = [page EXCEPT ![f].status = "idle", ![f].waits = @ \cup {r}]
    /\ UNCHANGED <<stores, cookie>>

\* Mutants of HandleSave: the player is read from the search field; the button
\* is not disabled while a request is pending.
HandleSaveTyped(f, r, wants) ==
    /\ page[f].player # NoPlayer /\ ~IsPending(f)
    /\ f \in Portals => wants.vol # Keep
    /\ Saves(f, r, wants, IF f \in Admins THEN page[f].input ELSE cookie[f])

HandleSaveAnytime(f, r, wants) ==
    /\ page[f].player # NoPlayer
    /\ f \in Portals => wants.vol # Keep
    /\ Saves(f, r, wants, TargetOf(f))

\* Any values may be in the fields; the slider of the preferences page has one.
HandleSave(f, r, wants) ==
    /\ page[f].player # NoPlayer /\ ~IsPending(f)
    /\ f \in Portals => wants.vol # Keep
    /\ Saves(f, r, wants, TargetOf(f))

\* Mutant of Settled: an answer counts as an error.
SettledOddly(f, r) == [page EXCEPT ![f].waits = @ \ {r}, ![f].status = "failed"]

\* setSettings, or setProfile, which keeps the uuid it has.
Settled(f, r) ==
    LET isPut == call[r].op = "put"
    IN [page EXCEPT ![f].waits = @ \ {r},
            ![f].player = IF isPut /\ f \in Portals THEN @ ELSE call[r].player,
            ![f].by = r,
            ![f].settings = call[r].got,
            ![f].status = IF isPut THEN "saved" ELSE @]

AnswerShown(f, r) ==
    /\ r \in page[f].waits /\ call[r].step = "answered"
    /\ page' = Settled(f, r)
    /\ UNCHANGED <<stores, cookie, call>>

\* An error, or a lost answer; then the relay goes on.  A load that failed
\* leaves an error in the form's place, on the preferences page for good.
ErrorShown(f, r) ==
    /\ r \in page[f].waits
    /\ page' = [page EXCEPT ![f].waits = @ \ {r},
          ![f].status = IF call[r].op = "put" THEN "error" ELSE @,
          ![f].broken = (call[r].op = "get") \/ @]
    /\ UNCHANGED <<stores, cookie, call>>

\* The browser of a preferences page follows another player's link.
SignIn(f, p) ==
    /\ cookie' = [cookie EXCEPT ![f] = p]
    /\ UNCHANGED <<stores, page, call>>

-----------------------------------------------------------------------------
(* The relay: get_settings, put_settings, get_me, put_player_settings.     *)

PlayerOf(r) == call[r].player

\* Mutant of AfterRow: every request is answered at once, before the SET.
AfterRowOnly(r, s) ==
    call' = [call EXCEPT ![r].step = "answered", ![r].got = WithClient(s, "lite")]

\* After its row, a request of a preferences page goes on to Redis.
AfterRow(r, s) ==
    call' = [call EXCEPT
        ![r].step = IF call[r].page \in Admins THEN "answered" ELSE "row",
        ![r].got = WithClient(s, "lite")]

\* The SELECT.  A player who is signed in has a row in players (CookiesMatch of
\* PortalLogin), so the join of get_me finds what get_settings would.
SelectRow(r) ==
    /\ call[r].op = "get" /\ call[r].step = "asked"
    /\ AfterRow(r, row[PlayerOf(r)])
    /\ UNCHANGED <<stores, cookie, page>>

\* INSERT ... ON CONFLICT DO UPDATE with COALESCE.  Upserts of a row are serial.
Upserted(r) ==
    [vol |-> IF call[r].wants.vol = Keep THEN row[PlayerOf(r)].vol ELSE call[r].wants.vol,
     on |-> call[r].wants.on,
     at |-> row[PlayerOf(r)].at + 1]

WriteRow(r) == row' = [row EXCEPT ![PlayerOf(r)] = Upserted(r)]

\* RETURNING: the row as this request wrote it.
UpsertRow(r) ==
    /\ call[r].op = "put" /\ call[r].step = "asked"
    /\ WriteRow(r)
    /\ AfterRow(r, Upserted(r))
    /\ UNCHANGED <<pref, fate, cookie, page>>

\* 500, or 503; the upsert may have been executed.
DatabaseFails(r) ==
    /\ call[r].step = "asked"
    /\ call' = [call EXCEPT ![r].step = "failed"]
    /\ \/ call[r].op = "put" /\ WriteRow(r)
       \/ UNCHANGED row
    /\ UNCHANGED <<pref, fate, cookie, page>>

\* A SET for p overwrites what an earlier save stored.
Replaced(p) ==
    [s \in Requests |->
        IF fate[s] = "stored" /\ PlayerOf(s) = p THEN "replaced" ELSE fate[s]]

WritePref(r) ==
    /\ pref' = [pref EXCEPT ![PlayerOf(r)] = call[r].wants.client]
    /\ fate' = [Replaced(PlayerOf(r)) EXCEPT ![r] = "stored"]

\* SET audio:player:pref:<uuid>.
SetDefaultClient(r) ==
    /\ call[r].op = "put" /\ call[r].step = "row"
    /\ WritePref(r)
    /\ call' = [call EXCEPT ![r].step = "pref"]
    /\ UNCHANGED <<row, cookie, page>>

\* No connection, or an error that is ignored: the request goes on.  Redis may
\* have executed the command.
SetFails(r) ==
    /\ call[r].op = "put" /\ call[r].step = "row"
    /\ \/ WritePref(r)
       \/ fate' = [fate EXCEPT ![r] = "lost"] /\ UNCHANGED pref
    /\ call' = [call EXCEPT ![r].step = "pref"]
    /\ UNCHANGED <<row, cookie, page>>

ClientIs(r, client) ==
    /\ call[r].step = IF call[r].op = "put" THEN "pref" ELSE "row"
    /\ call' = [call EXCEPT ![r].step = "answered", ![r].got.client = client]
    /\ UNCHANGED <<stores, cookie, page>>

\* redis_get_default: what GET finds, "lite" if it finds nothing or fails.
ReadDefaultClient(r) ==
    ClientIs(r, IF pref[PlayerOf(r)] = "none" THEN "lite" ELSE pref[PlayerOf(r)])
ReadFails(r) == ClientIs(r, "lite")

-----------------------------------------------------------------------------
(* The plugin.                                                             *)

\* /audio default lite, /audio default portal: SET, on a thread of its own.  It
\* fails without effect, or else the player is told of success or of an error.
SetPlayerDefault(p, client) ==
    /\ pref' = [pref EXCEPT ![p] = client]
    /\ fate' = Replaced(p)
    /\ UNCHANGED <<row, cookie, page, call>>

\* /audio: which link the player gets.
LinkFor(p) == IF pref[p] = "portal" THEN "portal" ELSE "lite"

-----------------------------------------------------------------------------
Next ==
    \/ \E f \in Admins, p \in Players : Type(f, p)
    \/ \E f \in Admins, r \in Requests : HandleLoad(f, r)
    \/ \E f \in Portals, r \in Requests : Mount(f, r)
    \/ \E f \in Portals, p \in Players : SignIn(f, p)
    \/ \E f \in Pages, r \in Requests :
         \/ \E wants \in Filled : HandleSave(f, r, wants)
         \/ AnswerShown(f, r) \/ ErrorShown(f, r)
    \/ \E r \in Requests :
         \/ SelectRow(r) \/ UpsertRow(r) \/ DatabaseFails(r)
         \/ SetDefaultClient(r) \/ SetFails(r) \/ ReadDefaultClient(r) \/ ReadFails(r)
    \/ \E p \in Players, client \in Client : SetPlayerDefault(p, client)

Spec == Init /\ [][Next]_vars

-----------------------------------------------------------------------------
(* Properties.                                                             *)

TypeOK ==
    /\ row \in [Players -> Row]
    /\ pref \in [Players -> Client \cup {"none"}]
    /\ cookie \in [Portals -> Players]
    /\ page \in [Pages -> Page]
    /\ call \in [Requests -> Call]
    /\ fate \in [Requests -> Fates]

\* What "Saved." means, for the values that were submitted with the form.  Volume
\* and mute are in the row, until another upsert; the row never falls back behind
\* the date of the answer.  A player's default client is the one /audio opens, until it is
\* set again, but for one case, which the page does not tell from success: the SET
\* had no effect, its error was ignored, and the request was answered all the same.
SavedIsStored ==
    \A f \in Pages : page[f].status = "saved" =>
        LET r == page[f].by
            p == PlayerOf(r)
            wants == call[r].wants
        IN /\ row[p].at >= page[f].settings.at
           /\ row[p].at = page[f].settings.at =>
                /\ row[p].on = wants.on
                /\ wants.vol # Keep => row[p].vol = wants.vol
           /\ f \in Portals /\ fate[r] \notin {"replaced", "lost"} =>
                LinkFor(p) = wants.client

\* A save an admin waits for is for the player whose values the page shows,
\* whatever was typed into the search field after they were loaded.
OnlyShownPlayer ==
    \A f \in Admins : \A r \in page[f].waits :
        call[r].op = "put" => call[r].player = page[f].player

\* A page that goes on showing a player never goes back to an older date of that
\* player's row, although saves that failed for the page may be carried out later.
NeverOlder ==
    [][\A f \in Admins :
         page[f].player # NoPlayer /\ page'[f].player = page[f].player =>
             page'[f].settings.at >= page[f].settings.at]_vars
=============================================================================
