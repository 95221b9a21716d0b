----------------------------- MODULE PortalLogin -----------------------------
(***************************************************************************)
(* Signing in: the one-time tokens the plugins and the relay hand out, the *)
(* requests that exchange them, and one browser of the portal with its two *)
(* cookies, its tabs, the login form and the redirects of proxy.ts.        *)
(*                                                                         *)
(* The plugin writes a token to Redis and sends its link.  Whoever opens   *)
(* the link makes the portal's callback POST the token to the relay, which *)
(* consumes it with GETDEL, records the player and signs a JWT; the        *)
(* callback turns the answer into a cookie and a redirect.  Each of these  *)
(* steps can fail after it took effect, and one link can be opened twice.  *)
(***************************************************************************)
EXTENDS Naturals

CONSTANTS
    Tabs,        \* each logs in once at most, by a link or by the form
    Tokens,
    Players,
    AdminUser,   \* the id of a row of admin_users
    PortalAdmin, \* the subject signAdminToken writes
    Asked,       \* the paths a user asks for; it bounds Visit
    NoToken, NoJwt

ASSUME AskedAssumption == Asked \subseteq {"/", "/login", "/dashboard", "/media",
                                           "/preferences", "/auth/player-login"}
ASSUME NoTokenAssumption == NoToken \notin Tokens

VARIABLES
    issue,      \* what each token is for, and how far its issuer is
    live,       \* Redis: the tokens that GETDEL would find
    exchange,   \* the request each tab makes with a token
    players,    \* PostgreSQL: players
    cookie,     \* the browser's as_admin_token and as_player_token
    tab,        \* what each tab shows and what it is loading
    pending     \* the login page of each tab: the forms that wait for an answer

tokenVars == <<issue, live>>
vars == <<issue, live, exchange, players, cookie, tab, pending>>

-----------------------------------------------------------------------------
\* "/dashboard" stands for every path of ADMIN_PREFIXES.
Path == {"/", "/login", "/dashboard", "/media", "/preferences",
         "/auth/player-login", "/auth/error"}

Form == {"credentials", "secret"}

\* The four key prefixes in Redis, and who the value names (for "ticket", nobody).
Issue ==
    [step : {"none", "written", "sent", "failed"},
     kind : {"lite", "ticket", "player", "admin"}, owner : Players]

Jwt == [sub : Players \cup {AdminUser, PortalAdmin}, role : {"admin", "none"},
        valid : BOOLEAN]

\* "status" is the relay's answer, "said" what became of it.
Exchange ==
    [token : Tokens \cup {NoToken},
     step : {"none", "asked", "taken", "recorded", "answered", "form"},
     status : {0, 200, 401, 500, 503},
     said : {"nothing", "ok", "invalid-token", "no-database", "relay-unreachable"}]

\* "sought": the home page a login redirected the tab to, until it is settled.
Tab == [shows : Path, loads : Path \cup {"nothing"}, sought : Path \cup {"nothing"}]

Init ==
    /\ issue \in [Tokens -> [step : {"none"}, kind : {"lite"}, owner : Players]]
    /\ live = {}
    /\ exchange = [x \in Tabs |->
          [token |-> NoToken, step |-> "none", status |-> 0, said |-> "nothing"]]
    /\ players = {}
    /\ cookie = [admin |-> NoJwt, player |-> NoJwt]
    /\ tab = [x \in Tabs |->
          [shows |-> "/auth/error", loads |-> "nothing", sought |-> "nothing"]]
    /\ pending = [x \in Tabs |-> {}]

-----------------------------------------------------------------------------
(* Tokens.                                                                 *)

\* verifyAdminToken, and AdminClaims of the relay; verifyPlayerToken.
AdminAuthed ==
    cookie.admin # NoJwt /\ cookie.admin.valid /\ cookie.admin.role = "admin"
PlayerAuthed ==
    cookie.player # NoJwt /\ cookie.player.valid /\ cookie.player.role = "none"

KindOf(t) == issue[t].kind
OwnerOf(t) == issue[t].owner

Written(t, kind, p) ==
    /\ issue[t].step = "none"
    /\ issue' = [issue EXCEPT ![t] = [step |-> "written", kind |-> kind, owner |-> p]]
    /\ live' = live \cup {t}
    /\ UNCHANGED <<exchange, players, cookie, tab, pending>>

\* Mutant of WriteToken: the token is written by a task of its own.
WriteTokenAsync(t, kind, p) ==
    \/ Written(t, kind, p)
    \/ /\ issue[t].step = "none"
       /\ issue' = [issue EXCEPT ![t] = [step |-> "written", kind |-> kind, owner |-> p]]
       /\ UNCHANGED <<live, exchange, players, cookie, tab, pending>>
    \/ /\ issue[t].step = "sent" /\ live' = live \cup {t}
       /\ UNCHANGED <<issue, exchange, players, cookie, tab, pending>>

\* /audio, /audio lite, portal and admin: SETEX.
WriteToken(t, kind, p) == Written(t, kind, p)

\* GET /api/admin-ticket and POST /api/admin/ticket: SET EX 15.
IssueTicket(t, p) == AdminAuthed /\ Written(t, "ticket", p)

\* The command fails, before or after Redis executed it: no link is sent.
WriteFails(t) ==
    /\ issue[t].step = "none"
    /\ issue' = [issue EXCEPT ![t].step = "failed"]
    /\ live' \in {live, live \cup {t}}
    /\ UNCHANGED <<exchange, players, cookie, tab, pending>>

SendLink(t) ==
    /\ issue[t].step = "written"
    /\ issue' = [issue EXCEPT ![t].step = "sent"]
    /\ UNCHANGED <<live, exchange, players, cookie, tab, pending>>

\* Redis: 15 s, 60 s or 5 min have passed.
TokenExpires(t) ==
    /\ t \in live
    /\ live' = live \ {t}
    /\ UNCHANGED <<issue, exchange, players, cookie, tab, pending>>

-----------------------------------------------------------------------------
(* The relay: player_callback, admin_ott_login, and the WebSocket upgrades. *)

TokenOf(x) == exchange[x].token

Answered(x, status) ==
    [exchange EXCEPT ![x].step = "answered", ![x].status = status]

\* No database: refused before the token is touched.
NoDatabase(x) ==
    /\ exchange[x].step = "asked" /\ KindOf(TokenOf(x)) = "player"
    /\ exchange' = Answered(x, 503)
    /\ UNCHANGED <<tokenVars, players, cookie, tab, pending>>

\* Mutant of GetDel: GET here, DEL only when the request succeeds.
GetOnly(x) ==
    /\ exchange[x].step = "asked"
    /\ exchange' = IF TokenOf(x) \in live THEN [exchange EXCEPT ![x].step = "taken"]
                   ELSE Answered(x, 401)
    /\ UNCHANGED <<tokenVars, players, cookie, tab, pending>>

\* validate: GETDEL finds the token, once.
GetDel(x) ==
    /\ exchange[x].step = "asked"
    /\ exchange' = IF TokenOf(x) \in live THEN [exchange EXCEPT ![x].step = "taken"]
                   ELSE Answered(x, 401)
    /\ live' = live \ {TokenOf(x)}
    /\ UNCHANGED <<issue, players, cookie, tab, pending>>

\* No connection, or the reply is lost: the token may be consumed.
GetDelFails(x) ==
    /\ exchange[x].step = "asked"
    /\ exchange' = Answered(x, 500)
    /\ live' \in {live, live \ {TokenOf(x)}}
    /\ UNCHANGED <<issue, players, cookie, tab, pending>>

\* INSERT INTO players ... ON CONFLICT DO UPDATE.
RecordPlayer(x) ==
    /\ exchange[x].step = "taken" /\ KindOf(TokenOf(x)) = "player"
    /\ exchange' = [exchange EXCEPT ![x].step = "recorded"]
    /\ players' = players \cup {OwnerOf(TokenOf(x))}
    /\ UNCHANGED <<tokenVars, cookie, tab, pending>>

\* Mutant of RecordFails: the failure is logged only.
RecordFailsQuietly(x) ==
    /\ exchange[x].step = "taken" /\ KindOf(TokenOf(x)) = "player"
    /\ exchange' = [exchange EXCEPT ![x].step = "recorded"]
    /\ UNCHANGED <<tokenVars, players, cookie, tab, pending>>

\* The token is spent all the same.
RecordFails(x) ==
    /\ exchange[x].step = "taken" /\ KindOf(TokenOf(x)) = "player"
    /\ exchange' = Answered(x, 500)
    /\ players' \in {players, players \cup {OwnerOf(TokenOf(x))}}
    /\ UNCHANGED <<tokenVars, cookie, tab, pending>>

MaySign(x) ==
    \/ exchange[x].step = "recorded"
    \/ exchange[x].step = "taken" /\ KindOf(TokenOf(x)) # "player"

\* 200 with a JWT, or 101: the WebSocket is open.
Admit(x) ==
    /\ MaySign(x)
    /\ exchange' = Answered(x, 200)
    /\ UNCHANGED <<tokenVars, players, cookie, tab, pending>>

SignFails(x) ==
    /\ MaySign(x) /\ KindOf(TokenOf(x)) \in {"player", "admin"}
    /\ exchange' = Answered(x, 500)
    /\ UNCHANGED <<tokenVars, players, cookie, tab, pending>>

\* jwt::sign, jwt::sign_admin.
JwtFor(t) ==
    [sub |-> OwnerOf(t), role |-> IF KindOf(t) = "admin" THEN "admin" ELSE "none",
     valid |-> TRUE]

-----------------------------------------------------------------------------
(* The browser: links.                                                     *)

\* A page loads, or a link is exchanged.
IsWaiting(x) ==
    \/ tab[x].loads # "nothing"
    \/ exchange[x].step \notin {"none", "form"} /\ exchange[x].said = "nothing"

\* The user leaves a tab alone until it settles.
IsBusy(x) == IsWaiting(x) \/ pending[x] # {}

IsPortalLink(t) == KindOf(t) \in {"player", "admin"}

Load(x, path, sought) == [tab EXCEPT ![x].loads = path, ![x].sought = sought]

OpenLink(x, t) ==
    /\ issue[t].step = "sent" /\ exchange[x].step = "none" /\ ~IsBusy(x)
    /\ exchange' = [exchange EXCEPT ![x].token = t, ![x].step = "asked"]
    /\ UNCHANGED <<tokenVars, players, cookie, tab, pending>>

\* Mutants of CookieOf and HomeOf: the player's callback uses ADMIN_COOKIE;
\* it redirects to a page that does not exist.
CookieOfAdmin(t) == "admin"
HomeOfPlayer(t) == IF KindOf(t) = "admin" THEN "/dashboard" ELSE "/player"

CookieOf(t) == IF KindOf(t) = "admin" THEN "admin" ELSE "player"
HomeOf(t) == IF KindOf(t) = "admin" THEN "/dashboard" ELSE "/preferences"

\* The callback got 200: it sets the cookie and redirects.  A WebSocket is just open.
LinkAccepted(x) ==
    /\ exchange[x].step = "answered" /\ exchange[x].said = "nothing"
    /\ exchange[x].status = 200
    /\ exchange' = [exchange EXCEPT ![x].said = "ok"]
    /\ LET t == TokenOf(x) IN
        IF IsPortalLink(t)
        THEN /\ cookie' = [cookie EXCEPT ![CookieOf(t)] = JwtFor(t)]
             /\ tab' = Load(x, HomeOf(t), HomeOf(t))
        ELSE UNCHANGED <<cookie, tab>>
    /\ UNCHANGED <<tokenVars, players, pending>>

\* The error page, or the error of a WebSocket that was not opened.
Refused(x, reason) ==
    /\ exchange[x].said = "nothing"
    /\ exchange' = [exchange EXCEPT ![x].said = reason]
    /\ tab' = IF IsPortalLink(TokenOf(x)) THEN Load(x, "/auth/error", "nothing") ELSE tab
    /\ UNCHANGED <<tokenVars, players, cookie, pending>>

\* The player's callback alone has a reason for 503.
LinkRefused(x) ==
    /\ exchange[x].step = "answered" /\ exchange[x].status # 200
    /\ Refused(x, IF exchange[x].status = 503 THEN "no-database" ELSE "invalid-token")

\* fetch throws; the relay may go on with the request.
RelayUnreachable(x) ==
    /\ exchange[x].step \notin {"none", "form"}
    /\ Refused(x, "relay-unreachable")

-----------------------------------------------------------------------------
(* The browser: the login form and signing out.                            *)

\* The button of either form is disabled while that form's action is pending.
Submit(x, f) ==
    /\ tab[x].shows = "/login" /\ tab[x].loads = "nothing"
    /\ exchange[x].step = "none" /\ f \notin pending[x]
    /\ pending' = [pending EXCEPT ![x] = @ \cup {f}]
    /\ UNCHANGED <<tokenVars, exchange, players, cookie, tab>>

\* loginWithCredentials asks the relay, loginWithSecret signs in the portal.
LoginSucceeds(x, f) ==
    /\ f \in pending[x]
    /\ pending' = [pending EXCEPT ![x] = @ \ {f}]
    /\ exchange' = [exchange EXCEPT ![x].step = "form"]
    /\ cookie' = [cookie EXCEPT !.admin =
          [sub |-> IF f = "credentials" THEN AdminUser ELSE PortalAdmin,
           role |-> "admin", valid |-> TRUE]]
    /\ tab' = Load(x, "/dashboard", "/dashboard")
    /\ UNCHANGED <<tokenVars, players>>

\* Wrong, refused or unreachable: the form shows an error.
LoginFails(x, f) ==
    /\ f \in pending[x]
    /\ pending' = [pending EXCEPT ![x] = @ \ {f}]
    /\ UNCHANGED <<tokenVars, exchange, players, cookie, tab>>

\* The button of the admin pages and, with the same action, of the player's page.
Logout(x) ==
    /\ tab[x].shows \in {"/dashboard", "/media", "/preferences"} /\ ~IsBusy(x)
    /\ cookie' = [cookie EXCEPT !.admin = NoJwt]
    /\ tab' = Load(x, "/login", "nothing")
    /\ UNCHANGED <<tokenVars, exchange, players, pending>>

-----------------------------------------------------------------------------
(* The browser: navigation.                                                *)

Visit(x, path) ==
    /\ ~IsBusy(x)
    /\ tab' = Load(x, path, "nothing")
    /\ UNCHANGED <<tokenVars, exchange, players, cookie, pending>>

\* Mutants of Redirect: authed users are told by the presence of a cookie;
\* players without one are sent to the admins' form.
RedirectByPresence(path) ==
    CASE path = "/" -> IF AdminAuthed THEN "/dashboard"
                       ELSE IF PlayerAuthed THEN "/preferences" ELSE "/login"
      [] path = "/dashboard" /\ ~AdminAuthed -> "/login"
      [] path = "/preferences" /\ ~PlayerAuthed -> "/auth/player-login"
      [] path = "/login" /\ cookie.admin # NoJwt -> "/dashboard"
      [] path = "/auth/player-login" /\ cookie.player # NoJwt -> "/preferences"
      [] OTHER -> path

RedirectToForm(path) ==
    CASE path = "/" -> IF AdminAuthed THEN "/dashboard"
                       ELSE IF PlayerAuthed THEN "/preferences" ELSE "/login"
      [] path = "/dashboard" /\ ~AdminAuthed -> "/login"
      [] path = "/preferences" /\ ~PlayerAuthed -> "/login"
      [] path = "/login" /\ AdminAuthed -> "/dashboard"
      [] path = "/auth/player-login" /\ PlayerAuthed -> "/preferences"
      [] OTHER -> path

\* proxy: where a request is redirected to; to itself when it is let through.
Redirect(path) ==
    CASE path = "/" -> IF AdminAuthed THEN "/dashboard"
                       ELSE IF PlayerAuthed THEN "/preferences" ELSE "/login"
      [] path = "/dashboard" /\ ~AdminAuthed -> "/login"
      [] path = "/preferences" /\ ~PlayerAuthed -> "/auth/player-login"
      [] path = "/login" /\ AdminAuthed -> "/dashboard"
      [] path = "/auth/player-login" /\ PlayerAuthed -> "/preferences"
      [] OTHER -> path

Follow(x) ==
    /\ tab[x].loads # "nothing"
    /\ LET path == tab[x].loads
           target == Redirect(path)
       IN tab' = [tab EXCEPT ![x] =
             IF target = path
             THEN [shows |-> path, loads |-> "nothing", sought |-> "nothing"]
             ELSE [@ EXCEPT !.loads = target]]
    /\ UNCHANGED <<tokenVars, exchange, players, cookie, pending>>

\* PlayerLayout verifies the cookie again: its JWT expired after the proxy's check.
LayoutRejects(x) ==
    /\ tab[x].loads = "/preferences" /\ PlayerAuthed
    /\ cookie' = [cookie EXCEPT !.player.valid = FALSE]
    /\ tab' = [tab EXCEPT ![x].loads = "/auth/player-login"]
    /\ UNCHANGED <<tokenVars, exchange, players, pending>>

JwtExpires(k) ==
    /\ cookie[k] # NoJwt /\ cookie[k].valid
    /\ cookie' = [cookie EXCEPT ![k].valid = FALSE]
    /\ UNCHANGED <<tokenVars, exchange, players, tab, pending>>

\* maxAge, or the user removes it.
CookieExpires(k) ==
    /\ cookie[k] # NoJwt
    /\ cookie' = [cookie EXCEPT ![k] = NoJwt]
    /\ UNCHANGED <<tokenVars, exchange, players, tab, pending>>

-----------------------------------------------------------------------------
Relay(x) == NoDatabase(x) \/ GetDel(x) \/ RecordPlayer(x) \/ Admit(x)
Settle(x) == \E f \in Form : LoginSucceeds(x, f) \/ LoginFails(x, f)
Answer(x) == LinkAccepted(x) \/ LinkRefused(x)

User ==
    \/ \E t \in Tokens :
         \/ \E p \in Players, kind \in {"lite", "player", "admin"} : WriteToken(t, kind, p)
         \/ \E p \in Players : IssueTicket(t, p)
         \/ SendLink(t)
    \/ \E x \in Tabs :
         \/ \E t \in Tokens : OpenLink(x, t)
         \/ \E f \in Form : Submit(x, f)
         \/ \E path \in Asked : Visit(x, path)
         \/ Logout(x)

Faults ==
    \/ \E t \in Tokens : WriteFails(t) \/ TokenExpires(t)
    \/ \E x \in Tabs :
         \/ GetDelFails(x) \/ RecordFails(x) \/ SignFails(x)
         \/ RelayUnreachable(x) \/ LayoutRejects(x)
    \/ \E k \in {"admin", "player"} : JwtExpires(k) \/ CookieExpires(k)

Next ==
    \/ User \/ Faults
    \/ \E x \in Tabs : Relay(x) \/ Answer(x) \/ Settle(x) \/ Follow(x)

Spec == Init /\ [][Next]_vars

\* The relay and the portal answer what they are asked, and the browser follows
\* redirects.  Nobody has to click anything.
Fairness ==
    \A x \in Tabs :
        /\ WF_vars(exchange[x].said = "nothing" /\ Relay(x))
        /\ WF_vars(Answer(x)) /\ WF_vars(Follow(x))

FairSpec == Spec /\ Fairness

-----------------------------------------------------------------------------
(* Properties.                                                             *)

TypeOK ==
    /\ issue \in [Tokens -> Issue]
    /\ live \subseteq Tokens
    /\ exchange \in [Tabs -> Exchange]
    /\ players \subseteq Players
    /\ cookie \in [{"admin", "player"} -> Jwt \cup {NoJwt}]
    /\ tab \in [Tabs -> Tab]
    /\ pending \in [Tabs -> SUBSET Form]

\* A request whose token GETDEL returned, and that is not over for the relay.
IsTaken(x) == exchange[x].step \in {"taken", "recorded"}
IsAdmitted(x) == exchange[x].step = "answered" /\ exchange[x].status = 200

Admitted(t) == {x \in Tabs : TokenOf(x) = t /\ IsAdmitted(x)}

Taken(t) == \E x \in Tabs : TokenOf(x) = t /\ IsTaken(x)

\* A token is valid until the request that took it is admitted or has failed.
TokenState(t) ==
    IF issue[t].step = "none" THEN "unissued"
    ELSE IF Admitted(t) # {} THEN "spent"
    ELSE IF t \in live \/ Taken(t) THEN "valid" ELSE "void"

OTT == INSTANCE OneTimeToken WITH
          Requests <- Tabs,
          state <- [t \in Tokens |-> TokenState(t)],
          admitted <- [t \in Tokens |-> Admitted(t)]

\* Every kind of token is a one-time token: however often a link is opened and
\* whatever fails between GETDEL and the answer, one request at most is admitted.
TokenImplemented == OTT!Spec

\* The cookies are what a login put there: the player's belongs to the owner of
\* a link that was accepted, has no role, and the player was recorded; the
\* admin's has the role, and its subject logged in by form or by an admin link.
CookiesMatch ==
    /\ cookie.player # NoJwt =>
         /\ cookie.player.role = "none" /\ cookie.player.sub \in players
         /\ \E x \in Tabs : exchange[x].said = "ok" /\ KindOf(TokenOf(x)) = "player"
                            /\ cookie.player.sub = OwnerOf(TokenOf(x))
    /\ cookie.admin # NoJwt =>
         /\ cookie.admin.role = "admin"
         /\ \E x \in Tabs :
              \/ exchange[x].step = "form" /\ cookie.admin.sub \in {AdminUser, PortalAdmin}
              \/ exchange[x].said = "ok" /\ KindOf(TokenOf(x)) = "admin"
                 /\ cookie.admin.sub = OwnerOf(TokenOf(x))

\* 401 is final: a request refused that way met a token that was used or has
\* expired, never one whose link was faster than its SETEX.
RefusedMeansGone == \A x \in Tabs : exchange[x].status = 401 => TokenOf(x) \notin live

\* A tab that was redirected by a login ends on the home page of that login; on
\* its login page only if that cookie does not hold any more.
LoginLands ==
    [][\A x \in Tabs :
         tab[x].sought # "nothing" /\ tab[x].loads # "nothing" /\ tab'[x].loads = "nothing" =>
           \/ tab'[x].shows = tab[x].sought
           \/ tab[x].sought = "/dashboard" /\ tab'[x].shows = "/login" /\ ~AdminAuthed
           \/ tab[x].sought = "/preferences" /\ tab'[x].shows = "/auth/player-login"
              /\ ~PlayerAuthed]_vars

\* The rules that send a tab to a login page and those that send it away from one
\* agree on every cookie, a stale one too: what the proxy redirects a tab to, it
\* lets through, as long as the cookies stay as they are.
OneRedirect == \A path \in Path : Redirect(Redirect(path)) = Redirect(path)

\* A tab does not wait for ever: links are answered, and redirects end although the
\* cookies they depend on change meanwhile.
NavigationEnds == \A x \in Tabs : IsWaiting(x) ~> ~IsWaiting(x)
=============================================================================
