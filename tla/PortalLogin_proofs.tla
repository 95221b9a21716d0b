------------------------- MODULE PortalLogin_proofs -------------------------
(***************************************************************************)
(* What TLAPS proves about PortalLogin, for any tabs, tokens and players   *)
(* and whatever paths the user asks for.                                   *)
(***************************************************************************)
EXTENDS PortalLogin, TLAPS

\* A token that exists was issued; one a tab has was sent.  An answer, and what
\* became of it, come after the token; forms and links exclude each other.
LinkInv ==
    /\ \A t \in live : issue[t].step # "none"
    /\ \A x \in Tabs :
         /\ TokenOf(x) = NoToken <=> exchange[x].step \in {"none", "form"}
         /\ TokenOf(x) # NoToken => issue[TokenOf(x)].step = "sent"
         /\ exchange[x].status # 0 => exchange[x].step = "answered"
         /\ exchange[x].said = "ok" => IsAdmitted(x)
         /\ pending[x] # {} => exchange[x].step \in {"none", "form"}

Holds(x) == IsTaken(x) \/ IsAdmitted(x)

\* GETDEL hands a token to one request, and Redis has it no longer.
TakenInv ==
    \A x, y \in Tabs :
        (Holds(x) /\ TokenOf(x) = TokenOf(y)) =>
            TokenOf(x) \notin live /\ (Holds(y) => x = y)

\* A player is recorded before the JWT is signed.
RecordInv ==
    \A x \in Tabs :
        (KindOf(TokenOf(x)) = "player" /\ (exchange[x].step = "recorded" \/ IsAdmitted(x)))
            => OwnerOf(TokenOf(x)) \in players

LoginInv ==
    TypeOK /\ LinkInv /\ TakenInv /\ RecordInv /\ CookiesMatch /\ RefusedMeansGone

-----------------------------------------------------------------------------
LEMMA InitLogin == Init => LoginInv
<1> SUFFICES ASSUME Init
             PROVE  LoginInv
  OBVIOUS
<1>1. /\ \A x \in Tabs : /\ TokenOf(x) = NoToken /\ exchange[x].step = "none"
                         /\ exchange[x].status = 0 /\ exchange[x].said = "nothing"
                         /\ pending[x] = {}
      /\ live = {} /\ cookie.admin = NoJwt /\ cookie.player = NoJwt
  BY DEF Init, TokenOf
<1>2. TypeOK
  <2>1. issue \in [Tokens -> Issue] /\ exchange \in [Tabs -> Exchange]
    BY DEF Init, Issue, Exchange
  <2>2. tab \in [Tabs -> Tab] /\ pending \in [Tabs -> SUBSET Form]
    BY DEF Init, Tab, Path
  <2>3. cookie \in [{"admin", "player"} -> Jwt \cup {NoJwt}]
    BY DEF Init
  <2>4. live \subseteq Tokens /\ players \subseteq Players
    BY DEF Init
  <2> QED
    BY <2>1, <2>2, <2>3, <2>4 DEF TypeOK
<1>3. LinkInv /\ TakenInv /\ RecordInv
  BY <1>1 DEF LinkInv, TakenInv, RecordInv, Holds, IsTaken, IsAdmitted
<1>4. CookiesMatch /\ RefusedMeansGone
  BY <1>1 DEF CookiesMatch, RefusedMeansGone
<1> QED
  BY <1>2, <1>3, <1>4 DEF LoginInv

-----------------------------------------------------------------------------
(* The relay.                                                              *)

\* What a request goes through at the relay: the step s and the status.
RelayMoves(x, s, status) ==
    /\ exchange' \in [Tabs -> Exchange]
    /\ \A y \in Tabs \ {x} : exchange'[y] = exchange[y]
    /\ exchange'[x].token = exchange[x].token /\ exchange'[x].said = exchange[x].said
    /\ exchange'[x].step = s /\ exchange'[x].status = status

LEMMA AnsweredMoves ==
    ASSUME TypeOK, NEW x \in Tabs, NEW status \in {0, 200, 401, 500, 503},
           exchange' = Answered(x, status)
    PROVE  RelayMoves(x, "answered", status)
<1> DEFINE half == [exchange EXCEPT ![x].step = "answered"]
<1>1. exchange \in [Tabs -> Exchange] /\ exchange[x] \in Exchange
  BY DEF TypeOK
<1>2. /\ half \in [Tabs -> Exchange] /\ half[x].step = "answered"
      /\ half[x].token = exchange[x].token /\ half[x].said = exchange[x].said
      /\ \A y \in Tabs \ {x} : half[y] = exchange[y]
  BY <1>1 DEF Exchange
<1>3. exchange' = [half EXCEPT ![x].status = status]
  BY <1>1 DEF Answered
<1> HIDE DEF half
<1> QED
  BY <1>2, <1>3 DEF Exchange, RelayMoves

LEMMA StepMoves ==
    ASSUME TypeOK, NEW x \in Tabs, NEW s \in {"taken", "recorded"},
           exchange' = [exchange EXCEPT ![x].step = s]
    PROVE  RelayMoves(x, s, exchange[x].status)
BY DEF TypeOK, Exchange, RelayMoves

\* A request moves on: it is taken only by the one that finds the token, goes
\* on only if it was taken, and is refused only for a token that is not there.
LEMMA RelayMove ==
    ASSUME LoginInv, NEW x \in Tabs, NEW s \in {"taken", "recorded", "answered"},
           NEW status, RelayMoves(x, s, status), UNCHANGED <<issue, cookie, tab, pending>>,
           exchange[x].step \in {"asked", "taken", "recorded"},
           live' \subseteq live, players \subseteq players', players' \subseteq Players,
           s = "taken" => exchange[x].step = "asked" /\ TokenOf(x) \in live \ live',
           (s = "recorded" \/ (s = "answered" /\ status = 200)) => IsTaken(x),
           (KindOf(TokenOf(x)) = "player" /\ (s = "recorded" \/ (s = "answered" /\ status = 200)))
               => OwnerOf(TokenOf(x)) \in players',
           status = 401 => TokenOf(x) \notin live',
           status # 0 => s = "answered"
    PROVE  LoginInv'
<1>1. \A y \in Tabs :
        /\ TokenOf(y)' = TokenOf(y)
        /\ exchange'[y].said = exchange[y].said
        /\ (exchange'[y].step = "form" <=> exchange[y].step = "form")
        /\ (exchange'[y].step = "none" <=> exchange[y].step = "none")
        /\ y # x => exchange'[y] = exchange[y]
  BY DEF RelayMoves, TokenOf
<1>2. \A t : KindOf(t)' = KindOf(t) /\ OwnerOf(t)' = OwnerOf(t)
  BY DEF KindOf, OwnerOf
<1>3. \A y \in Tabs : y # x =>
        /\ IsTaken(y)' = IsTaken(y) /\ IsAdmitted(y)' = IsAdmitted(y)
        /\ Holds(y)' = Holds(y)
  BY <1>1 DEF IsTaken, IsAdmitted, Holds
<1>4. TypeOK'
  BY DEF LoginInv, TypeOK, RelayMoves
<1>5. LinkInv'
  <2>1. \A t \in live' : issue'[t].step # "none"
    BY DEF LoginInv, LinkInv
  <2>2. ASSUME NEW y \in Tabs
        PROVE  /\ TokenOf(y)' = NoToken <=> exchange'[y].step \in {"none", "form"}
               /\ TokenOf(y)' # NoToken => issue'[TokenOf(y)'].step = "sent"
               /\ pending'[y] # {} => exchange'[y].step \in {"none", "form"}
    BY <1>1 DEF LoginInv, LinkInv
  <2>3. ASSUME NEW y \in Tabs
        PROVE  /\ exchange'[y].status # 0 => exchange'[y].step = "answered"
               /\ exchange'[y].said = "ok" => IsAdmitted(y)'
    <3>1. CASE y = x
      <4>1. exchange[x].said # "ok"
        BY DEF LoginInv, LinkInv, IsAdmitted
      <4> QED
        BY <1>1, <3>1, <4>1 DEF RelayMoves
    <3>2. CASE y # x
      BY <1>1, <1>3, <3>2 DEF LoginInv, LinkInv
    <3> QED
      BY <3>1, <3>2
  <2> QED
    BY <2>1, <2>2, <2>3 DEF LinkInv
<1>6. Holds(x)' => IsTaken(x) \/ (TokenOf(x) \in live \ live')
  BY DEF Holds, IsTaken, IsAdmitted, RelayMoves
<1>7. TakenInv'
  <2> SUFFICES ASSUME NEW y \in Tabs, NEW z \in Tabs, Holds(y)', TokenOf(y) = TokenOf(z)
               PROVE  TokenOf(y) \notin live' /\ (Holds(z)' => y = z)
    BY <1>1 DEF TakenInv
  <2>1. CASE y = x /\ TokenOf(x) \in live \ live'
    BY <1>3, <2>1 DEF LoginInv, TakenInv
  <2>2. CASE z = x /\ y # x /\ TokenOf(x) \in live \ live'
    BY <1>3, <2>2 DEF LoginInv, TakenInv
  <2>3. CASE TokenOf(x) \notin live \ live' \/ (y # x /\ z # x)
    <3>1. Holds(y) /\ (Holds(z)' => Holds(z))
      BY <1>3, <1>6, <2>3 DEF Holds
    <3> QED
      BY <3>1 DEF LoginInv, TakenInv
  <2> QED
    BY <2>1, <2>2, <2>3
<1>8. RecordInv'
  <2> SUFFICES ASSUME NEW y \in Tabs, KindOf(TokenOf(y)) = "player",
                      exchange'[y].step = "recorded" \/ IsAdmitted(y)'
               PROVE  OwnerOf(TokenOf(y)) \in players'
    BY <1>1, <1>2 DEF RecordInv
  <2>1. CASE y = x
    BY <2>1 DEF RelayMoves, IsAdmitted
  <2>2. CASE y # x
    BY <1>1, <1>3, <2>2 DEF LoginInv, RecordInv
  <2> QED
    BY <2>1, <2>2
<1>9. CookiesMatch'
  BY <1>1, <1>2 DEF LoginInv, CookiesMatch
<1>10. RefusedMeansGone'
  BY <1>1 DEF LoginInv, RefusedMeansGone, RelayMoves
<1> QED
  BY <1>4, <1>5, <1>7, <1>8, <1>9, <1>10 DEF LoginInv

LEMMA RelaySteps ==
    ASSUME LoginInv, NEW x \in Tabs,
           Relay(x) \/ GetDelFails(x) \/ RecordFails(x) \/ SignFails(x)
    PROVE  LoginInv'
<1>1. /\ TypeOK /\ TokenOf(x) \in Tokens \cup {NoToken} /\ players \subseteq Players
      /\ exchange[x].step \notin {"none", "form"} =>
            TokenOf(x) \in Tokens /\ OwnerOf(TokenOf(x)) \in Players
      /\ exchange[x].step # "answered" => exchange[x].status = 0
  BY DEF LoginInv, TypeOK, LinkInv, TokenOf, OwnerOf, Exchange, Issue
<1>2. CASE NoDatabase(x)
  <2>1. RelayMoves(x, "answered", 503)
    BY <1>1, <1>2, AnsweredMoves DEF NoDatabase
  <2> QED
    BY <1>1, <1>2, <2>1, RelayMove DEF NoDatabase, tokenVars
<1>3. CASE GetDel(x)
  <2>1. CASE TokenOf(x) \in live
    <3>1. RelayMoves(x, "taken", exchange[x].status)
      BY <1>1, <1>3, <2>1, StepMoves DEF GetDel
    <3> QED
      BY <1>1, <1>3, <2>1, <3>1, RelayMove DEF GetDel
  <2>2. CASE TokenOf(x) \notin live
    <3>1. RelayMoves(x, "answered", 401)
      BY <1>1, <1>3, <2>2, AnsweredMoves DEF GetDel
    <3> QED
      BY <1>1, <1>3, <2>2, <3>1, RelayMove DEF GetDel
  <2> QED
    BY <2>1, <2>2
<1>4. CASE GetDelFails(x)
  <2>1. RelayMoves(x, "answered", 500)
    BY <1>1, <1>4, AnsweredMoves DEF GetDelFails
  <2> QED
    BY <1>1, <1>4, <2>1, RelayMove DEF GetDelFails
<1>5. CASE RecordPlayer(x)
  <2>1. RelayMoves(x, "recorded", exchange[x].status)
    BY <1>1, <1>5, StepMoves DEF RecordPlayer
  <2> QED
    BY <1>1, <1>5, <2>1, RelayMove DEF RecordPlayer, IsTaken, tokenVars
<1>6. CASE RecordFails(x)
  <2>1. RelayMoves(x, "answered", 500)
    BY <1>1, <1>6, AnsweredMoves DEF RecordFails
  <2> QED
    BY <1>1, <1>6, <2>1, RelayMove DEF RecordFails, tokenVars
<1>7. CASE Admit(x)
  <2>1. RelayMoves(x, "answered", 200)
    BY <1>1, <1>7, AnsweredMoves DEF Admit
  <2>2. IsTaken(x)
    BY <1>7 DEF Admit, MaySign, IsTaken
  <2>3. KindOf(TokenOf(x)) = "player" => OwnerOf(TokenOf(x)) \in players
    BY <1>7 DEF Admit, MaySign, LoginInv, RecordInv
  <2> QED
    BY <1>1, <1>7, <2>1, <2>2, <2>3, RelayMove DEF Admit, IsTaken, tokenVars
<1>8. CASE SignFails(x)
  <2>1. RelayMoves(x, "answered", 500)
    BY <1>1, <1>8, AnsweredMoves DEF SignFails
  <2>2. IsTaken(x)
    BY <1>8 DEF SignFails, MaySign, IsTaken
  <2> QED
    BY <1>1, <1>8, <2>1, <2>2, RelayMove DEF SignFails, IsTaken, tokenVars
<1> QED
  BY <1>2, <1>3, <1>4, <1>5, <1>6, <1>7, <1>8 DEF Relay

-----------------------------------------------------------------------------
(* Tokens: issuing one concerns no request, as its link is not sent yet.   *)

LEMMA TokenMove ==
    ASSUME LoginInv, NEW t \in Tokens, issue' \in [Tokens -> Issue],
           \A u \in Tokens \ {t} : issue'[u] = issue[u],
           \/ issue[t].step = "none" /\ issue'[t].step # "none"
              /\ live \subseteq live' /\ live' \subseteq live \cup {t}
           \/ issue[t].step = "written" /\ issue'[t].step = "sent" /\ live' = live
           \/ issue' = issue /\ live' \subseteq live,
           UNCHANGED <<exchange, players, cookie, tab, pending>>
    PROVE  LoginInv'
<1>1. \A x \in Tabs :
        /\ TokenOf(x)' = TokenOf(x) /\ IsTaken(x)' = IsTaken(x)
        /\ IsAdmitted(x)' = IsAdmitted(x) /\ Holds(x)' = Holds(x)
  BY DEF TokenOf, IsTaken, IsAdmitted, Holds
<1>2. \A x \in Tabs : TokenOf(x) # NoToken =>
        /\ TokenOf(x) \in Tokens /\ issue'[TokenOf(x)] = issue[TokenOf(x)]
        /\ (TokenOf(x) \notin live => TokenOf(x) \notin live')
  BY DEF LoginInv, LinkInv, TypeOK, Exchange, TokenOf
<1>3. \A x \in Tabs : TokenOf(x) # NoToken =>
        /\ KindOf(TokenOf(x))' = KindOf(TokenOf(x))
        /\ OwnerOf(TokenOf(x))' = OwnerOf(TokenOf(x))
  BY <1>1, <1>2 DEF KindOf, OwnerOf
<1>4. TypeOK'
  BY DEF LoginInv, TypeOK
<1>5. LinkInv'
  <2>1. \A u \in live' : issue'[u].step # "none"
    BY DEF LoginInv, LinkInv, TypeOK
  <2> QED
    BY <1>1, <1>2, <2>1 DEF LoginInv, LinkInv
<1>6. \A x \in Tabs :
        (exchange[x].step \in {"taken", "recorded", "answered"} \/ exchange[x].status # 0
           \/ exchange[x].said = "ok" \/ Holds(x)) => TokenOf(x) # NoToken
  BY DEF LoginInv, LinkInv, Holds, IsTaken, IsAdmitted
<1>7. TakenInv'
  BY <1>1, <1>2, <1>6 DEF LoginInv, TakenInv
<1>8. RecordInv'
  <2>1. \A x \in Tabs : IsAdmitted(x) => exchange[x].step = "answered"
    BY DEF IsAdmitted
  <2> QED
    BY <1>1, <1>3, <1>6, <2>1 DEF LoginInv, RecordInv
<1>9. CookiesMatch'
  BY <1>1, <1>3, <1>6 DEF LoginInv, CookiesMatch
<1>10. RefusedMeansGone'
  BY <1>1, <1>2, <1>6 DEF LoginInv, RefusedMeansGone
<1> QED
  BY <1>4, <1>5, <1>7, <1>8, <1>9, <1>10 DEF LoginInv

LEMMA TokenSteps ==
    ASSUME LoginInv, NEW t \in Tokens,
           \/ \E p \in Players, kind \in {"lite", "player", "admin"} : WriteToken(t, kind, p)
           \/ \E p \in Players : IssueTicket(t, p)
           \/ SendLink(t) \/ WriteFails(t) \/ TokenExpires(t)
    PROVE  LoginInv'
<1>1. issue \in [Tokens -> Issue] /\ issue[t] \in Issue
  BY DEF LoginInv, TypeOK
<1>2. ASSUME NEW p \in Players, NEW kind \in {"lite", "ticket", "player", "admin"},
             Written(t, kind, p)
      PROVE  LoginInv'
  <2>1. /\ issue' \in [Tokens -> Issue] /\ issue'[t].step = "written"
        /\ \A u \in Tokens \ {t} : issue'[u] = issue[u]
    BY <1>1, <1>2 DEF Written, Issue
  <2> QED
    BY <1>2, <2>1, TokenMove DEF Written
<1>3. CASE SendLink(t)
  <2>1. /\ issue' \in [Tokens -> Issue] /\ issue'[t].step = "sent"
        /\ \A u \in Tokens \ {t} : issue'[u] = issue[u]
    BY <1>1, <1>3 DEF SendLink, Issue
  <2> QED
    BY <1>3, <2>1, TokenMove DEF SendLink
<1>4. CASE WriteFails(t)
  <2>1. /\ issue' \in [Tokens -> Issue] /\ issue'[t].step = "failed"
        /\ \A u \in Tokens \ {t} : issue'[u] = issue[u]
    BY <1>1, <1>4 DEF WriteFails, Issue
  <2>2. live \subseteq live' /\ live' \subseteq live \cup {t}
    BY <1>4 DEF WriteFails
  <2> QED
    BY <1>4, <2>1, <2>2, TokenMove DEF WriteFails
<1>5. CASE TokenExpires(t)
  BY <1>1, <1>5, TokenMove DEF TokenExpires
<1> QED
  BY <1>2, <1>3, <1>4, <1>5 DEF WriteToken, IssueTicket

-----------------------------------------------------------------------------
(* The browser.                                                            *)

\* Steps that exchange nothing: a cookie stays, expires or goes.
LEMMA BrowserMove ==
    ASSUME LoginInv, UNCHANGED <<issue, live, exchange, players>>,
           tab' \in [Tabs -> Tab], pending' \in [Tabs -> SUBSET Form],
           cookie' \in [{"admin", "player"} -> Jwt \cup {NoJwt}],
           \A x \in Tabs :
               pending'[x] \subseteq pending[x] \/ exchange[x].step \in {"none", "form"},
           \A k \in {"admin", "player"} :
               \/ cookie'[k] \in {cookie[k], NoJwt}
               \/ /\ cookie[k] # NoJwt
                  /\ cookie'[k].sub = cookie[k].sub /\ cookie'[k].role = cookie[k].role
    PROVE  LoginInv'
<1>1. TypeOK'
  BY DEF LoginInv, TypeOK
<1>2. /\ \A x \in Tabs : TokenOf(x)' = TokenOf(x) /\ IsAdmitted(x)' = IsAdmitted(x)
                         /\ IsTaken(x)' = IsTaken(x)
      /\ \A t : KindOf(t)' = KindOf(t) /\ OwnerOf(t)' = OwnerOf(t)
  BY DEF TokenOf, IsAdmitted, IsTaken, KindOf, OwnerOf
<1>3. LinkInv'
  BY <1>2 DEF LoginInv, LinkInv
<1>4. TakenInv' /\ RecordInv' /\ RefusedMeansGone'
  BY <1>2 DEF LoginInv, TakenInv, RecordInv, RefusedMeansGone, Holds
<1>5. CookiesMatch'
  <2>1. cookie'.player # NoJwt =>
          cookie.player # NoJwt /\ cookie'.player.sub = cookie.player.sub
            /\ cookie'.player.role = cookie.player.role
    OBVIOUS
  <2>2. cookie'.admin # NoJwt =>
          cookie.admin # NoJwt /\ cookie'.admin.sub = cookie.admin.sub
            /\ cookie'.admin.role = cookie.admin.role
    OBVIOUS
  <2> QED
    BY <1>2, <2>1, <2>2 DEF LoginInv, CookiesMatch
<1> QED
  BY <1>1, <1>3, <1>4, <1>5 DEF LoginInv

LEMMA LoadType ==
    ASSUME TypeOK, NEW x \in Tabs, NEW path \in Path, NEW sought \in Path \cup {"nothing"}
    PROVE  Load(x, path, sought) \in [Tabs -> Tab]
BY DEF TypeOK, Load, Tab

LEMMA RedirectType ==
    ASSUME NEW path \in Path
    PROVE  Redirect(path) \in Path
BY DEF Redirect, Path

LEMMA BrowserSteps ==
    ASSUME LoginInv, NEW x \in Tabs,
           \/ \E f \in Form : Submit(x, f) \/ LoginFails(x, f)
           \/ \E path \in Asked : Visit(x, path)
           \/ Logout(x) \/ Follow(x) \/ LayoutRejects(x)
    PROVE  LoginInv'
<1>1. /\ TypeOK /\ tab \in [Tabs -> Tab] /\ tab[x] \in Tab
      /\ pending \in [Tabs -> SUBSET Form]
      /\ cookie \in [{"admin", "player"} -> Jwt \cup {NoJwt}]
      /\ Asked \subseteq Path /\ "/login" \in Path /\ "/auth/player-login" \in Path
  BY AskedAssumption DEF LoginInv, TypeOK, Path
<1>2. CASE \E f \in Form : Submit(x, f) \/ LoginFails(x, f)
  BY <1>1, <1>2, BrowserMove DEF Submit, LoginFails, tokenVars
<1>3. CASE \E path \in Asked : Visit(x, path)
  <2>1. tab' \in [Tabs -> Tab]
    BY <1>1, <1>3, LoadType DEF Visit
  <2> QED
    BY <1>1, <1>3, <2>1, BrowserMove DEF Visit, tokenVars
<1>4. CASE Logout(x)
  <2>1. tab' \in [Tabs -> Tab]
    BY <1>1, <1>4, LoadType DEF Logout
  <2>2. /\ cookie' \in [{"admin", "player"} -> Jwt \cup {NoJwt}]
        /\ \A k \in {"admin", "player"} : cookie'[k] \in {cookie[k], NoJwt}
    BY <1>1, <1>4 DEF Logout
  <2> QED
    BY <1>1, <1>4, <2>1, <2>2, BrowserMove DEF Logout, tokenVars
<1>5. CASE Follow(x)
  <2> DEFINE target == Redirect(tab[x].loads)
  <2>1. tab[x].loads \in Path
    BY <1>1, <1>5 DEF Follow, Tab
  <2>2. target \in Path
    BY <2>1, RedirectType
  <2>3. tab' = [tab EXCEPT ![x] =
             IF target = tab[x].loads
             THEN [shows |-> tab[x].loads, loads |-> "nothing", sought |-> "nothing"]
             ELSE [tab[x] EXCEPT !.loads = target]]
    BY <1>1, <1>5 DEF Follow
  <2> HIDE DEF target
  <2>4. tab' \in [Tabs -> Tab]
    BY <1>1, <2>1, <2>2, <2>3 DEF Tab
  <2> QED
    BY <1>1, <1>5, <2>4, BrowserMove DEF Follow, tokenVars
<1>6. CASE LayoutRejects(x)
  <2>1. tab' \in [Tabs -> Tab]
    BY <1>1, <1>6 DEF LayoutRejects, Tab
  <2>2. cookie.player \in Jwt /\ cookie.player # NoJwt
    BY <1>1, <1>6 DEF LayoutRejects, PlayerAuthed
  <2>3. /\ cookie' \in [{"admin", "player"} -> Jwt \cup {NoJwt}]
        /\ cookie'["admin"] = cookie["admin"]
        /\ cookie'["player"].sub = cookie["player"].sub
        /\ cookie'["player"].role = cookie["player"].role
    BY <1>1, <1>6, <2>2 DEF LayoutRejects, Jwt
  <2> QED
    BY <1>1, <1>6, <2>1, <2>2, <2>3, BrowserMove DEF LayoutRejects, tokenVars
<1> QED
  BY <1>2, <1>3, <1>4, <1>5, <1>6

LEMMA CookieSteps ==
    ASSUME LoginInv, NEW k \in {"admin", "player"}, JwtExpires(k) \/ CookieExpires(k)
    PROVE  LoginInv'
<1>1. /\ tab \in [Tabs -> Tab] /\ pending \in [Tabs -> SUBSET Form]
      /\ cookie \in [{"admin", "player"} -> Jwt \cup {NoJwt}]
  BY DEF LoginInv, TypeOK
<1>2. CASE JwtExpires(k)
  <2>1. /\ cookie' \in [{"admin", "player"} -> Jwt \cup {NoJwt}] /\ cookie[k] # NoJwt
        /\ cookie'[k].sub = cookie[k].sub /\ cookie'[k].role = cookie[k].role
        /\ \A j \in {"admin", "player"} \ {k} : cookie'[j] = cookie[j]
    BY <1>1, <1>2 DEF JwtExpires, Jwt
  <2> QED
    BY <1>1, <1>2, <2>1, BrowserMove DEF JwtExpires, tokenVars
<1>3. CASE CookieExpires(k)
  <2>1. /\ cookie' \in [{"admin", "player"} -> Jwt \cup {NoJwt}]
        /\ \A j \in {"admin", "player"} : cookie'[j] \in {cookie[j], NoJwt}
    BY <1>1, <1>3 DEF CookieExpires
  <2> QED
    BY <1>1, <1>3, <2>1, BrowserMove DEF CookieExpires, tokenVars
<1> QED
  BY <1>2, <1>3

\* A link is opened: its token was sent, and no form of the tab is pending.
LEMMA OpenStep ==
    ASSUME LoginInv, NEW x \in Tabs, NEW t \in Tokens, OpenLink(x, t)
    PROVE  LoginInv'
<1>1. /\ exchange \in [Tabs -> Exchange] /\ exchange[x] \in Exchange
      /\ TokenOf(x) = NoToken /\ t # NoToken /\ pending[x] = {}
      /\ exchange[x].status = 0 /\ exchange[x].said # "ok"
  BY NoTokenAssumption
     DEF LoginInv, TypeOK, LinkInv, OpenLink, IsBusy, IsAdmitted, TokenOf
<1>2. /\ exchange' \in [Tabs -> Exchange]
      /\ exchange'[x].token = t /\ exchange'[x].step = "asked"
      /\ exchange'[x].status = 0 /\ exchange'[x].said = exchange[x].said
      /\ \A y \in Tabs \ {x} : exchange'[y] = exchange[y]
  BY <1>1 DEF OpenLink, Exchange
<1>3. UNCHANGED <<issue, live, players, cookie, tab, pending>> /\ issue[t].step = "sent"
  BY DEF OpenLink, tokenVars
<1>4. /\ \A y \in Tabs \ {x} :
           /\ TokenOf(y)' = TokenOf(y) /\ IsAdmitted(y)' = IsAdmitted(y)
           /\ IsTaken(y)' = IsTaken(y) /\ Holds(y)' = Holds(y)
      /\ \A u : KindOf(u)' = KindOf(u) /\ OwnerOf(u)' = OwnerOf(u)
      /\ ~Holds(x) /\ ~Holds(x)' /\ ~IsAdmitted(x)' /\ TokenOf(x)' = t
  <2>1. \A y \in Tabs \ {x} :
           /\ TokenOf(y)' = TokenOf(y) /\ IsAdmitted(y)' = IsAdmitted(y)
           /\ IsTaken(y)' = IsTaken(y) /\ Holds(y)' = Holds(y)
    BY <1>2 DEF TokenOf, IsAdmitted, IsTaken, Holds
  <2>2. \A u : KindOf(u)' = KindOf(u) /\ OwnerOf(u)' = OwnerOf(u)
    BY <1>3 DEF KindOf, OwnerOf
  <2>3. ~Holds(x) /\ ~Holds(x)' /\ ~IsAdmitted(x)' /\ TokenOf(x)' = t
    BY <1>1, <1>2 DEF OpenLink, Holds, IsTaken, IsAdmitted, TokenOf
  <2> QED
    BY <2>1, <2>2, <2>3
<1>5. TypeOK'
  BY <1>2, <1>3 DEF LoginInv, TypeOK
<1>6. LinkInv'
  <2>1. \A u \in live' : issue'[u].step # "none"
    BY <1>3 DEF LoginInv, LinkInv
  <2>2. ASSUME NEW y \in Tabs
        PROVE  /\ TokenOf(y)' = NoToken <=> exchange'[y].step \in {"none", "form"}
               /\ TokenOf(y)' # NoToken => issue'[TokenOf(y)'].step = "sent"
               /\ exchange'[y].status # 0 => exchange'[y].step = "answered"
               /\ exchange'[y].said = "ok" => IsAdmitted(y)'
               /\ pending'[y] # {} => exchange'[y].step \in {"none", "form"}
    <3>1. CASE y = x
      BY <1>1, <1>2, <1>3, <1>4, <3>1
    <3>2. CASE y # x
      BY <1>2, <1>3, <1>4, <3>2 DEF LoginInv, LinkInv
    <3> QED
      BY <3>1, <3>2
  <2> QED
    BY <2>1, <2>2 DEF LinkInv
<1>7. TakenInv'
  <2> SUFFICES ASSUME NEW y \in Tabs, NEW z \in Tabs, Holds(y)', TokenOf(y)' = TokenOf(z)'
               PROVE  TokenOf(y)' \notin live' /\ (Holds(z)' => y = z)
    BY DEF TakenInv
  <2>1. y # x /\ Holds(y) /\ TokenOf(y)' = TokenOf(y)
    BY <1>4
  <2> QED
    BY <1>3, <1>4, <2>1 DEF LoginInv, TakenInv
<1>8. RecordInv'
  <2>1. exchange'[x].step # "recorded" /\ ~IsAdmitted(x)'
    BY <1>2, <1>4
  <2> QED
    BY <1>2, <1>3, <1>4, <2>1 DEF LoginInv, RecordInv
<1>9. CookiesMatch'
  <2>1. \A y \in Tabs : y # x \/ (exchange[y].said # "ok" /\ exchange[y].step # "form")
    BY <1>1 DEF OpenLink
  <2> QED
    BY <1>2, <1>3, <1>4, <2>1 DEF LoginInv, CookiesMatch
<1>10. RefusedMeansGone'
  BY <1>2, <1>3, <1>4 DEF LoginInv, RefusedMeansGone
<1> QED
  BY <1>5, <1>6, <1>7, <1>8, <1>9, <1>10 DEF LoginInv

\* What became of a link is said: an accepted one may set a cookie.
LEMMA SaidMove ==
    ASSUME LoginInv, NEW x \in Tabs,
           NEW reason \in {"ok", "invalid-token", "no-database", "relay-unreachable"},
           exchange[x].said = "nothing",
           exchange' = [exchange EXCEPT ![x].said = reason],
           reason = "ok" => IsAdmitted(x),
           UNCHANGED <<issue, live, players, pending>>, tab' \in [Tabs -> Tab],
           \/ UNCHANGED cookie
           \/ /\ reason = "ok" /\ IsPortalLink(TokenOf(x))
              /\ cookie' = [cookie EXCEPT ![CookieOf(TokenOf(x))] = JwtFor(TokenOf(x))]
    PROVE  LoginInv'
<1> DEFINE t == TokenOf(x)
<1>1. /\ exchange \in [Tabs -> Exchange]
      /\ cookie \in [{"admin", "player"} -> Jwt \cup {NoJwt}]
  BY DEF LoginInv, TypeOK
<1>2. /\ exchange' \in [Tabs -> Exchange] /\ exchange'[x].said = reason
      /\ \A y \in Tabs :
           /\ exchange'[y].token = exchange[y].token /\ exchange'[y].step = exchange[y].step
           /\ exchange'[y].status = exchange[y].status
           /\ y # x => exchange'[y].said = exchange[y].said
  BY <1>1 DEF Exchange
<1>3. /\ \A y \in Tabs :
           /\ TokenOf(y)' = TokenOf(y) /\ IsAdmitted(y)' = IsAdmitted(y)
           /\ IsTaken(y)' = IsTaken(y)
           /\ exchange[y].said = "ok" => exchange'[y].said = "ok"
      /\ \A u : KindOf(u)' = KindOf(u) /\ OwnerOf(u)' = OwnerOf(u)
  <2>1. \A y \in Tabs :
           /\ TokenOf(y)' = TokenOf(y) /\ IsAdmitted(y)' = IsAdmitted(y)
           /\ IsTaken(y)' = IsTaken(y)
    BY <1>2 DEF TokenOf, IsAdmitted, IsTaken
  <2>2. \A y \in Tabs : exchange[y].said = "ok" => exchange'[y].said = "ok"
    BY <1>2
  <2>3. \A u : KindOf(u)' = KindOf(u) /\ OwnerOf(u)' = OwnerOf(u)
    BY DEF KindOf, OwnerOf
  <2> QED
    BY <2>1, <2>2, <2>3
<1>4. IsAdmitted(x) => t \in Tokens /\ OwnerOf(t) \in Players
  BY DEF LoginInv, TypeOK, LinkInv, IsAdmitted, TokenOf, OwnerOf, Exchange, Issue
<1>5. IsAdmitted(x) => JwtFor(t) \in Jwt
  BY <1>4 DEF JwtFor, Jwt
<1>6. cookie' \in [{"admin", "player"} -> Jwt \cup {NoJwt}]
  BY <1>1, <1>5 DEF CookieOf
<1>7. TypeOK'
  BY <1>2, <1>6 DEF LoginInv, TypeOK
<1>8. LinkInv'
  BY <1>2, <1>3 DEF LoginInv, LinkInv
<1>9. TakenInv' /\ RecordInv' /\ RefusedMeansGone'
  BY <1>2, <1>3 DEF LoginInv, TakenInv, RecordInv, RefusedMeansGone, Holds
<1>10. CookiesMatch'
  <2>1. CASE UNCHANGED cookie
    BY <1>2, <1>3, <2>1 DEF LoginInv, CookiesMatch
  <2>2. CASE /\ reason = "ok" /\ IsPortalLink(t)
             /\ cookie' = [cookie EXCEPT ![CookieOf(t)] = JwtFor(t)]
    <3>1. CASE KindOf(t) = "admin"
      <4>1. cookie'["admin"] = JwtFor(t) /\ cookie'["player"] = cookie["player"]
        BY <1>1, <2>2, <3>1 DEF CookieOf
      <4>2. JwtFor(t).role = "admin" /\ JwtFor(t).sub = OwnerOf(t)
        BY <3>1 DEF JwtFor
      <4>3. exchange'[x].said = "ok" /\ KindOf(TokenOf(x))' = "admin"
            /\ OwnerOf(TokenOf(x))' = OwnerOf(t)
        BY <1>2, <1>3, <2>2, <3>1
      <4> QED
        BY <1>2, <1>3, <4>1, <4>2, <4>3 DEF LoginInv, CookiesMatch
    <3>2. CASE KindOf(t) = "player"
      <4>1. cookie'["player"] = JwtFor(t) /\ cookie'["admin"] = cookie["admin"]
        BY <1>1, <2>2, <3>2 DEF CookieOf
      <4>2. JwtFor(t).role = "none" /\ JwtFor(t).sub = OwnerOf(t)
        BY <3>2 DEF JwtFor
      <4>3. exchange'[x].said = "ok" /\ KindOf(TokenOf(x))' = "player"
            /\ OwnerOf(TokenOf(x))' = OwnerOf(t)
        BY <1>2, <1>3, <2>2, <3>2
      <4>4. OwnerOf(t) \in players
        BY <2>2, <3>2 DEF LoginInv, RecordInv
      <4> QED
        BY <1>2, <1>3, <4>1, <4>2, <4>3, <4>4 DEF LoginInv, CookiesMatch
    <3> QED
      BY <2>2, <3>1, <3>2 DEF IsPortalLink
  <2> QED
    BY <2>1, <2>2
<1> QED
  BY <1>7, <1>8, <1>9, <1>10 DEF LoginInv

LEMMA SaidSteps ==
    ASSUME LoginInv, NEW x \in Tabs,
           LinkAccepted(x) \/ LinkRefused(x) \/ RelayUnreachable(x)
    PROVE  LoginInv'
<1>1. TypeOK /\ tab \in [Tabs -> Tab]
  BY DEF LoginInv, TypeOK
<1>2. CASE LinkAccepted(x)
  <2>1. tab' \in [Tabs -> Tab]
    <3>1. HomeOf(TokenOf(x)) \in Path
      BY DEF HomeOf, Path
    <3> QED
      BY <1>1, <1>2, <3>1, LoadType DEF LinkAccepted
  <2> QED
    BY <1>2, <2>1, SaidMove DEF LinkAccepted, IsAdmitted, tokenVars
<1>3. ASSUME NEW reason \in {"invalid-token", "no-database", "relay-unreachable"},
             Refused(x, reason)
      PROVE  LoginInv'
  <2>1. tab' \in [Tabs -> Tab]
    <3>1. "/auth/error" \in Path
      BY DEF Path
    <3> QED
      BY <1>1, <1>3, <3>1, LoadType DEF Refused
  <2> QED
    BY <1>3, <2>1, SaidMove DEF Refused, tokenVars
<1> QED
  BY <1>2, <1>3 DEF LinkRefused, RelayUnreachable

\* The form signs in: its tab has no token.
LEMMA FormStep ==
    ASSUME LoginInv, NEW x \in Tabs, NEW f \in Form, LoginSucceeds(x, f)
    PROVE  LoginInv'
<1>1. /\ exchange \in [Tabs -> Exchange] /\ exchange[x] \in Exchange
      /\ pending \in [Tabs -> SUBSET Form]
      /\ cookie \in [{"admin", "player"} -> Jwt \cup {NoJwt}]
  BY DEF LoginInv, TypeOK
<1>2. /\ exchange[x].step \in {"none", "form"} /\ TokenOf(x) = NoToken
      /\ exchange[x].status = 0 /\ exchange[x].said # "ok"
  BY DEF LoginInv, LinkInv, LoginSucceeds, IsAdmitted
<1>3. /\ exchange' \in [Tabs -> Exchange] /\ exchange'[x].step = "form"
      /\ \A y \in Tabs :
           /\ exchange'[y].token = exchange[y].token /\ exchange'[y].said = exchange[y].said
           /\ exchange'[y].status = exchange[y].status
           /\ y # x => exchange'[y].step = exchange[y].step
  BY <1>1 DEF LoginSucceeds, Exchange
<1>4. UNCHANGED <<issue, live, players>>
  BY DEF LoginSucceeds, tokenVars
<1>5. /\ \A y \in Tabs :
           /\ TokenOf(y)' = TokenOf(y) /\ IsAdmitted(y)' = IsAdmitted(y)
           /\ IsTaken(y)' = IsTaken(y)
           /\ exchange[y].step = "form" => exchange'[y].step = "form"
      /\ \A u : KindOf(u)' = KindOf(u) /\ OwnerOf(u)' = OwnerOf(u)
  <2>1. \A y \in Tabs : TokenOf(y)' = TokenOf(y)
    BY <1>3 DEF TokenOf
  <2>2. \A y \in Tabs : IsAdmitted(y)' = IsAdmitted(y) /\ IsTaken(y)' = IsTaken(y)
    BY <1>2, <1>3 DEF IsAdmitted, IsTaken
  <2>3. \A y \in Tabs : exchange[y].step = "form" => exchange'[y].step = "form"
    BY <1>3
  <2>4. \A u : KindOf(u)' = KindOf(u) /\ OwnerOf(u)' = OwnerOf(u)
    BY <1>4 DEF KindOf, OwnerOf
  <2> QED
    BY <2>1, <2>2, <2>3, <2>4
<1>6. /\ tab' \in [Tabs -> Tab]
      /\ pending' \in [Tabs -> SUBSET Form] /\ \A y \in Tabs : pending'[y] \subseteq pending[y]
  <2>1. "/dashboard" \in Path
    BY DEF Path
  <2>2. tab' \in [Tabs -> Tab]
    BY <2>1, LoadType DEF LoginSucceeds, LoginInv
  <2> QED
    BY <1>1, <2>2 DEF LoginSucceeds
<1>7. /\ cookie' \in [{"admin", "player"} -> Jwt \cup {NoJwt}]
      /\ cookie'["admin"].role = "admin" /\ cookie'["player"] = cookie["player"]
      /\ cookie'["admin"].sub \in {AdminUser, PortalAdmin}
  BY <1>1 DEF LoginSucceeds, Jwt
<1>8. TypeOK'
  BY <1>3, <1>4, <1>6, <1>7 DEF LoginInv, TypeOK
<1>9. LinkInv'
  <2>1. \A u \in live' : issue'[u].step # "none"
    BY <1>4 DEF LoginInv, LinkInv
  <2>2. ASSUME NEW y \in Tabs
        PROVE  /\ TokenOf(y)' = NoToken <=> exchange'[y].step \in {"none", "form"}
               /\ TokenOf(y)' # NoToken => issue'[TokenOf(y)'].step = "sent"
               /\ exchange'[y].status # 0 => exchange'[y].step = "answered"
               /\ exchange'[y].said = "ok" => IsAdmitted(y)'
               /\ pending'[y] # {} => exchange'[y].step \in {"none", "form"}
    <3>1. CASE y = x
      BY <1>2, <1>3, <1>5, <3>1
    <3>2. CASE y # x
      BY <1>3, <1>4, <1>5, <1>6, <3>2 DEF LoginInv, LinkInv
    <3> QED
      BY <3>1, <3>2
  <2> QED
    BY <2>1, <2>2 DEF LinkInv
<1>10. TakenInv' /\ RefusedMeansGone'
  BY <1>3, <1>4, <1>5 DEF LoginInv, TakenInv, RefusedMeansGone, Holds
<1>11. RecordInv'
  <2>1. \A y \in Tabs : exchange'[y].step = "recorded" => exchange[y].step = "recorded"
    BY <1>3
  <2> QED
    BY <1>4, <1>5, <2>1 DEF LoginInv, RecordInv
<1>12. CookiesMatch'
  BY <1>3, <1>4, <1>5, <1>7 DEF LoginInv, CookiesMatch
<1> QED
  BY <1>8, <1>9, <1>10, <1>11, <1>12 DEF LoginInv

-----------------------------------------------------------------------------
LEMMA NextLogin ==
    ASSUME LoginInv, [Next]_vars
    PROVE  LoginInv'
<1>1. CASE User
  BY <1>1, TokenSteps, OpenStep, BrowserSteps DEF User
<1>2. CASE Faults
  BY <1>2, TokenSteps, RelaySteps, SaidSteps, BrowserSteps, CookieSteps DEF Faults
<1>3. CASE \E x \in Tabs : Relay(x) \/ Answer(x) \/ Settle(x) \/ Follow(x)
  BY <1>3, RelaySteps, SaidSteps, FormStep, BrowserSteps DEF Answer, Settle
<1>4. CASE UNCHANGED vars
  BY <1>4, BrowserMove DEF vars, tokenVars, LoginInv, TypeOK
<1> QED
  BY <1>1, <1>2, <1>3, <1>4 DEF Next

\* In every behaviour, with every failure, the inductive invariant holds.
THEOREM LoginInvariant == Spec => []LoginInv
<1>1. Init => LoginInv
  BY InitLogin
<1>2. LoginInv /\ [Next]_vars => LoginInv'
  BY NextLogin
<1> QED
  BY <1>1, <1>2, PTL DEF Spec

\* Every variable of signing in keeps its type.
THEOREM LoginTypes == Spec => []TypeOK
<1>1. LoginInv => TypeOK
  BY DEF LoginInv
<1> QED
  BY <1>1, LoginInvariant, PTL

\* The cookies of the browser belong to a login that was accepted.
THEOREM CookiesAreEarned == Spec => []CookiesMatch
<1>1. LoginInv => CookiesMatch
  BY DEF LoginInv
<1> QED
  BY <1>1, LoginInvariant, PTL

\* A token that was refused with 401 is not there, and never will be.
THEOREM RefusedAreGone == Spec => []RefusedMeansGone
<1>1. LoginInv => RefusedMeansGone
  BY DEF LoginInv
<1> QED
  BY <1>1, LoginInvariant, PTL

-----------------------------------------------------------------------------
(* Redirects.                                                              *)

\* No cookie makes the proxy answer a redirect with another one: it never sends
\* a tab to and fro.
THEOREM RedirectsAgree == Spec => []OneRedirect
<1>1. OneRedirect
  <2> SUFFICES ASSUME NEW path \in Path
               PROVE  Redirect(Redirect(path)) = Redirect(path)
    BY DEF OneRedirect
  <2>1. CASE path = "/"
    BY <2>1 DEF Redirect
  <2>2. CASE path = "/dashboard"
    BY <2>2 DEF Redirect
  <2>3. CASE path = "/preferences"
    BY <2>3 DEF Redirect
  <2>4. CASE path = "/login"
    BY <2>4 DEF Redirect
  <2>5. CASE path = "/auth/player-login"
    BY <2>5 DEF Redirect
  <2>6. CASE path \in {"/media", "/auth/error"}
    BY <2>6 DEF Redirect
  <2> QED
    BY <2>1, <2>2, <2>3, <2>4, <2>5, <2>6 DEF Path
<1> QED
  BY <1>1, PTL

\* Between the redirect of a login and the page it ends on, a tab loads the home
\* page of that login or its login page.
SoughtInv ==
    \A x \in Tabs :
        \/ tab[x].sought = "nothing"
        \/ tab[x].sought = "/dashboard" /\ tab[x].loads \in {"/dashboard", "/login"}
        \/ tab[x].sought = "/preferences"
             /\ tab[x].loads \in {"/preferences", "/auth/player-login"}

\* A tab that loads something else than before was told so.
LEMMA LoadSought ==
    ASSUME tab \in [Tabs -> Tab], SoughtInv, NEW x \in Tabs,
           NEW path, NEW sought, tab' = Load(x, path, sought),
           sought = "nothing" \/ (sought = path /\ path \in {"/dashboard", "/preferences"})
    PROVE  /\ SoughtInv'
           /\ tab'[x].loads = path
           /\ \A y \in Tabs \ {x} : tab'[y] = tab[y]
<1> DEFINE half == [tab EXCEPT ![x].loads = path]
<1>1. tab[x] \in Tab
  OBVIOUS
<1>2. /\ half[x] = [tab[x] EXCEPT !.loads = path] /\ half[x].loads = path
      /\ \A y \in Tabs \ {x} : half[y] = tab[y]
  BY <1>1 DEF Tab
<1>3. tab' = [half EXCEPT ![x].sought = sought]
  BY DEF Load
<1>4. /\ tab'[x].loads = path /\ tab'[x].sought = sought
      /\ \A y \in Tabs \ {x} : tab'[y] = tab[y]
  BY <1>1, <1>2, <1>3 DEF Tab
<1> QED
  BY <1>4 DEF SoughtInv

\* Where a tab is led, and that only Follow settles it.
LEMMA SoughtStep ==
    ASSUME LoginInv, SoughtInv, [Next]_vars
    PROVE  /\ SoughtInv'
           /\ \A x \in Tabs :
                tab[x].loads # "nothing" /\ tab'[x].loads = "nothing" => Follow(x)
<1> DEFINE Kept == \A x \in Tabs :
                      tab[x].loads # "nothing" /\ tab'[x].loads = "nothing" => Follow(x)
<1>1. tab \in [Tabs -> Tab]
  BY DEF LoginInv, TypeOK
<1>2. ASSUME UNCHANGED tab
      PROVE  SoughtInv' /\ Kept
  BY <1>2 DEF SoughtInv
<1>3. ASSUME NEW x \in Tabs, NEW path \in Path, NEW sought, tab' = Load(x, path, sought),
             sought = "nothing" \/ (sought = path /\ path \in {"/dashboard", "/preferences"})
      PROVE  SoughtInv' /\ Kept
  <2>1. /\ SoughtInv' /\ tab'[x].loads = path
        /\ \A y \in Tabs \ {x} : tab'[y] = tab[y]
    BY <1>1, <1>3, LoadSought
  <2>2. path # "nothing"
    BY DEF Path
  <2> QED
    BY <2>1, <2>2
<1>4. ASSUME NEW x \in Tabs, NEW reason, Refused(x, reason)
      PROVE  SoughtInv' /\ Kept
  <2>1. "/auth/error" \in Path
    BY DEF Path
  <2> QED
    BY <1>2, <1>3, <1>4, <2>1 DEF Refused
<1>5. ASSUME NEW x \in Tabs, LinkAccepted(x)
      PROVE  SoughtInv' /\ Kept
  <2>1. HomeOf(TokenOf(x)) \in {"/dashboard", "/preferences"}
    BY DEF HomeOf
  <2>2. HomeOf(TokenOf(x)) \in Path
    BY <2>1 DEF Path
  <2> QED
    BY <1>2, <1>3, <1>5, <2>1, <2>2 DEF LinkAccepted
<1>6. ASSUME NEW x \in Tabs,
             \/ \E f \in Form : LoginSucceeds(x, f)
             \/ \E path \in Asked : Visit(x, path)
             \/ Logout(x)
      PROVE  SoughtInv' /\ Kept
  <2>1. Asked \subseteq Path /\ "/login" \in Path /\ "/dashboard" \in Path
    BY AskedAssumption DEF Path
  <2> QED
    BY <1>3, <1>6, <2>1 DEF LoginSucceeds, Visit, Logout
<1>7. ASSUME NEW x \in Tabs, LayoutRejects(x)
      PROVE  SoughtInv' /\ Kept
  <2>1. /\ tab[x].loads = "/preferences" /\ tab[x] \in Tab
        /\ tab' = [tab EXCEPT ![x] = [tab[x] EXCEPT !.loads = "/auth/player-login"]]
    BY <1>1, <1>7 DEF LayoutRejects
  <2>2. /\ tab'[x].loads = "/auth/player-login" /\ tab'[x].sought = tab[x].sought
        /\ \A y \in Tabs \ {x} : tab'[y] = tab[y]
    BY <1>1, <2>1 DEF Tab
  <2> QED
    BY <2>1, <2>2 DEF SoughtInv
<1>8. ASSUME NEW x \in Tabs, Follow(x)
      PROVE  SoughtInv' /\ Kept
  <2> DEFINE target == Redirect(tab[x].loads)
  <2>1. tab[x] \in Tab /\ tab[x].loads # "nothing"
    BY <1>1, <1>8 DEF Follow
  <2>2. tab' = [tab EXCEPT ![x] =
             IF target = tab[x].loads
             THEN [shows |-> tab[x].loads, loads |-> "nothing", sought |-> "nothing"]
             ELSE [tab[x] EXCEPT !.loads = target]]
    BY <1>8 DEF Follow
  <2>3. /\ tab[x].loads \in {"/dashboard", "/login"} => target \in {"/dashboard", "/login"}
        /\ tab[x].loads \in {"/preferences", "/auth/player-login"}
             => target \in {"/preferences", "/auth/player-login"}
    BY DEF Redirect
  <2> HIDE DEF target
  <2>4. \A y \in Tabs \ {x} : tab'[y] = tab[y]
    BY <1>1, <2>2
  <2>5. Kept
    BY <1>8, <2>4
  <2>6. CASE target = tab[x].loads
    <3>1. tab'[x].sought = "nothing"
      BY <1>1, <2>2, <2>6
    <3> QED
      BY <2>4, <2>5, <3>1 DEF SoughtInv
  <2>7. CASE target # tab[x].loads
    <3>1. tab'[x].loads = target /\ tab'[x].sought = tab[x].sought
      BY <1>1, <2>1, <2>2, <2>7 DEF Tab
    <3> QED
      BY <2>3, <2>4, <2>5, <3>1 DEF SoughtInv
  <2> QED
    BY <2>6, <2>7
<1>9. CASE User
  BY <1>2, <1>6, <1>9 DEF User, WriteToken, IssueTicket, Written, SendLink, OpenLink, Submit
<1>10. CASE Faults
  BY <1>2, <1>4, <1>7, <1>10 DEF Faults, WriteFails, TokenExpires, GetDelFails, RecordFails,
     SignFails, RelayUnreachable, JwtExpires, CookieExpires
<1>11. CASE \E x \in Tabs : Relay(x) \/ Answer(x) \/ Settle(x) \/ Follow(x)
  BY <1>2, <1>4, <1>5, <1>6, <1>8, <1>11 DEF Relay, NoDatabase, GetDel, RecordPlayer, Admit,
     Answer, LinkRefused, Settle, LoginFails
<1>12. CASE UNCHANGED vars
  BY <1>2, <1>12 DEF vars
<1> QED
  BY <1>9, <1>10, <1>11, <1>12 DEF Next

\* Where the proxy lets a tab settle that a login redirected.
LEMMA FollowLands ==
    ASSUME LoginInv, SoughtInv, NEW x \in Tabs, Follow(x), tab'[x].loads = "nothing",
           tab[x].sought # "nothing"
    PROVE  \/ tab'[x].shows = tab[x].sought
           \/ tab[x].sought = "/dashboard" /\ tab'[x].shows = "/login" /\ ~AdminAuthed
           \/ tab[x].sought = "/preferences" /\ tab'[x].shows = "/auth/player-login"
              /\ ~PlayerAuthed
<1> DEFINE target == Redirect(tab[x].loads)
<1>1. tab \in [Tabs -> Tab] /\ tab[x] \in Tab
  BY DEF LoginInv, TypeOK
<1>2. tab' = [tab EXCEPT ![x] =
             IF target = tab[x].loads
             THEN [shows |-> tab[x].loads, loads |-> "nothing", sought |-> "nothing"]
             ELSE [tab[x] EXCEPT !.loads = target]]
  BY DEF Follow
<1>3. \/ tab[x].sought = "/dashboard" /\ tab[x].loads \in {"/dashboard", "/login"}
      \/ tab[x].sought = "/preferences"
           /\ tab[x].loads \in {"/preferences", "/auth/player-login"}
  BY DEF SoughtInv
<1>4. /\ tab[x].loads = "/login" /\ target = tab[x].loads => ~AdminAuthed
      /\ tab[x].loads = "/auth/player-login" /\ target = tab[x].loads => ~PlayerAuthed
      /\ target # "nothing"
  BY <1>3 DEF Redirect
<1> HIDE DEF target
<1>5. target = tab[x].loads
  BY <1>1, <1>2, <1>4 DEF Tab
<1>6. tab'[x].shows = tab[x].loads
  BY <1>1, <1>2, <1>5
<1> QED
  BY <1>3, <1>4, <1>5, <1>6

\* A login leads to its home page, or to its login page when its cookie is gone
\* or stale by then: whatever other tabs and forms do to the cookies meanwhile.
THEOREM LoginLeadsHome == Spec => LoginLands
<1>1. Init => SoughtInv
  <2> SUFFICES ASSUME Init
               PROVE  SoughtInv
    OBVIOUS
  <2>1. \A x \in Tabs : tab[x].sought = "nothing"
    BY DEF Init
  <2> QED
    BY <2>1 DEF SoughtInv
<1>2. LoginInv /\ SoughtInv /\ [Next]_vars => SoughtInv'
  BY SoughtStep
<1>3. LoginInv /\ SoughtInv /\ [Next]_vars =>
        [\A x \in Tabs :
           tab[x].sought # "nothing" /\ tab[x].loads # "nothing" /\ tab'[x].loads = "nothing" =>
             \/ tab'[x].shows = tab[x].sought
             \/ tab[x].sought = "/dashboard" /\ tab'[x].shows = "/login" /\ ~AdminAuthed
             \/ tab[x].sought = "/preferences" /\ tab'[x].shows = "/auth/player-login"
                /\ ~PlayerAuthed]_vars
  BY SoughtStep, FollowLands
<1> QED
  BY <1>1, <1>2, <1>3, LoginInvariant, PTL DEF Spec, LoginLands

-----------------------------------------------------------------------------
(* PortalLogin implements OneTimeToken.                                    *)

StateMap == [t \in Tokens |-> TokenState(t)]
AdmittedMap == [t \in Tokens |-> Admitted(t)]

\* A step of one token, the others being as they were, is a step of the abstract
\* token or none.
LEMMA OneToken ==
    ASSUME NEW t \in Tokens,
           \A u \in Tokens \ {t} :
               TokenState(u)' = TokenState(u) /\ Admitted(u)' = Admitted(u),
           \/ TokenState(t)' = TokenState(t) /\ Admitted(t)' = Admitted(t)
           \/ /\ TokenState(t) = "unissued" /\ TokenState(t)' = "valid"
              /\ Admitted(t)' = Admitted(t)
           \/ /\ TokenState(t) \in {"unissued", "valid"} /\ TokenState(t)' = "void"
              /\ Admitted(t)' = Admitted(t)
           \/ /\ TokenState(t) = "valid" /\ TokenState(t)' = "spent"
              /\ \E x \in Tabs : Admitted(t)' = {x}
    PROVE  OTT!Next \/ UNCHANGED <<StateMap, AdmittedMap>>
<1>1. CASE TokenState(t)' = TokenState(t) /\ Admitted(t)' = Admitted(t)
  <2>1. StateMap' = StateMap /\ AdmittedMap' = AdmittedMap
    BY <1>1 DEF StateMap, AdmittedMap
  <2> QED
    BY <2>1
<1>2. CASE /\ TokenState(t) = "unissued" /\ TokenState(t)' = "valid"
           /\ Admitted(t)' = Admitted(t)
  <2>1. OTT!Issue(t)
    BY <1>2 DEF OTT!Issue
  <2> QED
    BY <2>1 DEF OTT!Next
<1>3. CASE /\ TokenState(t) \in {"unissued", "valid"} /\ TokenState(t)' = "void"
           /\ Admitted(t)' = Admitted(t)
  <2>1. OTT!Void(t)
    BY <1>3 DEF OTT!Void
  <2> QED
    BY <2>1 DEF OTT!Next
<1>4. CASE /\ TokenState(t) = "valid" /\ TokenState(t)' = "spent"
           /\ \E x \in Tabs : Admitted(t)' = {x}
  <2>1. PICK x \in Tabs : Admitted(t)' = {x}
    BY <1>4
  <2>2. OTT!Admit(t, x)
    BY <1>4, <2>1 DEF OTT!Admit
  <2> QED
    BY <2>2 DEF OTT!Next
<1> QED
  BY <1>1, <1>2, <1>3, <1>4

\* What the state of a token depends on.
LEMMA SameState ==
    ASSUME NEW u \in Tokens, issue'[u].step = "none" <=> issue[u].step = "none",
           u \in live' <=> u \in live,
           \A x \in Tabs :
               /\ (TokenOf(x)' = u /\ IsTaken(x)') <=> (TokenOf(x) = u /\ IsTaken(x))
               /\ (TokenOf(x)' = u /\ IsAdmitted(x)') <=> (TokenOf(x) = u /\ IsAdmitted(x))
    PROVE  TokenState(u)' = TokenState(u) /\ Admitted(u)' = Admitted(u)
<1>1. Admitted(u)' = Admitted(u) /\ (Taken(u)' <=> Taken(u))
  BY DEF Admitted, Taken
<1> QED
  BY <1>1 DEF TokenState

LEMMA SameStates ==
    ASSUME UNCHANGED live, \A u \in Tokens : issue'[u].step = "none" <=> issue[u].step = "none",
           \A x \in Tabs, u \in Tokens :
               /\ (TokenOf(x)' = u /\ IsTaken(x)') <=> (TokenOf(x) = u /\ IsTaken(x))
               /\ (TokenOf(x)' = u /\ IsAdmitted(x)') <=> (TokenOf(x) = u /\ IsAdmitted(x))
    PROVE  UNCHANGED <<StateMap, AdmittedMap>>
<1>1. \A u \in Tokens : TokenState(u)' = TokenState(u) /\ Admitted(u)' = Admitted(u)
  BY SameState
<1> QED
  BY <1>1 DEF StateMap, AdmittedMap

LEMMA RelayState ==
    ASSUME LoginInv, NEW x \in Tabs, NEW t, t = TokenOf(x), NEW s \in {"taken", "recorded", "answered"},
           NEW status, RelayMoves(x, s, status), UNCHANGED issue,
           exchange[x].step \in {"asked", "taken", "recorded"},
           live' \subseteq live, live \subseteq live' \cup {t},
           s = "taken" => exchange[x].step = "asked" /\ t \in live \ live',
           (s = "recorded" \/ (s = "answered" /\ status = 200)) => IsTaken(x)
    PROVE  OTT!Next \/ UNCHANGED <<StateMap, AdmittedMap>>
<1>1. t \in Tokens /\ issue[t].step = "sent" /\ issue'[t].step = "sent" /\ ~IsAdmitted(x)
  BY DEF LoginInv, TypeOK, LinkInv, TokenOf, Exchange, IsAdmitted
<1>2. /\ \A y \in Tabs : TokenOf(y)' = TokenOf(y)
      /\ \A y \in Tabs \ {x} : IsTaken(y)' = IsTaken(y) /\ IsAdmitted(y)' = IsAdmitted(y)
      /\ IsTaken(x)' <=> s \in {"taken", "recorded"}
      /\ IsAdmitted(x)' <=> (s = "answered" /\ status = 200)
  BY DEF RelayMoves, TokenOf, IsTaken, IsAdmitted
<1>3. \A u \in Tokens \ {t} : TokenState(u)' = TokenState(u) /\ Admitted(u)' = Admitted(u)
  <2> SUFFICES ASSUME NEW u \in Tokens \ {t}
               PROVE  TokenState(u)' = TokenState(u) /\ Admitted(u)' = Admitted(u)
    OBVIOUS
  <2>1. u \in live' <=> u \in live
    OBVIOUS
  <2>2. \A y \in Tabs :
           /\ (TokenOf(y)' = u /\ IsTaken(y)') <=> (TokenOf(y) = u /\ IsTaken(y))
           /\ (TokenOf(y)' = u /\ IsAdmitted(y)') <=> (TokenOf(y) = u /\ IsAdmitted(y))
    BY <1>2
  <2> QED
    BY <2>1, <2>2, SameState
<1>4. CASE s = "answered" /\ status = 200
  <2>1. Holds(x) /\ Taken(t)
    BY <1>4 DEF Holds, Taken, IsTaken
  <2>2. \A y \in Tabs \ {x} : TokenOf(y) = t => ~Holds(y)
    BY <2>1 DEF LoginInv, TakenInv
  <2>3. Admitted(t) = {} /\ Admitted(t)' = {x}
    <3>1. \A y \in Tabs \ {x} : TokenOf(y) = t => ~IsAdmitted(y)
      BY <2>2 DEF Holds
    <3> QED
      BY <1>1, <1>2, <1>4, <3>1 DEF Admitted
  <2>4. TokenState(t) = "valid" /\ TokenState(t)' = "spent"
    <3>1. TokenState(t) = "valid"
      BY <1>1, <2>1, <2>3 DEF TokenState
    <3>2. TokenState(t)' = "spent"
      BY <1>1, <2>3 DEF TokenState
    <3> QED
      BY <3>1, <3>2
  <2> QED
    BY <1>1, <1>3, <2>3, <2>4, OneToken
<1>5. CASE ~(s = "answered" /\ status = 200)
  <2>1. Admitted(t)' = Admitted(t)
    BY <1>1, <1>2, <1>5 DEF Admitted
  <2>2. (t \in live' \/ Taken(t)') => t \in live \/ Taken(t)
    BY <1>2 DEF Taken
  <2>3. CASE Admitted(t) # {}
    <3>1. TokenState(t) = "spent" /\ TokenState(t)' = "spent"
      BY <1>1, <2>1, <2>3 DEF TokenState
    <3> QED
      BY <1>1, <1>3, <2>1, <3>1, OneToken
  <2>4. CASE Admitted(t) = {}
    <3>1. TokenState(t) = IF t \in live \/ Taken(t) THEN "valid" ELSE "void"
      BY <1>1, <2>4 DEF TokenState
    <3>2. TokenState(t)' = IF t \in live' \/ Taken(t)' THEN "valid" ELSE "void"
      BY <1>1, <2>1, <2>4 DEF TokenState
    <3> QED
      BY <1>1, <1>3, <2>1, <2>2, <3>1, <3>2, OneToken
  <2> QED
    BY <2>3, <2>4
<1> QED
  BY <1>4, <1>5

LEMMA TokenStateMove ==
    ASSUME LoginInv, NEW t \in Tokens, UNCHANGED exchange,
           \A u \in Tokens \ {t} : issue'[u] = issue[u] /\ (u \in live' <=> u \in live),
           \/ issue[t].step = "none" /\ issue'[t].step # "none"
           \/ issue[t].step # "none" /\ issue'[t].step # "none" /\ live' \subseteq live
    PROVE  OTT!Next \/ UNCHANGED <<StateMap, AdmittedMap>>
<1>1. /\ \A x \in Tabs : TokenOf(x)' = TokenOf(x) /\ IsTaken(x)' = IsTaken(x)
                         /\ IsAdmitted(x)' = IsAdmitted(x)
      /\ Admitted(t)' = Admitted(t) /\ Taken(t)' = Taken(t)
  BY DEF TokenOf, IsTaken, IsAdmitted, Admitted, Taken
<1>2. \A u \in Tokens \ {t} : TokenState(u)' = TokenState(u) /\ Admitted(u)' = Admitted(u)
  BY <1>1, SameState
<1>3. CASE issue[t].step = "none" /\ issue'[t].step # "none"
  <2>1. \A x \in Tabs : TokenOf(x) # t
    BY <1>3, NoTokenAssumption DEF LoginInv, LinkInv
  <2>2. Admitted(t) = {}
    BY <2>1 DEF Admitted
  <2>3. TokenState(t) = "unissued" /\ TokenState(t)' \in {"valid", "void"}
    BY <1>1, <1>3, <2>2 DEF TokenState
  <2> QED
    BY <1>1, <1>2, <2>3, OneToken
<1>4. CASE issue[t].step # "none" /\ issue'[t].step # "none" /\ live' \subseteq live
  <2>1. \/ TokenState(t)' = TokenState(t)
        \/ TokenState(t) = "valid" /\ TokenState(t)' = "void"
    BY <1>1, <1>4 DEF TokenState
  <2> QED
    BY <1>1, <1>2, <2>1, OneToken
<1> QED
  BY <1>3, <1>4

LEMMA TokenStateSteps ==
    ASSUME LoginInv, NEW t \in Tokens,
           \/ \E p \in Players, kind \in {"lite", "player", "admin"} : WriteToken(t, kind, p)
           \/ \E p \in Players : IssueTicket(t, p)
           \/ SendLink(t) \/ WriteFails(t) \/ TokenExpires(t)
    PROVE  OTT!Next \/ UNCHANGED <<StateMap, AdmittedMap>>
<1>1. issue \in [Tokens -> Issue] /\ issue[t] \in Issue
  BY DEF LoginInv, TypeOK
<1>2. ASSUME NEW p \in Players, NEW kind \in {"lite", "ticket", "player", "admin"},
             Written(t, kind, p)
      PROVE  OTT!Next \/ UNCHANGED <<StateMap, AdmittedMap>>
  <2>1. /\ issue'[t].step = "written" /\ live' = live \cup {t}
        /\ \A u \in Tokens \ {t} : issue'[u] = issue[u]
    BY <1>1, <1>2 DEF Written
  <2> QED
    BY <1>2, <2>1, TokenStateMove DEF Written
<1>3. CASE SendLink(t)
  <2>1. issue'[t].step = "sent" /\ \A u \in Tokens \ {t} : issue'[u] = issue[u]
    BY <1>1, <1>3 DEF SendLink, Issue
  <2> QED
    BY <1>3, <2>1, TokenStateMove DEF SendLink
<1>4. CASE WriteFails(t)
  <2>1. issue'[t].step = "failed" /\ \A u \in Tokens \ {t} : issue'[u] = issue[u]
    BY <1>1, <1>4 DEF WriteFails, Issue
  <2> QED
    BY <1>4, <2>1, TokenStateMove DEF WriteFails
<1>5. CASE TokenExpires(t)
  <2>1. issue[t].step # "none" /\ issue' = issue /\ live' = live \ {t}
    BY <1>5 DEF TokenExpires, LoginInv, LinkInv
  <2> QED
    BY <1>5, <2>1, TokenStateMove DEF TokenExpires
<1> QED
  BY <1>2, <1>3, <1>4, <1>5 DEF WriteToken, IssueTicket

LEMMA RelayStateSteps ==
    ASSUME LoginInv, NEW x \in Tabs,
           Relay(x) \/ GetDelFails(x) \/ RecordFails(x) \/ SignFails(x)
    PROVE  OTT!Next \/ UNCHANGED <<StateMap, AdmittedMap>>
<1>1. TypeOK
  BY DEF LoginInv
<1>2. CASE NoDatabase(x)
  <2>1. RelayMoves(x, "answered", 503)
    BY <1>1, <1>2, AnsweredMoves DEF NoDatabase
  <2> QED
    BY <1>2, <2>1, RelayState DEF NoDatabase, tokenVars
<1>3. CASE GetDel(x)
  <2>1. CASE TokenOf(x) \in live
    <3>1. RelayMoves(x, "taken", exchange[x].status)
      BY <1>1, <1>3, <2>1, StepMoves DEF GetDel
    <3> QED
      BY <1>3, <2>1, <3>1, RelayState DEF GetDel
  <2>2. CASE TokenOf(x) \notin live
    <3>1. RelayMoves(x, "answered", 401)
      BY <1>1, <1>3, <2>2, AnsweredMoves DEF GetDel
    <3> QED
      BY <1>3, <2>2, <3>1, RelayState DEF GetDel
  <2> QED
    BY <2>1, <2>2
<1>4. CASE GetDelFails(x)
  <2>1. RelayMoves(x, "answered", 500)
    BY <1>1, <1>4, AnsweredMoves DEF GetDelFails
  <2> QED
    BY <1>4, <2>1, RelayState DEF GetDelFails
<1>5. CASE RecordPlayer(x)
  <2>1. RelayMoves(x, "recorded", exchange[x].status)
    BY <1>1, <1>5, StepMoves DEF RecordPlayer
  <2> QED
    BY <1>5, <2>1, RelayState DEF RecordPlayer, IsTaken, tokenVars
<1>6. CASE RecordFails(x)
  <2>1. RelayMoves(x, "answered", 500)
    BY <1>1, <1>6, AnsweredMoves DEF RecordFails
  <2> QED
    BY <1>6, <2>1, RelayState DEF RecordFails, tokenVars
<1>7. CASE Admit(x)
  <2>1. RelayMoves(x, "answered", 200)
    BY <1>1, <1>7, AnsweredMoves DEF Admit
  <2> QED
    BY <1>7, <2>1, RelayState DEF Admit, MaySign, IsTaken, tokenVars
<1>8. CASE SignFails(x)
  <2>1. RelayMoves(x, "answered", 500)
    BY <1>1, <1>8, AnsweredMoves DEF SignFails
  <2> QED
    BY <1>8, <2>1, RelayState DEF SignFails, MaySign, IsTaken, tokenVars
<1> QED
  BY <1>2, <1>3, <1>4, <1>5, <1>6, <1>7, <1>8 DEF Relay

LEMMA OpenMoves ==
    ASSUME exchange \in [Tabs -> Exchange], NEW x \in Tabs, NEW t \in Tokens, OpenLink(x, t)
    PROVE  /\ exchange[x].step = "none" /\ exchange'[x].step = "asked"
           /\ \A y \in Tabs \ {x} : exchange'[y] = exchange[y]
BY DEF OpenLink, Exchange

\* The browser changes no token: not even by opening its link.
LEMMA BrowserStateSteps ==
    ASSUME LoginInv, NEW x \in Tabs, UNCHANGED tokenVars,
           \/ \E t \in Tokens : OpenLink(x, t)
           \/ LinkAccepted(x) \/ \E reason : Refused(x, reason)
           \/ \E f \in Form : LoginSucceeds(x, f)
           \/ UNCHANGED exchange
    PROVE  UNCHANGED <<StateMap, AdmittedMap>>
<1>1. exchange \in [Tabs -> Exchange] /\ exchange[x] \in Exchange
  BY DEF LoginInv, TypeOK
<1>2. \A y \in Tabs, u \in Tokens :
        /\ (TokenOf(y)' = u /\ IsTaken(y)') <=> (TokenOf(y) = u /\ IsTaken(y))
        /\ (TokenOf(y)' = u /\ IsAdmitted(y)') <=> (TokenOf(y) = u /\ IsAdmitted(y))
  <2>1. ASSUME NEW t \in Tokens, OpenLink(x, t)
        PROVE  <1>2!:
    <3>1. /\ exchange[x].step = "none" /\ exchange'[x].step = "asked"
          /\ \A y \in Tabs \ {x} : exchange'[y] = exchange[y]
      BY <1>1, <2>1, OpenMoves
    <3>2. \A y \in Tabs \ {x} : /\ TokenOf(y)' = TokenOf(y)
                                /\ IsTaken(y)' = IsTaken(y) /\ IsAdmitted(y)' = IsAdmitted(y)
      BY <3>1 DEF TokenOf, IsTaken, IsAdmitted
    <3>3. ~IsTaken(x) /\ ~IsTaken(x)' /\ ~IsAdmitted(x) /\ ~IsAdmitted(x)'
      BY <3>1 DEF IsTaken, IsAdmitted
    <3> QED
      BY <3>2, <3>3
  <2>2. ASSUME NEW reason, exchange' = [exchange EXCEPT ![x].said = reason]
        PROVE  <1>2!:
    BY <1>1, <2>2 DEF TokenOf, IsTaken, IsAdmitted, Exchange
  <2>3. ASSUME NEW f \in Form, LoginSucceeds(x, f)
        PROVE  <1>2!:
    <3>1. exchange[x].step \in {"none", "form"}
      BY <2>3 DEF LoginSucceeds, LoginInv, LinkInv
    <3> QED
      BY <1>1, <2>3, <3>1 DEF LoginSucceeds, TokenOf, IsTaken, IsAdmitted, Exchange
  <2>4. CASE UNCHANGED exchange
    BY <2>4 DEF TokenOf, IsTaken, IsAdmitted
  <2> QED
    BY <2>1, <2>2, <2>3, <2>4 DEF LinkAccepted, Refused
<1> QED
  BY <1>2, SameStates DEF tokenVars

LEMMA NextToken ==
    ASSUME LoginInv, [Next]_vars
    PROVE  OTT!Next \/ UNCHANGED <<StateMap, AdmittedMap>>
<1>1. ASSUME NEW x \in Tabs, UNCHANGED <<tokenVars, exchange>>
      PROVE  UNCHANGED <<StateMap, AdmittedMap>>
  BY <1>1, BrowserStateSteps
<1>2. ASSUME NEW x \in Tabs, LinkAccepted(x) \/ LinkRefused(x) \/ RelayUnreachable(x)
      PROVE  UNCHANGED <<StateMap, AdmittedMap>>
  <2>1. UNCHANGED tokenVars /\ (LinkAccepted(x) \/ \E reason : Refused(x, reason))
    BY <1>2 DEF LinkAccepted, LinkRefused, RelayUnreachable, Refused
  <2> QED
    BY <2>1, BrowserStateSteps
<1>3. CASE UNCHANGED <<tokenVars, exchange>>
  BY <1>3, SameStates DEF tokenVars, TokenOf, IsTaken, IsAdmitted
<1>4. CASE User
  <2>1. ASSUME NEW x \in Tabs, NEW t \in Tokens, OpenLink(x, t)
        PROVE  UNCHANGED <<StateMap, AdmittedMap>>
    BY <2>1, BrowserStateSteps DEF OpenLink
  <2> QED
    BY <1>3, <1>4, <2>1, TokenStateSteps DEF User, Submit, Visit, Logout
<1>5. CASE Faults
  BY <1>2, <1>3, <1>5, TokenStateSteps, RelayStateSteps
  DEF Faults, LayoutRejects, JwtExpires, CookieExpires
<1>6. CASE \E x \in Tabs : Relay(x) \/ Answer(x) \/ Settle(x) \/ Follow(x)
  <2>1. ASSUME NEW x \in Tabs, NEW f \in Form, LoginSucceeds(x, f)
        PROVE  UNCHANGED <<StateMap, AdmittedMap>>
    BY <2>1, BrowserStateSteps DEF LoginSucceeds
  <2> QED
    BY <1>2, <1>3, <1>6, <2>1, RelayStateSteps DEF Answer, Settle, LoginFails, Follow
<1>7. CASE UNCHANGED vars
  BY <1>3, <1>7 DEF vars, tokenVars
<1> QED
  BY <1>4, <1>5, <1>6, <1>7 DEF Next

\* Every kind of token is a one-time token, however often its link is opened and
\* whatever fails between GETDEL and the answer.
THEOREM LoginImplementsToken == Spec => TokenImplemented
<1>1. Init => OTT!Init
  <2> SUFFICES ASSUME Init
               PROVE  OTT!Init
    OBVIOUS
  <2>1. \A t \in Tokens : issue[t].step = "none" /\ Admitted(t) = {}
    BY NoTokenAssumption DEF Init, Admitted, TokenOf
  <2> QED
    BY <2>1 DEF OTT!Init, TokenState
<1>2. LoginInv /\ [Next]_vars =>
        [OTT!Next]_<<[t \in Tokens |-> TokenState(t)], [t \in Tokens |-> Admitted(t)]>>
  BY NextToken DEF StateMap, AdmittedMap
<1> QED
  BY <1>1, <1>2, LoginInvariant, PTL DEF Spec, TokenImplemented, OTT!Spec

-----------------------------------------------------------------------------
(* What the refinement gives every kind of token.                          *)

LEMMA AdmitsOnceStep ==
    ASSUME OTT!AdmitsOnce, OTT!Next \/ UNCHANGED <<StateMap, AdmittedMap>>
    PROVE  OTT!AdmitsOnce'
<1> DEFINE OnceIn(st, ad, t) == IF st[t] = "spent" THEN \E r \in Tabs : ad[t] = {r}
                                ELSE ad[t] = {}
<1>1. \A t \in Tokens : OnceIn(StateMap, AdmittedMap, t)
  BY DEF OTT!AdmitsOnce, StateMap, AdmittedMap
<1>2. SUFFICES \A t \in Tokens : OnceIn(StateMap', AdmittedMap', t)
  BY DEF OTT!AdmitsOnce, StateMap, AdmittedMap
<1>3. DOMAIN StateMap = Tokens /\ DOMAIN AdmittedMap = Tokens
  BY DEF StateMap, AdmittedMap
<1>4. ASSUME NEW u \in Tokens, OTT!Issue(u) \/ OTT!Void(u)
      PROVE  \A t \in Tokens : OnceIn(StateMap', AdmittedMap', t)
  <2>1. /\ StateMap[u] # "spent" /\ AdmittedMap' = AdmittedMap
        /\ \/ StateMap' = [StateMap EXCEPT ![u] = "valid"]
           \/ StateMap' = [StateMap EXCEPT ![u] = "void"]
    BY <1>4 DEF OTT!Issue, OTT!Void, StateMap, AdmittedMap
  <2> QED
    BY <1>1, <1>3, <2>1
<1>5. ASSUME NEW u \in Tokens, NEW r \in Tabs, OTT!Admit(u, r)
      PROVE  \A t \in Tokens : OnceIn(StateMap', AdmittedMap', t)
  <2>1. /\ StateMap' = [StateMap EXCEPT ![u] = "spent"]
        /\ AdmittedMap' = [AdmittedMap EXCEPT ![u] = {r}]
    BY <1>5 DEF OTT!Admit, StateMap, AdmittedMap
  <2> QED
    BY <1>1, <1>3, <2>1
<1> QED
  BY <1>1, <1>4, <1>5 DEF OTT!Next

\* A token admits one request at most, and one that admitted a request is spent:
\* two tabs that open the same link are never both signed in by it.
THEOREM TokensAdmitOnce == Spec => []OTT!AdmitsOnce
<1>1. Init => OTT!AdmitsOnce
  <2> SUFFICES ASSUME Init
               PROVE  OTT!AdmitsOnce
    OBVIOUS
  <2>1. \A t \in Tokens : issue[t].step = "none" /\ Admitted(t) = {}
    BY NoTokenAssumption DEF Init, Admitted, TokenOf
  <2> QED
    BY <2>1 DEF OTT!AdmitsOnce, TokenState
<1>2. LoginInv /\ [Next]_vars /\ OTT!AdmitsOnce => OTT!AdmitsOnce'
  BY NextToken, AdmitsOnceStep
<1> QED
  BY <1>1, <1>2, LoginInvariant, PTL DEF Spec

\* A token that admitted somebody, or is void, stays so for ever: no request
\* that comes later, and no failure, puts a used link back.
THEOREM SpentStaysSpent == Spec => OTT!StaysSpent
<1> DEFINE Kept == \A t \in Tokens : StateMap[t] \in {"spent", "void"} =>
                     StateMap'[t] = StateMap[t] /\ AdmittedMap'[t] = AdmittedMap[t]
<1>1. DOMAIN StateMap = Tokens /\ DOMAIN AdmittedMap = Tokens
  BY DEF StateMap, AdmittedMap
<1>2. ASSUME LoginInv, [Next]_vars
      PROVE  Kept
  <2>1. ASSUME NEW u \in Tokens, OTT!Issue(u) \/ OTT!Void(u)
        PROVE  Kept
    <3>1. /\ StateMap[u] \notin {"spent", "void"} /\ AdmittedMap' = AdmittedMap
          /\ \/ StateMap' = [StateMap EXCEPT ![u] = "valid"]
             \/ StateMap' = [StateMap EXCEPT ![u] = "void"]
      BY <2>1 DEF OTT!Issue, OTT!Void, StateMap, AdmittedMap
    <3> QED
      BY <1>1, <3>1
  <2>2. ASSUME NEW u \in Tokens, NEW r \in Tabs, OTT!Admit(u, r)
        PROVE  Kept
    <3>1. /\ StateMap[u] = "valid" /\ StateMap' = [StateMap EXCEPT ![u] = "spent"]
          /\ AdmittedMap' = [AdmittedMap EXCEPT ![u] = {r}]
      BY <2>2 DEF OTT!Admit, StateMap, AdmittedMap
    <3> QED
      BY <1>1, <3>1
  <2>3. OTT!Next \/ UNCHANGED <<StateMap, AdmittedMap>>
    BY <1>2, NextToken
  <2> QED
    BY <2>1, <2>2, <2>3 DEF OTT!Next
<1>3. LoginInv /\ [Next]_vars =>
        [OTT!KeepsSpent]_<<[t \in Tokens |-> TokenState(t)], [t \in Tokens |-> Admitted(t)]>>
  BY <1>2 DEF OTT!KeepsSpent, StateMap, AdmittedMap
<1> QED
  BY <1>3, LoginInvariant, PTL DEF Spec, OTT!StaysSpent
=============================================================================
