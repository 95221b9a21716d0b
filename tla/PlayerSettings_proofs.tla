------------------------ MODULE PlayerSettings_proofs ------------------------
(***************************************************************************)
(* What TLAPS proves about PlayerSettings, for any pages, players and      *)
(* requests and whatever the forms are filled with.                        *)
(***************************************************************************)
EXTENDS PlayerSettings, TLAPS

HasRow(r) == call[r].step \in {"row", "pref", "answered"}

\* What a request brings is no newer than the row.  A save has what was submitted,
\* and so has the row as long as nobody wrote it since.  A save of a preferences
\* page is past its SET when it is answered; what is stored is what it SET.
CallFacts(r) ==
    LET p == call[r].player
        got == call[r].got
        wants == call[r].wants
    IN /\ call[r].op = "none" <=> call[r].step = "none"
       /\ got.at <= row[p].at
       /\ call[r].op = "put" /\ HasRow(r) =>
            /\ got.at = row[p].at =>
                 /\ row[p].on = wants.on
                 /\ wants.vol # Keep => row[p].vol = wants.vol
            /\ call[r].page \in Portals /\ call[r].step # "row" => fate[r] # "none"
       /\ fate[r] # "none" => call[r].op = "put" /\ call[r].step \in {"pref", "answered"}
       /\ fate[r] = "stored" => pref[p] = wants.client

CallInv == \A r \in Requests : CallFacts(r)

\* A page waits for one request at most.  While it loads it shows no player, or
\* has never shown one; while it saves, it shows no newer row than the save made.
WaitInv ==
    \A f \in Pages :
        /\ \A r, s \in page[f].waits : r = s
        /\ \A r \in page[f].waits :
             /\ call[r].op # "none" /\ call[r].page = f
             /\ call[r].op = "get" =>
                  page[f].status # "saved" /\ (f \in Admins => page[f].player = NoPlayer)
             /\ call[r].op = "put" => page[f].player # NoPlayer
             /\ call[r].op = "put" /\ f \in Admins /\ HasRow(r) =>
                  page[f].settings.at <= call[r].got.at

\* "Saved." is shown with what the answer to a save brought.
ShownInv ==
    \A f \in Pages :
        /\ page[f].status = "saved" =>
             /\ page[f].player # NoPlayer /\ page[f].by \in Requests
             /\ call[page[f].by].op = "put" /\ call[page[f].by].step = "answered"
             /\ call[page[f].by].page = f
             /\ page[f].settings = call[page[f].by].got
        /\ f \in Admins /\ page[f].player # NoPlayer =>
             page[f].settings.at <= row[page[f].player].at

SettingsInv == TypeOK /\ CallInv /\ WaitInv /\ ShownInv /\ OnlyShownPlayer

-----------------------------------------------------------------------------
LEMMA InitSettings == Init => SettingsInv
<1> SUFFICES ASSUME Init
             PROVE  SettingsInv
  OBVIOUS
<1>1. NoRow \in Row /\ Blank \in Settings /\ Blank.at = 0
  BY VolumeAssumption DEF NoRow, Blank, WithClient, Row, Settings, Client
<1>2. /\ row \in [Players -> Row] /\ pref \in [Players -> Client \cup {"none"}]
      /\ cookie \in [Portals -> Players]
      /\ fate \in [Requests -> Fates] /\ \A r \in Requests : fate[r] = "none"
  BY <1>1 DEF Init, Fates
<1>3. PICK p \in Players, g \in Pages :
        /\ page = [f \in Pages |->
             [input |-> p, player |-> NoPlayer, settings |-> Blank, by |-> NoRequest,
              waits |-> {}, status |-> "idle", broken |-> FALSE]]
        /\ call = [r \in Requests |->
             [op |-> "none", page |-> g, player |-> p, step |-> "none", got |-> Blank,
              wants |-> [vol |-> Keep, on |-> TRUE, client |-> "lite"]]]
  BY DEF Init
<1>4. page \in [Pages -> Page]
  BY <1>1, <1>3 DEF Page
<1>5. call \in [Requests -> Call]
  BY <1>1, <1>3 DEF Call, Wanted, Client
<1>6. /\ \A f \in Pages : page[f].waits = {} /\ page[f].status = "idle"
                          /\ page[f].player = NoPlayer
      /\ \A r \in Requests : call[r].op = "none" /\ call[r].step = "none"
                             /\ call[r].got.at = 0 /\ call[r].player \in Players
  BY <1>1, <1>3
<1>7. TypeOK
  BY <1>2, <1>4, <1>5 DEF TypeOK
<1>8. CallInv
  BY <1>2, <1>6 DEF CallInv, CallFacts, Row
<1>9. WaitInv /\ ShownInv /\ OnlyShownPlayer
  BY <1>6 DEF WaitInv, ShownInv, OnlyShownPlayer, Pages
<1> QED
  BY <1>7, <1>8, <1>9 DEF SettingsInv

-----------------------------------------------------------------------------
(* The pages.                                                              *)

\* Page f changes, and no request.
PageMoves(f) ==
    /\ UNCHANGED <<row, pref, cookie, call, fate>>
    /\ page' \in [Pages -> Page]
    /\ \A g \in Pages \ {f} : page'[g] = page[g]

LEMMA PageMove ==
    ASSUME SettingsInv, NEW f \in Pages, PageMoves(f),
           page'[f].waits \subseteq page[f].waits,
           \/ /\ page'[f].player = page[f].player /\ page'[f].settings = page[f].settings
              /\ page'[f].by = page[f].by
              /\ page'[f].status = "saved" => page[f].status = "saved"
           \/ \E r \in Requests :
                /\ page'[f].waits = {} /\ page'[f].by = r
                /\ page'[f].settings = call[r].got
                /\ f \in Admins => page'[f].player = call[r].player
                /\ page'[f].status = "saved" =>
                     /\ page'[f].player # NoPlayer
                     /\ call[r].op = "put" /\ call[r].step = "answered" /\ call[r].page = f
    PROVE  SettingsInv'
<1>1. TypeOK'
  BY DEF SettingsInv, TypeOK, PageMoves
<1>2. CallInv'
  BY DEF SettingsInv, CallInv, CallFacts, HasRow, PageMoves
<1>3. ASSUME NEW g \in Pages \ {f}
      PROVE  page'[g] = page[g]
  BY DEF PageMoves
<1>4. call' = call /\ row' = row
  BY DEF PageMoves
<1>5. CASE /\ page'[f].player = page[f].player /\ page'[f].settings = page[f].settings
           /\ page'[f].by = page[f].by
           /\ page'[f].status = "saved" => page[f].status = "saved"
  <2>1. WaitInv'
    BY <1>3, <1>4, <1>5 DEF SettingsInv, WaitInv, HasRow
  <2>2. ShownInv'
    BY <1>3, <1>4, <1>5 DEF SettingsInv, ShownInv
  <2>3. OnlyShownPlayer'
    BY <1>3, <1>4, <1>5 DEF SettingsInv, OnlyShownPlayer, Pages
  <2> QED
    BY <1>1, <1>2, <2>1, <2>2, <2>3 DEF SettingsInv
<1>6. ASSUME NEW r \in Requests,
             page'[f].waits = {}, page'[f].by = r, page'[f].settings = call[r].got,
             f \in Admins => page'[f].player = call[r].player,
             page'[f].status = "saved" =>
               /\ page'[f].player # NoPlayer
               /\ call[r].op = "put" /\ call[r].step = "answered" /\ call[r].page = f
      PROVE  SettingsInv'
  <2>1. WaitInv'
    BY <1>3, <1>4, <1>6 DEF SettingsInv, WaitInv, HasRow
  <2>2. ShownInv'
    <3>1. call[r].got.at <= row[call[r].player].at
      BY DEF SettingsInv, CallInv, CallFacts
    <3>2. /\ page'[f].status = "saved" =>
               /\ page'[f].player # NoPlayer /\ page'[f].by \in Requests
               /\ call'[page'[f].by].op = "put" /\ call'[page'[f].by].step = "answered"
               /\ call'[page'[f].by].page = f
               /\ page'[f].settings = call'[page'[f].by].got
          /\ f \in Admins /\ page'[f].player # NoPlayer =>
               page'[f].settings.at <= row'[page'[f].player].at
      BY <1>4, <1>6, <3>1
    <3> QED
      BY <1>3, <1>4, <3>2 DEF SettingsInv, ShownInv
  <2>3. OnlyShownPlayer'
    BY <1>3, <1>4, <1>6 DEF SettingsInv, OnlyShownPlayer, Pages
  <2> QED
    BY <1>1, <1>2, <2>1, <2>2, <2>3 DEF SettingsInv
<1> QED
  BY <1>5, <1>6

LEMMA PageSteps ==
    ASSUME SettingsInv, NEW f \in Pages,
           \/ f \in Admins /\ \E p \in Players : Type(f, p)
           \/ \E r \in Requests : AnswerShown(f, r) \/ ErrorShown(f, r)
    PROVE  SettingsInv'
<1>1. /\ page \in [Pages -> Page] /\ page[f] \in Page /\ call \in [Requests -> Call]
      /\ \A r \in page[f].waits : r \in Requests
  BY DEF SettingsInv, TypeOK, Page
<1>2. ASSUME NEW p \in Players, Type(f, p)
      PROVE  SettingsInv'
  <2>1. /\ page' \in [Pages -> Page] /\ \A g \in Pages \ {f} : page'[g] = page[g]
        /\ page'[f].waits = page[f].waits /\ page'[f].player = page[f].player
        /\ page'[f].settings = page[f].settings /\ page'[f].by = page[f].by
        /\ page'[f].status = page[f].status
    BY <1>1, <1>2 DEF Type, Page
  <2> QED
    BY <1>2, <2>1, PageMove DEF Type, PageMoves, stores
<1>3. ASSUME NEW r \in Requests, ErrorShown(f, r)
      PROVE  SettingsInv'
  <2> DEFINE first == [page EXCEPT ![f].waits = @ \ {r}]
             second == [first EXCEPT ![f].status =
                           IF call[r].op = "put" THEN "error" ELSE @]
  <2>1. /\ first \in [Pages -> Page] /\ \A g \in Pages \ {f} : first[g] = page[g]
        /\ first[f].waits \subseteq page[f].waits /\ first[f].player = page[f].player
        /\ first[f].settings = page[f].settings /\ first[f].by = page[f].by
        /\ first[f].status = page[f].status
    BY <1>1 DEF Page
  <2>2. /\ second \in [Pages -> Page] /\ \A g \in Pages \ {f} : second[g] = first[g]
        /\ second[f].waits = first[f].waits /\ second[f].player = first[f].player
        /\ second[f].settings = first[f].settings /\ second[f].by = first[f].by
        /\ second[f].status = "saved" => first[f].status = "saved"
    <3> HIDE DEF first
    <3> QED
      BY <2>1 DEF Page
  <2>3. page' = [second EXCEPT ![f].broken = (call[r].op = "get") \/ @]
    BY <1>1, <1>3 DEF ErrorShown, Page
  <2>4. /\ page' \in [Pages -> Page] /\ \A g \in Pages \ {f} : page'[g] = second[g]
        /\ page'[f].waits = second[f].waits /\ page'[f].player = second[f].player
        /\ page'[f].settings = second[f].settings /\ page'[f].by = second[f].by
        /\ page'[f].status = second[f].status
    <3> HIDE DEF first, second
    <3>1. PICK b \in BOOLEAN : page' = [second EXCEPT ![f].broken = b]
      <4>1. ((call[r].op = "get") \/ second[f].broken) \in BOOLEAN
        OBVIOUS
      <4> QED
        BY <2>3, <4>1
    <3> QED
      BY <2>2, <3>1 DEF Page
  <2> HIDE DEF first, second
  <2>5. PageMoves(f)
    BY <1>3, <2>1, <2>2, <2>4 DEF ErrorShown, PageMoves, stores
  <2>6. /\ page'[f].waits \subseteq page[f].waits /\ page'[f].player = page[f].player
        /\ page'[f].settings = page[f].settings /\ page'[f].by = page[f].by
        /\ page'[f].status = "saved" => page[f].status = "saved"
    BY <2>1, <2>2, <2>4
  <2> QED
    BY <2>5, <2>6, PageMove
<1>4. ASSUME NEW r \in Requests, AnswerShown(f, r)
      PROVE  SettingsInv'
  <2> DEFINE isPut == call[r].op = "put"
             player == IF isPut /\ f \in Portals THEN page[f].player ELSE call[r].player
             status == IF isPut THEN "saved" ELSE page[f].status
             first == [page EXCEPT ![f].waits = @ \ {r}]
             second == [first EXCEPT ![f].player = player, ![f].by = r]
             third == [second EXCEPT ![f].settings = call[r].got]
  <2>1. /\ page' \in [Pages -> Page] /\ \A g \in Pages \ {f} : page'[g] = page[g]
        /\ page'[f].waits = page[f].waits \ {r} /\ page'[f].by = r
        /\ page'[f].settings = call[r].got
        /\ page'[f].player = player /\ page'[f].status = status
    <3>1. /\ call[r].got \in Settings /\ player \in Players \cup {NoPlayer}
          /\ status \in {"idle", "saved", "error"}
      BY <1>1 DEF Page, Call
    <3>2. page' = [third EXCEPT ![f].status = status]
      BY <1>4 DEF AnswerShown, Settled
    <3> HIDE DEF player, status
    <3>3. /\ first \in [Pages -> Page] /\ \A g \in Pages \ {f} : first[g] = page[g]
          /\ first[f].waits = page[f].waits \ {r}
      BY <1>1 DEF Page
    <3> HIDE DEF first
    <3>4. /\ second \in [Pages -> Page] /\ \A g \in Pages \ {f} : second[g] = first[g]
          /\ second[f].waits = first[f].waits
          /\ second[f].player = player /\ second[f].by = r
      BY <3>1, <3>3 DEF Page
    <3> HIDE DEF second
    <3>5. /\ third \in [Pages -> Page] /\ \A g \in Pages \ {f} : third[g] = second[g]
          /\ third[f].waits = second[f].waits /\ third[f].by = second[f].by
          /\ third[f].player = second[f].player /\ third[f].settings = call[r].got
      BY <3>1, <3>4 DEF Page
    <3> HIDE DEF third
    <3>6. /\ page' \in [Pages -> Page] /\ \A g \in Pages \ {f} : page'[g] = third[g]
          /\ page'[f].waits = third[f].waits /\ page'[f].by = third[f].by
          /\ page'[f].player = third[f].player /\ page'[f].settings = third[f].settings
          /\ page'[f].status = status
      BY <3>1, <3>2, <3>5 DEF Page
    <3> QED
      BY <3>3, <3>4, <3>5, <3>6
  <2>2. /\ page'[f].waits = {} /\ r \in page[f].waits
        /\ call[r].step = "answered" /\ call[r].page = f
    BY <1>4, <2>1 DEF AnswerShown, SettingsInv, WaitInv
  <2>3. page'[f].status = "saved" => page'[f].player # NoPlayer /\ call[r].op = "put"
    BY <1>1, <2>1, <2>2, NoneAssumption DEF SettingsInv, WaitInv, Call, Pages
  <2>4. PageMoves(f)
    BY <1>4, <2>1 DEF AnswerShown, PageMoves, stores
  <2>5. f \in Admins => page'[f].player = call[r].player
    BY <2>1, PagesAssumption
  <2> HIDE DEF isPut, player, status, first, second, third
  <2> QED
    BY <2>1, <2>2, <2>3, <2>4, <2>5, PageMove
<1> QED
  BY <1>2, <1>3, <1>4

\* A request goes out, and its page waits for it alone.
LEMMA SendMove ==
    ASSUME SettingsInv, NEW f \in Pages, NEW r \in Requests, NEW op \in {"get", "put"},
           NEW p \in Players, NEW wants \in Wanted, Send(r, f, op, p, wants),
           UNCHANGED <<row, pref, cookie, fate>>,
           page' \in [Pages -> Page], \A g \in Pages \ {f} : page'[g] = page[g],
           page[f].waits = {}, page'[f].waits = {r},
           page'[f].status # "saved", page'[f].settings = page[f].settings,
           page'[f].player \in {page[f].player, NoPlayer},
           op = "get" /\ f \in Admins => page'[f].player = NoPlayer,
           op = "put" => page'[f].player # NoPlayer,
           op = "put" /\ f \in Admins => p = page'[f].player
    PROVE  SettingsInv'
<1>1. /\ call \in [Requests -> Call] /\ row \in [Players -> Row]
      /\ Blank \in Settings /\ Blank.at = 0
  BY VolumeAssumption
  DEF SettingsInv, TypeOK, Blank, NoRow, WithClient, Settings, Client
<1> DEFINE sent == [op |-> op, page |-> f, player |-> p, wants |-> wants,
                    step |-> "asked", got |-> Blank]
<1>2. call[r].op = "none" /\ call' = [call EXCEPT ![r] = sent]
  BY DEF Send
<1>3. /\ sent \in Call /\ sent.op = op /\ sent.player = p /\ sent.step = "asked"
      /\ sent.page = f
      /\ sent.got.at = 0
  BY <1>1 DEF Call
<1> HIDE DEF sent
<1>4. /\ call' \in [Requests -> Call] /\ call'[r] = sent
      /\ \A s \in Requests \ {r} : call'[s] = call[s]
  BY <1>1, <1>2, <1>3
<1>5. TypeOK'
  BY <1>4 DEF SettingsInv, TypeOK
<1>6. fate[r] = "none"
  BY <1>2 DEF SettingsInv, CallInv, CallFacts
<1>7. CallInv'
  <2>1. \A q \in Players : 0 <= row[q].at
    BY <1>1 DEF Row
  <2>2. CallFacts(r)'
    BY <1>3, <1>4, <1>6, <2>1 DEF CallFacts, HasRow
  <2>3. ASSUME NEW s \in Requests \ {r}
        PROVE  CallFacts(s)'
    BY <1>4 DEF SettingsInv, CallInv, CallFacts, HasRow
  <2> QED
    BY <2>2, <2>3 DEF CallInv
<1>8. \A g \in Pages : r \notin page[g].waits
  BY <1>2 DEF SettingsInv, WaitInv
<1>9. \A g \in Pages : page[g].waits \subseteq Requests
  BY DEF SettingsInv, TypeOK, Page
<1>10. WaitInv'
  <2>1. ASSUME NEW g \in Pages, g # f
        PROVE  page'[g] = page[g] /\ \A s \in page[g].waits : call'[s] = call[s]
    BY <1>4, <1>8, <1>9, <2>1
  <2>2. /\ \A s \in page'[f].waits : s = r
        /\ call'[r].op = op /\ call'[r].player = p /\ call'[r].step = "asked"
        /\ call'[r].page = f
    BY <1>3, <1>4
  <2> QED
    BY <2>1, <2>2 DEF SettingsInv, WaitInv, HasRow
<1>11. ShownInv'
  <2>1. ASSUME NEW g \in Pages, page'[g].status = "saved"
        PROVE  /\ page'[g].player # NoPlayer /\ page'[g].by \in Requests
               /\ call'[page'[g].by].op = "put" /\ call'[page'[g].by].step = "answered"
               /\ call'[page'[g].by].page = g
               /\ page'[g].settings = call'[page'[g].by].got
    <3>1. g # f /\ page'[g] = page[g]
      BY <2>1
    <3>2. page[g].by # r /\ page[g].by \in Requests
      BY <1>2, <2>1, <3>1 DEF SettingsInv, ShownInv
    <3> QED
      BY <1>4, <2>1, <3>1, <3>2 DEF SettingsInv, ShownInv
  <2>2. ASSUME NEW g \in Pages, g \in Admins, page'[g].player # NoPlayer
        PROVE  page'[g].settings.at <= row'[page'[g].player].at
    BY <2>2 DEF SettingsInv, ShownInv
  <2> QED
    BY <2>1, <2>2 DEF ShownInv
<1>12. OnlyShownPlayer'
  <2> SUFFICES ASSUME NEW g \in Admins, NEW s \in page'[g].waits, call'[s].op = "put"
               PROVE  call'[s].player = page'[g].player
    BY DEF OnlyShownPlayer
  <2>1. g \in Pages
    BY DEF Pages
  <2>2. CASE g = f
    BY <1>3, <1>4, <2>2
  <2>3. CASE g # f
    BY <1>4, <1>8, <1>9, <2>1, <2>3 DEF SettingsInv, OnlyShownPlayer
  <2> QED
    BY <2>2, <2>3
<1> QED
  BY <1>5, <1>7, <1>10, <1>11, <1>12 DEF SettingsInv

LEMMA SendSteps ==
    ASSUME SettingsInv, NEW f \in Pages, NEW r \in Requests,
           \/ f \in Admins /\ HandleLoad(f, r)
           \/ f \in Portals /\ Mount(f, r)
           \/ \E wants \in Filled : HandleSave(f, r, wants)
    PROVE  SettingsInv'
<1>1. /\ page \in [Pages -> Page] /\ page[f] \in Page /\ page[f].input \in Players
      /\ f \in Portals => cookie[f] \in Players
      /\ page[f].player \in Players \cup {NoPlayer}
  BY DEF SettingsInv, TypeOK, Page
<1>2. Unused \in Wanted
  BY DEF Unused, Wanted, Client
<1>3. CASE f \in Admins /\ HandleLoad(f, r)
  <2> DEFINE first == [page EXCEPT ![f].player = NoPlayer]
             second == [first EXCEPT ![f].status = "idle"]
             third == [second EXCEPT ![f].broken = FALSE]
  <2>1. page[f].waits = {} /\ page' = [third EXCEPT ![f].waits = @ \cup {r}]
    BY <1>1, <1>3 DEF HandleLoad, IsPending
  <2>2. /\ first \in [Pages -> Page] /\ \A g \in Pages \ {f} : first[g] = page[g]
        /\ first[f].player = NoPlayer /\ first[f].settings = page[f].settings
        /\ first[f].waits = page[f].waits
    BY <1>1 DEF Page
  <2> HIDE DEF first
  <2>3. /\ second \in [Pages -> Page] /\ \A g \in Pages \ {f} : second[g] = first[g]
        /\ second[f].player = first[f].player /\ second[f].settings = first[f].settings
        /\ second[f].waits = first[f].waits /\ second[f].status = "idle"
    BY <2>2 DEF Page
  <2> HIDE DEF second
  <2>4. /\ third \in [Pages -> Page] /\ \A g \in Pages \ {f} : third[g] = second[g]
        /\ third[f].player = second[f].player /\ third[f].settings = second[f].settings
        /\ third[f].waits = second[f].waits /\ third[f].status = second[f].status
    BY <2>3 DEF Page
  <2> HIDE DEF third
  <2>5. /\ page' \in [Pages -> Page] /\ \A g \in Pages \ {f} : page'[g] = third[g]
        /\ page'[f].player = third[f].player /\ page'[f].settings = third[f].settings
        /\ page'[f].waits = third[f].waits \cup {r} /\ page'[f].status = third[f].status
    BY <2>1, <2>4 DEF Page
  <2>6. /\ page' \in [Pages -> Page] /\ \A g \in Pages \ {f} : page'[g] = page[g]
        /\ page'[f].waits = {r} /\ page'[f].status = "idle"
        /\ page'[f].settings = page[f].settings /\ page'[f].player = NoPlayer
    BY <2>1, <2>2, <2>3, <2>4, <2>5
  <2>7. /\ Send(r, f, "get", page[f].input, Unused)
        /\ UNCHANGED <<row, pref, cookie, fate>>
    BY <1>3 DEF HandleLoad, stores
  <2> QED
    BY <1>1, <1>2, <2>1, <2>6, <2>7, SendMove
<1>4. CASE f \in Portals /\ Mount(f, r)
  <2>1. /\ page' \in [Pages -> Page] /\ \A g \in Pages \ {f} : page'[g] = page[g]
        /\ page'[f].waits = {r} /\ page[f].waits = {}
        /\ page'[f].status = page[f].status /\ page'[f].settings = page[f].settings
        /\ page'[f].player = page[f].player /\ page[f].player = NoPlayer
    BY <1>1, <1>4 DEF Mount, IsPending, Page
  <2>2. page[f].status # "saved" /\ f \notin Admins
    BY <1>4, <2>1, PagesAssumption DEF SettingsInv, ShownInv
  <2>3. /\ Send(r, f, "get", cookie[f], Unused)
        /\ UNCHANGED <<row, pref, cookie, fate>>
    BY <1>4 DEF Mount, stores
  <2> QED
    BY <1>1, <1>2, <1>4, <2>1, <2>2, <2>3, SendMove
<1>5. ASSUME NEW wants \in Filled, HandleSave(f, r, wants)
      PROVE  SettingsInv'
  <2> DEFINE first == [page EXCEPT ![f].status = "idle"]
  <2>1. /\ page[f].waits = {} /\ page[f].player # NoPlayer
        /\ page' = [first EXCEPT ![f].waits = @ \cup {r}]
    BY <1>1, <1>5 DEF HandleSave, Saves, IsPending
  <2>2. /\ first \in [Pages -> Page] /\ \A g \in Pages \ {f} : first[g] = page[g]
        /\ first[f].player = page[f].player /\ first[f].settings = page[f].settings
        /\ first[f].waits = page[f].waits /\ first[f].status = "idle"
    BY <1>1 DEF Page
  <2> HIDE DEF first
  <2>3. /\ page' \in [Pages -> Page] /\ \A g \in Pages \ {f} : page'[g] = first[g]
        /\ page'[f].player = first[f].player /\ page'[f].settings = first[f].settings
        /\ page'[f].waits = first[f].waits \cup {r} /\ page'[f].status = first[f].status
    BY <2>1, <2>2 DEF Page
  <2>4. /\ page' \in [Pages -> Page] /\ \A g \in Pages \ {f} : page'[g] = page[g]
        /\ page'[f].waits = {r} /\ page'[f].status = "idle"
        /\ page'[f].settings = page[f].settings /\ page'[f].player = page[f].player
    BY <2>1, <2>2, <2>3
  <2>5. /\ Send(r, f, "put", TargetOf(f), wants)
        /\ UNCHANGED <<row, pref, cookie, fate>>
    BY <1>5 DEF HandleSave, Saves, stores
  <2>6. /\ TargetOf(f) \in Players /\ wants \in Wanted
        /\ f \in Admins => TargetOf(f) = page[f].player
    BY <1>1, <2>1, FilledAssumption DEF TargetOf, Pages
  <2> QED
    BY <2>1, <2>4, <2>5, <2>6, SendMove
<1> QED
  BY <1>3, <1>4, <1>5

-----------------------------------------------------------------------------
(* The relay and the plugin.                                               *)

\* The request r of the player p takes a step at the relay.
LEMMA RelayMove ==
    ASSUME SettingsInv, NEW r \in Requests, NEW p \in Players, p = PlayerOf(r),
           UNCHANGED <<cookie, page>>, TypeOK',
           \A s \in Requests \ {r} : call'[s] = call[s],
           call'[r].op = call[r].op, call'[r].player = p, call'[r].page = call[r].page,
           call[r].step \in {"asked", "row", "pref"}, call'[r].step \notin {"none", "asked"},
           \A q \in Players \ {p} : row'[q] = row[q] /\ pref'[q] = pref[q],
           row'[p] = row[p] \/ row[p].at < row'[p].at,
           \A s \in Requests \ {r} :
               fate'[s] = fate[s] \/ (fate[s] = "stored" /\ fate'[s] = "replaced"),
           \/ pref'[p] = pref[p]
           \/ \A s \in Requests \ {r} : call[s].player = p => fate'[s] # "stored",
           CallFacts(r)',
           call[r].op = "put" /\ HasRow(r)' =>
               \/ row[p].at <= call'[r].got.at
               \/ HasRow(r) /\ call'[r].got.at = call[r].got.at
    PROVE  SettingsInv'
<1>1. /\ call \in [Requests -> Call] /\ row \in [Players -> Row] /\ page \in [Pages -> Page]
      /\ row' \in [Players -> Row] /\ call' \in [Requests -> Call]
      /\ \A q \in Players : row[q].at <= row'[q].at /\ row[q].at \in Nat /\ row'[q].at \in Nat
      /\ \A s \in Requests : call[s].player \in Players /\ call[s].got.at \in Nat
                             /\ call'[s].got.at \in Nat
      /\ \A g \in Pages : page[g].settings.at \in Nat /\ page[g].waits \subseteq Requests
                          /\ page[g].player \in Players \cup {NoPlayer}
  <2>1. \A q \in Players : row[q].at \in Nat /\ row'[q].at \in Nat
    BY DEF SettingsInv, TypeOK, Row
  <2>2. \A q \in Players : row[q].at <= row'[q].at
    BY <2>1
  <2>3. \A s \in Requests : call[s].player \in Players /\ call[s].got.at \in Nat
                            /\ call'[s].got.at \in Nat
    BY DEF SettingsInv, TypeOK, Call, Settings
  <2>4. \A g \in Pages : page[g].settings.at \in Nat /\ page[g].waits \subseteq Requests
                         /\ page[g].player \in Players \cup {NoPlayer}
    BY DEF SettingsInv, TypeOK, Page, Settings
  <2> QED
    BY <2>1, <2>2, <2>3, <2>4 DEF SettingsInv, TypeOK
<1>2. CallInv'
  <2> SUFFICES ASSUME NEW s \in Requests, s # r
               PROVE  CallFacts(s)'
    BY DEF CallInv
  <2> DEFINE q == call[s].player
  <2>1. q \in Players /\ call'[s] = call[s] /\ CallFacts(s)
    BY <1>1 DEF SettingsInv, CallInv
  <2>2. call[s].got.at <= row[q].at /\ call[s].got.at <= row'[q].at
    BY <1>1, <2>1 DEF CallFacts
  <2>3. row'[q] = row[q] \/ call[s].got.at < row'[q].at
    BY <1>1, <2>1, <2>2
  <2>4. fate'[s] = fate[s] \/ (fate[s] = "stored" /\ fate'[s] = "replaced")
    OBVIOUS
  <2>5. fate'[s] = "stored" => pref'[q] = call[s].wants.client
    BY <2>1, <2>4 DEF CallFacts
  <2> QED
    BY <1>1, <2>1, <2>2, <2>3, <2>4, <2>5 DEF CallFacts, HasRow
<1>3. WaitInv'
  <2> SUFFICES ASSUME NEW g \in Pages, NEW s \in page[g].waits
               PROVE  /\ call'[s].op # "none" /\ call'[s].page = g
                      /\ call'[s].op = "get" =>
                           page[g].status # "saved" /\ (g \in Admins => page[g].player = NoPlayer)
                      /\ call'[s].op = "put" => page[g].player # NoPlayer
                      /\ call'[s].op = "put" /\ g \in Admins /\ HasRow(s)' =>
                           page[g].settings.at <= call'[s].got.at
    BY DEF WaitInv, SettingsInv
  <2>1. s \in Requests /\ call'[s].op = call[s].op /\ call'[s].page = call[s].page
    BY <1>1
  <2>2. CASE s # r
    BY <2>1, <2>2 DEF SettingsInv, WaitInv, HasRow
  <2>3. CASE s = r
    <3>1. ASSUME call[r].op = "put", g \in Admins, HasRow(r)'
          PROVE  page[g].settings.at <= call'[r].got.at
      <4>1. page[g].player = p /\ page[g].player # NoPlayer
        BY <2>3, <3>1 DEF SettingsInv, OnlyShownPlayer, WaitInv, PlayerOf
      <4>2. page[g].settings.at <= row[p].at
        BY <3>1, <4>1 DEF SettingsInv, ShownInv
      <4>3. HasRow(r) => page[g].settings.at <= call[r].got.at
        BY <2>3, <3>1 DEF SettingsInv, WaitInv
      <4> QED
        BY <1>1, <3>1, <4>2, <4>3
    <3> QED
      BY <2>1, <2>3, <3>1 DEF SettingsInv, WaitInv
  <2> QED
    BY <2>2, <2>3
<1>4. ShownInv'
  <2>1. ASSUME NEW g \in Pages, page[g].status = "saved"
        PROVE  page[g].by \in Requests /\ call'[page[g].by] = call[page[g].by]
    BY <2>1 DEF SettingsInv, ShownInv
  <2>2. ASSUME NEW g \in Pages, g \in Admins, page[g].player # NoPlayer
        PROVE  page[g].settings.at <= row'[page[g].player].at
    <3>1. page[g].settings.at <= row[page[g].player].at
      BY <2>2 DEF SettingsInv, ShownInv
    <3> QED
      BY <1>1, <2>2, <3>1
  <2> QED
    BY <2>1, <2>2 DEF SettingsInv, ShownInv
<1>5. OnlyShownPlayer'
  <2>1. \A g \in Admins : g \in Pages
    BY DEF Pages
  <2>2. \A s \in Requests : call'[s].op = call[s].op /\ call'[s].player = call[s].player
    BY DEF PlayerOf
  <2> QED
    BY <1>1, <2>1, <2>2 DEF SettingsInv, OnlyShownPlayer
<1> QED
  BY <1>2, <1>3, <1>4, <1>5 DEF SettingsInv

LEMMA RelaySteps ==
    ASSUME SettingsInv, NEW r \in Requests, NEW p \in Players, p = PlayerOf(r),
           \/ SelectRow(r) \/ UpsertRow(r) \/ DatabaseFails(r)
           \/ SetDefaultClient(r) \/ SetFails(r) \/ ReadDefaultClient(r) \/ ReadFails(r)
    PROVE  SettingsInv'
<1>1. /\ call \in [Requests -> Call] /\ call[r] \in Call /\ p \in Players
      /\ row \in [Players -> Row] /\ row[p] \in Row /\ row[p].at \in Nat
      /\ pref \in [Players -> Client \cup {"none"}]
      /\ fate \in [Requests -> Fates]
      /\ call[r].player = p /\ call[r].got.at <= row[p].at /\ CallFacts(r)
  BY DEF SettingsInv, TypeOK, CallInv, CallFacts, Call, Row, PlayerOf
<1>2. ASSUME NEW s \in Row, s.at \in Nat, AfterRow(r, s), call[r].op # "none"
      PROVE  /\ call' \in [Requests -> Call] /\ \A q \in Requests \ {r} : call'[q] = call[q]
             /\ call'[r].op = call[r].op /\ call'[r].player = call[r].player
             /\ call'[r].page = call[r].page /\ call'[r].wants = call[r].wants
             /\ call'[r].step = IF call[r].page \in Admins THEN "answered" ELSE "row"
             /\ call'[r].got = WithClient(s, "lite")
  <2> DEFINE step == IF call[r].page \in Admins THEN "answered" ELSE "row"
             first == [call EXCEPT ![r].step = step]
             got == WithClient(s, "lite")
  <2>1. step \in {"answered", "row"} /\ got \in Settings
    BY <1>2 DEF WithClient, Settings, Row, Client
  <2>2. call' = [first EXCEPT ![r].got = got]
    BY <1>2 DEF AfterRow
  <2> HIDE DEF step, got
  <2>3. /\ first \in [Requests -> Call] /\ \A q \in Requests \ {r} : first[q] = call[q]
        /\ first[r].op = call[r].op /\ first[r].player = call[r].player
        /\ first[r].page = call[r].page /\ first[r].wants = call[r].wants
        /\ first[r].step = step
    BY <1>1, <2>1 DEF Call
  <2> HIDE DEF first
  <2>4. /\ call' \in [Requests -> Call] /\ \A q \in Requests \ {r} : call'[q] = first[q]
        /\ call'[r].op = first[r].op /\ call'[r].player = first[r].player
        /\ call'[r].page = first[r].page /\ call'[r].wants = first[r].wants
        /\ call'[r].step = first[r].step /\ call'[r].got = got
    BY <2>1, <2>2, <2>3 DEF Call
  <2> QED
    BY <2>1, <2>3, <2>4 DEF got, step
<1>3. ASSUME NEW step \in {"pref", "failed"}, call' = [call EXCEPT ![r].step = step]
      PROVE  /\ call' \in [Requests -> Call] /\ \A q \in Requests \ {r} : call'[q] = call[q]
             /\ call'[r].op = call[r].op /\ call'[r].player = call[r].player
             /\ call'[r].page = call[r].page /\ call'[r].wants = call[r].wants
             /\ call'[r].step = step /\ call'[r].got = call[r].got
  BY <1>1, <1>3 DEF Call
<1>4. /\ Upserted(r) \in Row /\ Upserted(r).at = row[p].at + 1
  BY <1>1 DEF Upserted, Row, Call, Wanted
<1>5. ASSUME WriteRow(r)
      PROVE  /\ row' \in [Players -> Row] /\ row'[p] = Upserted(r)
             /\ row[p].at < row'[p].at
             /\ \A q \in Players \ {p} : row'[q] = row[q]
  BY <1>1, <1>4, <1>5 DEF WriteRow
<1>6. ASSUME WritePref(r)
      PROVE  /\ pref' \in [Players -> Client \cup {"none"}] /\ fate' \in [Requests -> Fates]
             /\ pref'[p] = call[r].wants.client /\ fate'[r] = "stored"
             /\ \A q \in Players \ {p} : pref'[q] = pref[q]
             /\ \A s \in Requests \ {r} :
                  /\ fate'[s] = fate[s] \/ (fate[s] = "stored" /\ fate'[s] = "replaced")
                  /\ call[s].player = p => fate'[s] # "stored"
  <2>1. /\ pref' = [pref EXCEPT ![p] = call[r].wants.client]
        /\ fate' = [Replaced(p) EXCEPT ![r] = "stored"]
        /\ call[r].wants.client \in Client
    BY <1>1, <1>6 DEF WritePref, Call, Wanted
  <2>2. /\ Replaced(p) \in [Requests -> Fates]
        /\ \A s \in Requests :
             /\ Replaced(p)[s] = fate[s] \/ (fate[s] = "stored" /\ Replaced(p)[s] = "replaced")
             /\ call[s].player = p => Replaced(p)[s] # "stored"
    BY <1>1 DEF Replaced, PlayerOf, Fates
  <2>3. fate' \in [Requests -> Fates] /\ fate'[r] = "stored"
        /\ \A s \in Requests \ {r} : fate'[s] = Replaced(p)[s]
    BY <2>1, <2>2 DEF Fates
  <2>4. /\ pref' \in [Players -> Client \cup {"none"}] /\ pref'[p] = call[r].wants.client
        /\ \A q \in Players \ {p} : pref'[q] = pref[q]
    BY <1>1, <2>1
  <2> QED
    BY <2>2, <2>3, <2>4
<1>7. /\ fate[r] # "none" => call[r].op = "put" /\ call[r].step \in {"pref", "answered"}
      /\ call[r].step = "pref" /\ call[r].op = "put" /\ call[r].page \in Portals => fate[r] # "none"
      /\ call[r].op = "put" /\ HasRow(r) /\ call[r].got.at = row[p].at =>
           /\ row[p].on = call[r].wants.on
           /\ call[r].wants.vol # Keep => row[p].vol = call[r].wants.vol
      /\ fate[r] = "stored" => pref[p] = call[r].wants.client
  BY <1>1 DEF CallFacts, HasRow
<1>8. CASE SelectRow(r)
  <2>1. /\ call[r].op = "get" /\ call[r].step = "asked" /\ AfterRow(r, row[p])
        /\ UNCHANGED <<row, pref, fate, cookie, page>>
    BY <1>8 DEF SelectRow, stores
  <2>2. WithClient(row[p], "lite").at = row[p].at
    BY DEF WithClient
  <2>3. TypeOK'
    BY <1>1, <1>2, <2>1 DEF SettingsInv, TypeOK
  <2>4. CallFacts(r)'
    BY <1>1, <1>2, <1>7, <2>1, <2>2 DEF CallFacts
  <2> QED
    BY <1>1, <1>2, <2>1, <2>3, <2>4, RelayMove
<1>9. CASE UpsertRow(r)
  <2>1. /\ call[r].op = "put" /\ call[r].step = "asked" /\ WriteRow(r)
        /\ AfterRow(r, Upserted(r)) /\ UNCHANGED <<pref, fate, cookie, page>>
    BY <1>9 DEF UpsertRow
  <2>2. /\ WithClient(Upserted(r), "lite").at = row[p].at + 1
        /\ Upserted(r).on = call[r].wants.on
        /\ call[r].wants.vol # Keep => Upserted(r).vol = call[r].wants.vol
    BY <1>4 DEF WithClient, Upserted
  <2>3. TypeOK'
    BY <1>1, <1>2, <1>4, <1>5, <2>1 DEF SettingsInv, TypeOK
  <2>4. fate'[r] = "none" /\ (call[r].page \in Portals => call'[r].step = "row")
    BY <1>1, <1>2, <1>4, <1>7, <2>1, PagesAssumption
  <2>5. call'[r].got.at = row'[p].at /\ row[p].at <= call'[r].got.at
    BY <1>1, <1>2, <1>4, <1>5, <2>1, <2>2
  <2>6. CallFacts(r)'
    BY <1>1, <1>2, <1>4, <1>5, <2>1, <2>2, <2>4, <2>5 DEF CallFacts
  <2> QED
    BY <1>1, <1>2, <1>4, <1>5, <2>1, <2>3, <2>5, <2>6, RelayMove
<1>10. CASE DatabaseFails(r)
  <2>1. /\ call[r].step = "asked" /\ call' = [call EXCEPT ![r].step = "failed"]
        /\ (call[r].op = "put" /\ WriteRow(r)) \/ UNCHANGED row
        /\ UNCHANGED <<pref, fate, cookie, page>>
    BY <1>10 DEF DatabaseFails
  <2>2. TypeOK'
    BY <1>1, <1>3, <1>5, <2>1 DEF SettingsInv, TypeOK
  <2>3. /\ row'[p] = row[p] \/ row[p].at < row'[p].at
        /\ \A q \in Players \ {p} : row'[q] = row[q]
    BY <1>1, <1>5, <2>1
  <2>4. call[r].got.at \in Nat /\ row'[p].at \in Nat
    BY <1>1, <1>4, <1>5, <2>1 DEF Call, Settings
  <2>5. ~HasRow(r)' /\ call'[r].got.at <= row'[p].at
    BY <1>1, <1>3, <2>1, <2>3, <2>4 DEF HasRow
  <2>6. CallFacts(r)'
    BY <1>1, <1>3, <1>7, <2>1, <2>5 DEF CallFacts
  <2> QED
    BY <1>1, <1>3, <2>1, <2>2, <2>3, <2>5, <2>6, RelayMove
<1>11. CASE SetDefaultClient(r) \/ SetFails(r)
  <2>1. /\ call[r].op = "put" /\ call[r].step = "row"
        /\ call' = [call EXCEPT ![r].step = "pref"]
        /\ \/ WritePref(r)
           \/ fate' = [fate EXCEPT ![r] = "lost"] /\ UNCHANGED pref
        /\ UNCHANGED <<row, cookie, page>>
    BY <1>11 DEF SetDefaultClient, SetFails
  <2>2. /\ pref' \in [Players -> Client \cup {"none"}] /\ fate' \in [Requests -> Fates]
        /\ \A q \in Players \ {p} : pref'[q] = pref[q]
        /\ \A s \in Requests \ {r} :
             fate'[s] = fate[s] \/ (fate[s] = "stored" /\ fate'[s] = "replaced")
        /\ \/ pref'[p] = pref[p]
           \/ \A s \in Requests \ {r} : call[s].player = p => fate'[s] # "stored"
        /\ fate'[r] # "none" /\ (fate'[r] = "stored" => pref'[p] = call[r].wants.client)
    <3>1. CASE WritePref(r)
      BY <1>6, <3>1
    <3>2. CASE fate' = [fate EXCEPT ![r] = "lost"] /\ UNCHANGED pref
      BY <1>1, <3>2 DEF Fates
    <3> QED
      BY <2>1, <3>1, <3>2
  <2>3. TypeOK'
    BY <1>1, <1>3, <2>1, <2>2 DEF SettingsInv, TypeOK
  <2>4. HasRow(r)
    BY <2>1 DEF HasRow
  <2>5. CallFacts(r)'
    BY <1>1, <1>3, <1>7, <2>1, <2>2, <2>4 DEF CallFacts
  <2> QED
    BY <1>1, <1>3, <2>1, <2>2, <2>3, <2>4, <2>5, RelayMove
<1>12. ASSUME NEW client \in Client, ClientIs(r, client)
       PROVE  SettingsInv'
  <2> DEFINE first == [call EXCEPT ![r].step = "answered"]
  <2>1. /\ call[r].step = IF call[r].op = "put" THEN "pref" ELSE "row"
        /\ call' = [first EXCEPT ![r].got.client = client]
        /\ UNCHANGED <<row, pref, fate, cookie, page>>
    BY <1>12 DEF ClientIs, stores
  <2>2. /\ first \in [Requests -> Call] /\ \A q \in Requests \ {r} : first[q] = call[q]
        /\ first[r].op = call[r].op /\ first[r].player = call[r].player
        /\ first[r].page = call[r].page /\ first[r].wants = call[r].wants
        /\ first[r].step = "answered" /\ first[r].got = call[r].got
    BY <1>1 DEF Call
  <2> HIDE DEF first
  <2>3. /\ call' \in [Requests -> Call] /\ \A q \in Requests \ {r} : call'[q] = first[q]
        /\ call'[r].op = first[r].op /\ call'[r].player = first[r].player
        /\ call'[r].page = first[r].page /\ call'[r].wants = first[r].wants
        /\ call'[r].step = first[r].step /\ call'[r].got.at = first[r].got.at
    BY <1>12, <2>1, <2>2 DEF Call, Settings
  <2>4. TypeOK'
    BY <2>1, <2>3 DEF SettingsInv, TypeOK
  <2>5. HasRow(r)
    BY <2>1 DEF HasRow
  <2>6. CallFacts(r)'
    BY <1>1, <1>7, <2>1, <2>2, <2>3, <2>5 DEF CallFacts
  <2> QED
    BY <1>1, <2>1, <2>2, <2>3, <2>4, <2>5, <2>6, RelayMove
<1>13. CASE ReadDefaultClient(r) \/ ReadFails(r)
  <2>1. "lite" \in Client /\ (pref[p] # "none" => pref[p] \in Client)
    BY <1>1 DEF Client
  <2> QED
    BY <1>12, <1>13, <2>1 DEF ReadDefaultClient, ReadFails
<1> QED
  BY <1>8, <1>9, <1>10, <1>11, <1>13

LEMMA OtherSteps ==
    ASSUME SettingsInv,
           \/ \E f \in Portals, p \in Players : SignIn(f, p)
           \/ \E p \in Players, client \in Client : SetPlayerDefault(p, client)
           \/ UNCHANGED vars
    PROVE  SettingsInv'
<1>1. CASE \/ \E f \in Portals, p \in Players : SignIn(f, p)
           \/ UNCHANGED vars
  <2>1. UNCHANGED <<row, pref, page, call, fate>> /\ cookie' \in [Portals -> Players]
    BY <1>1 DEF SignIn, vars, stores, SettingsInv, TypeOK
  <2> QED
    BY <2>1
    DEF SettingsInv, TypeOK, CallInv, CallFacts, WaitInv, HasRow, ShownInv, OnlyShownPlayer
<1>2. ASSUME NEW p \in Players, NEW client \in Client, SetPlayerDefault(p, client)
      PROVE  SettingsInv'
  <2>1. /\ UNCHANGED <<row, cookie, page, call>>
        /\ pref' \in [Players -> Client \cup {"none"}]
        /\ fate' \in [Requests -> Fates]
        /\ \A q \in Players \ {p} : pref'[q] = pref[q]
        /\ \A s \in Requests :
             /\ fate'[s] = fate[s] \/ (fate[s] = "stored" /\ fate'[s] = "replaced")
             /\ call[s].player = p => fate'[s] # "stored"
    BY <1>2 DEF SetPlayerDefault, Replaced, PlayerOf, Fates, SettingsInv, TypeOK
  <2>2. CallInv'
    <3> SUFFICES ASSUME NEW s \in Requests
                 PROVE  CallFacts(s)'
      BY DEF CallInv
    <3>1. CallFacts(s) /\ call[s].player \in Players
      BY DEF SettingsInv, TypeOK, CallInv, Call
    <3>2. fate'[s] = "stored" => pref'[call[s].player] = call[s].wants.client
      BY <2>1, <3>1 DEF CallFacts
    <3>3. fate'[s] = fate[s] \/ (fate[s] = "stored" /\ fate'[s] = "replaced")
      BY <2>1
    <3> QED
      BY <2>1, <3>1, <3>2, <3>3 DEF CallFacts, HasRow
  <2> QED
    BY <2>1, <2>2
    DEF SettingsInv, TypeOK, WaitInv, HasRow, ShownInv, OnlyShownPlayer
<1> QED
  BY <1>1, <1>2

LEMMA NextSettings ==
    ASSUME SettingsInv, [Next]_vars
    PROVE  SettingsInv'
<1>1. \A f \in Admins \cup Portals : f \in Pages
  BY DEF Pages
<1>2. ASSUME NEW r \in Requests,
             \/ SelectRow(r) \/ UpsertRow(r) \/ DatabaseFails(r)
             \/ SetDefaultClient(r) \/ SetFails(r) \/ ReadDefaultClient(r) \/ ReadFails(r)
      PROVE  SettingsInv'
  <2>1. \E p \in Players : p = PlayerOf(r)
    BY DEF SettingsInv, TypeOK, Call, PlayerOf
  <2> QED
    BY <1>2, <2>1, RelaySteps
<1> QED
  BY <1>1, <1>2, PageSteps, SendSteps, OtherSteps DEF Next

\* In every behaviour, with every failure and answer lost, the inductive
\* invariant holds.
THEOREM SettingsInvariant == Spec => []SettingsInv
<1>1. Init => SettingsInv
  BY InitSettings
<1>2. SettingsInv /\ [Next]_vars => SettingsInv'
  BY NextSettings
<1> QED
  BY <1>1, <1>2, PTL DEF Spec

\* Every variable of the settings keeps its type.
THEOREM SettingsTypes == Spec => []TypeOK
<1>1. SettingsInv => TypeOK
  BY DEF SettingsInv
<1> QED
  BY <1>1, SettingsInvariant, PTL

\* A save an admin waits for is for the player the page shows.
THEOREM SavesForShown == Spec => []OnlyShownPlayer
<1>1. SettingsInv => OnlyShownPlayer
  BY DEF SettingsInv
<1> QED
  BY <1>1, SettingsInvariant, PTL

\* A save told as "Saved." has its volume and mute in the row until another upsert,
\* and its default client is the one /audio opens until it is set again, unless the
\* SET itself had no effect.  No other failure, order or save given up undoes it.
THEOREM SavedMeansStored == Spec => []SavedIsStored
<1>1. SettingsInv => SavedIsStored
  <2> SUFFICES ASSUME SettingsInv, NEW f \in Pages, page[f].status = "saved"
               PROVE  LET r == page[f].by
                          p == PlayerOf(r)
                          wants == call[r].wants
                      IN /\ row[p].at >= page[f].settings.at
                         /\ row[p].at = page[f].settings.at =>
                              /\ row[p].on = wants.on
                              /\ wants.vol # Keep => row[p].vol = wants.vol
                         /\ f \in Portals /\ fate[r] \notin {"replaced", "lost"} =>
                              LinkFor(p) = wants.client
    BY DEF SavedIsStored
  <2>1. PICK r \in Requests : r = page[f].by
    BY DEF SettingsInv, ShownInv
  <2>2. /\ call[r].op = "put" /\ call[r].step = "answered" /\ call[r].page = f
        /\ page[f].settings = call[r].got
    BY <2>1 DEF SettingsInv, ShownInv
  <2>3. /\ PlayerOf(r) \in Players /\ row[PlayerOf(r)].at \in Nat
        /\ call[r].got.at \in Nat /\ call[r].wants.client \in {"lite", "portal"}
        /\ fate[r] \in Fates
    BY DEF SettingsInv, TypeOK, Call, PlayerOf, Row, Settings, Wanted, Client
  <2>4. CallFacts(r) /\ HasRow(r)
    BY <2>2 DEF SettingsInv, CallInv, HasRow
  <2>5. /\ call[r].got.at <= row[PlayerOf(r)].at
        /\ call[r].got.at = row[PlayerOf(r)].at =>
             /\ row[PlayerOf(r)].on = call[r].wants.on
             /\ call[r].wants.vol # Keep => row[PlayerOf(r)].vol = call[r].wants.vol
    BY <2>2, <2>4 DEF CallFacts, PlayerOf
  <2>6. f \in Portals /\ fate[r] \notin {"replaced", "lost"} =>
          LinkFor(PlayerOf(r)) = call[r].wants.client
    <3>1. f \in Portals => fate[r] # "none"
      BY <2>2, <2>4 DEF CallFacts
    <3>2. fate[r] = "stored" => pref[PlayerOf(r)] = call[r].wants.client
      BY <2>4 DEF CallFacts, PlayerOf
    <3> QED
      BY <2>3, <3>1, <3>2 DEF LinkFor, Fates
  <2> QED
    BY <2>1, <2>2, <2>3, <2>5, <2>6
<1> QED
  BY <1>1, SettingsInvariant, PTL

\* Only an answer changes the state behind a form.
LEMMA ShownKept ==
    ASSUME TypeOK, NEW f \in Pages, NEW r \in Requests,
           \/ \E p \in Players : Type(f, p)
           \/ HandleLoad(f, r) \/ Mount(f, r) \/ ErrorShown(f, r)
           \/ \E wants \in Filled : HandleSave(f, r, wants)
    PROVE  \A g \in Pages : page'[g].settings = page[g].settings
<1>1. page \in [Pages -> Page] /\ page[f] \in Page
  BY DEF TypeOK
<1>2. CASE \E p \in Players : Type(f, p)
  BY <1>1, <1>2 DEF Type, Page
<1>3. CASE HandleLoad(f, r)
  BY <1>1, <1>3 DEF HandleLoad, Page
<1>4. CASE Mount(f, r)
  BY <1>1, <1>4 DEF Mount, Page
<1>5. CASE ErrorShown(f, r)
  BY <1>1, <1>5 DEF ErrorShown, Page
<1>6. CASE \E wants \in Filled : HandleSave(f, r, wants)
  BY <1>1, <1>6 DEF HandleSave, Saves, Page
<1> QED
  BY <1>2, <1>3, <1>4, <1>5, <1>6

LEMMA AnswerKeepsOthers ==
    ASSUME TypeOK, NEW f \in Pages, NEW r \in Requests, AnswerShown(f, r)
    PROVE  /\ \A g \in Pages \ {f} : page'[g] = page[g]
           /\ page'[f].settings = call[r].got
BY DEF TypeOK, AnswerShown, Settled, Page

\* A page that goes on showing a player never goes back to an older row.
THEOREM PagesNeverGoBack == Spec => NeverOlder
<1>1. SettingsInv /\ [Next]_vars =>
        [\A f \in Admins :
           page[f].player # NoPlayer /\ page'[f].player = page[f].player =>
             page'[f].settings.at >= page[f].settings.at]_vars
  <2> SUFFICES ASSUME SettingsInv, Next, NEW f \in Admins, page[f].player # NoPlayer,
                      page'[f].player = page[f].player
               PROVE  page'[f].settings.at >= page[f].settings.at
    OBVIOUS
  <2>1. f \in Pages /\ TypeOK /\ page[f].settings.at \in Nat /\ Portals \subseteq Pages
        /\ Admins \subseteq Pages
    BY DEF Pages, SettingsInv, TypeOK, Page, Settings
  <2>2. CASE page'[f].settings = page[f].settings
    BY <2>1, <2>2
  <2>3. CASE page' = page
    BY <2>1, <2>3
  <2>4. ASSUME NEW g \in Pages, NEW r \in Requests, AnswerShown(g, r)
        PROVE  page'[f].settings.at >= page[f].settings.at
    <3>1. CASE g # f
      BY <2>1, <2>4, <3>1, AnswerKeepsOthers
    <3>2. CASE g = f
      <4>1. r \in page[f].waits /\ call[r].step = "answered" /\ call[r].got.at \in Nat
        BY <2>4, <3>2 DEF AnswerShown, SettingsInv, TypeOK, Call, Settings
      <4>2. call[r].op = "put"
        BY <2>1, <4>1 DEF SettingsInv, TypeOK, WaitInv, Call
      <4>3. page[f].settings.at <= call[r].got.at
        BY <2>1, <4>1, <4>2 DEF SettingsInv, WaitInv, HasRow
      <4> QED
        BY <2>1, <2>4, <3>2, <4>1, <4>3, AnswerKeepsOthers
    <3> QED
      BY <3>1, <3>2
  <2>5. ASSUME NEW r \in Requests,
               \/ SelectRow(r) \/ UpsertRow(r) \/ DatabaseFails(r)
               \/ SetDefaultClient(r) \/ SetFails(r) \/ ReadDefaultClient(r) \/ ReadFails(r)
        PROVE  page' = page
    BY <2>5 DEF SelectRow, UpsertRow, DatabaseFails, SetDefaultClient, SetFails,
                ReadDefaultClient, ReadFails, ClientIs
  <2>6. ASSUME \/ \E g \in Portals, p \in Players : SignIn(g, p)
               \/ \E p \in Players, client \in Client : SetPlayerDefault(p, client)
        PROVE  page' = page
    BY <2>6 DEF SignIn, SetPlayerDefault
  <2>7. ASSUME NEW g \in Pages, NEW p \in Players, Type(g, p)
        PROVE  page'[f].settings = page[f].settings
    BY <2>1, <2>7 DEF Type, TypeOK, Page
  <2> QED
    BY <2>1, <2>2, <2>3, <2>4, <2>5, <2>6, <2>7, ShownKept DEF Next
<1> QED
  BY <1>1, SettingsInvariant, PTL DEF Spec, NeverOlder
=============================================================================
