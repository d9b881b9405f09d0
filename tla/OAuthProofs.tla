----------------------------- MODULE OAuthProofs ----------------------------
(***************************************************************************)
(* For any number of clients and grants, any keys, and any deletions,      *)
(* revocations, crashes and failed saves: the saved token is whole, can be *)
(* read with the key of oauth-setup and belongs to the user who is there,  *)
(* and no request carries a token that was not saved.                      *)
(*                                                                         *)
(* The properties of the row are not inductive: what is saved next is with *)
(* the clients and oauth-setup.  The invariant says of each what must hold *)
(* for its save to be sound.  A client of the present user holds no grant  *)
(* of a deleted one, because ids are never drawn twice; oauth-setup holds  *)
(* a grant nobody else has.                                                *)
(***************************************************************************)
EXTENDS OAuthToken, TLAPS

RowOK(r) ==
  r # None => /\ r.access = r.refresh /\ r.key = SetupKey
              /\ r.user = user /\ user # 0 /\ r.refresh \notin outcast

SetupOK ==
  /\ user <= created
  /\ stok # None =>
       /\ stok.access = stok.refresh /\ stok.refresh \notin outcast
       /\ row # None => row.refresh # stok.refresh
       /\ \A c \in Clients : Live(c) => base[c].refresh # stok.refresh
  /\ spc = "found" => suser \in 1..created

Sound(c) ==
  Live(c) => /\ base[c].access = base[c].refresh
             /\ KeyOf[c] = SetupKey /\ cuser[c] \in 1..created
             /\ cuser[c] = user => base[c].refresh \notin outcast

Counted(c) == (cpc[c] = "ready" => stored[c]) /\ (seen[c] => stored[c])

OAuthInv ==
  /\ TypeOK /\ RowOK(row) /\ SetupOK
  /\ \A c \in Clients : Sound(c) /\ Counted(c)

LEMMA InitHolds == Init => OAuthInv
<1> SUFFICES ASSUME Init PROVE OAuthInv
  OBVIOUS
<1>1. TypeOK
  BY DEF Init, TypeOK, Live, FaultsTypeOK
<1>2. RowOK(row) /\ SetupOK
  BY DEF Init, RowOK, SetupOK
<1>3. \A c \in Clients : Sound(c) /\ Counted(c)
  BY DEF Init, Sound, Counted, Live
<1> QED BY <1>1, <1>2, <1>3 DEF OAuthInv

(* What Google issues is a token (main.go:125, token.go:76).               *)
LEMMA IssuedTyped ==
  ASSUME NEW g \in Grants
  PROVE  Issued(g) \in Token /\ Issued(g) # None
<1>1. Issued(g) \in Token
  BY DEF Issued, Token
<1>2. None \notin Token
  BY OAuthAssumption DEF Token
<1> QED BY <1>1, <1>2

-----------------------------------------------------------------------------
(* What the steps of oauth-setup and of the operator leave alone.          *)

LEMMA ClientsStay ==
  ASSUME OAuthInv, UNCHANGED clientVars, created \in Nat, created' \in Nat,
         created <= created', outcast' \subseteq outcast,
         user' = user \/ user' > created
  PROVE  \A c \in Clients : (Sound(c) /\ Counted(c))'
<1> TAKE c \in Clients
<1>1. Sound(c) /\ Counted(c)
  BY DEF OAuthInv
<1>2. Counted(c)'
  BY <1>1 DEF Counted, clientVars
<1>3. CASE ~Live(c)
  BY <1>3, <1>2 DEF Sound, Live, clientVars
<1>4. CASE Live(c)
  <2>1. cuser[c] \in 1..created /\ cuser'[c] = cuser[c] /\ base'[c] = base[c]
    BY <1>1, <1>4 DEF Sound, clientVars
  <2>2. cuser'[c] \in 1..created'
    BY <2>1
  <2>3. cuser'[c] = user' => cuser[c] = user
    BY <2>1
  <2> QED BY <1>1, <1>2, <1>4, <2>1, <2>2, <2>3 DEF Sound
<1> QED BY <1>3, <1>4

LEMMA ExchangeHolds ==
  ASSUME OAuthInv, Exchange
  PROVE  OAuthInv'
<1>1. PICK g \in Grants :
        /\ NewGrant(g) /\ stok' = Issued(g)
        /\ ended' = ended \ {g} /\ outcast' = outcast \ {g}
  BY DEF Exchange
<1>2. g \notin HeldGrants
  BY <1>1 DEF NewGrant
<1>3. Issued(g) \in Token /\ Issued(g) # None
  BY IssuedTyped
<1>4. TypeOK'
  BY <1>1, <1>3 DEF Exchange, OAuthInv, TypeOK, userVars, clientVars, Live,
                    FaultsTypeOK
<1>5. RowOK(row)'
  BY <1>1 DEF Exchange, OAuthInv, RowOK, userVars
<1>6. /\ row # None => row.refresh # g
      /\ \A c \in Clients : Live(c) => base[c].refresh # g
  BY <1>2 DEF HeldGrants, RowGrants, ClientGrants
<1>7. SetupOK'
  <2>1. stok'.access = g /\ stok'.refresh = g /\ spc' = "exchanged"
    BY <1>1 DEF Issued, Exchange
  <2> QED BY <1>1, <1>6, <2>1 DEF Exchange, OAuthInv, SetupOK, userVars,
                                  clientVars, Live
<1>8. \A c \in Clients : (Sound(c) /\ Counted(c))'
  BY <1>1, ClientsStay DEF Exchange, userVars, OAuthInv, TypeOK
<1> QED BY <1>4, <1>5, <1>7, <1>8 DEF OAuthInv

(* A new user has an id no client was built for.                           *)
LEMMA FindUserHolds ==
  ASSUME OAuthInv, FindUser
  PROVE  OAuthInv'
<1>1. user \in Nat /\ created \in Nat /\ user <= created
  BY DEF OAuthInv, TypeOK, SetupOK
<1>2. \/ user # 0 /\ user' = user /\ created' = created
      \/ user = 0 /\ user' = created + 1 /\ created' = created + 1
  BY DEF FindUser, GetUserByEmail, CreateUser, userVars
<1>3. /\ user' \in 1..created' /\ created' \in Nat /\ created <= created'
      /\ user' = user \/ user' > created
  BY <1>1, <1>2
<1>4. TypeOK'
  BY <1>3 DEF FindUser, OAuthInv, TypeOK, clientVars, Live, FaultsTypeOK
<1>5. RowOK(row)'
  BY <1>2 DEF FindUser, OAuthInv, RowOK
<1>6. SetupOK'
  BY <1>1, <1>3 DEF FindUser, OAuthInv, SetupOK, TypeOK, clientVars, Live
<1>7. \A c \in Clients : (Sound(c) /\ Counted(c))'
  BY <1>1, <1>3, ClientsStay DEF FindUser
<1> QED BY <1>4, <1>5, <1>6, <1>7 DEF OAuthInv

LEMMA SetupEndHolds ==
  ASSUME OAuthInv, SetupSave \/ SetupDies
  PROVE  OAuthInv'
<1>1. UNCHANGED <<userVars, clientVars, ended, outcast>> /\ SetupEnds
  BY DEF SetupSave, SetupDies
<1>2. faults' \in Nat
  BY DEF SetupSave, SetupDies, Fault, OAuthInv, TypeOK, FaultsTypeOK
<1>3. row' = row \/ (row' = SealedRow(suser, SetupKey, stok) /\ user = suser
                      /\ spc = "found")
  BY DEF SetupSave, SetupDies, SaveOAuthToken, UserExists
<1>5. RowOK(row)' /\ row' \in Row \cup {None}
  <2>1. CASE row' = row
    BY <1>1, <2>1 DEF RowOK, userVars, OAuthInv, TypeOK
  <2>2. CASE row' = SealedRow(suser, SetupKey, stok) /\ user = suser /\ spc = "found"
    <3>1. stok # None /\ stok \in Token /\ suser \in 1..created
      BY <2>2 DEF OAuthInv, TypeOK, SetupOK
    <3>2. row' \in Row /\ row'.user = user /\ row'.key = SetupKey
          /\ row'.access = stok.access /\ row'.refresh = stok.refresh
      BY <2>2, <3>1, OAuthAssumption DEF SealedRow, Row, Token, OAuthInv, TypeOK
    <3>3. user # 0 /\ stok.access = stok.refresh /\ stok.refresh \notin outcast
      BY <2>2, <3>1 DEF OAuthInv, SetupOK, TypeOK
    <3> QED BY <1>1, <3>2, <3>3 DEF RowOK, userVars
  <2> QED BY <1>3, <2>1, <2>2
<1>6. TypeOK'
  BY <1>1, <1>2, <1>5 DEF SetupEnds, OAuthInv, TypeOK, userVars, clientVars, Live,
                          FaultsTypeOK
<1>7. SetupOK'
  BY <1>1 DEF SetupEnds, OAuthInv, SetupOK, userVars
<1>8. \A c \in Clients : (Sound(c) /\ Counted(c))'
  BY <1>1, ClientsStay DEF userVars, OAuthInv, TypeOK
<1> QED BY <1>5, <1>6, <1>7, <1>8 DEF OAuthInv

(* The clients of a deleted user keep an id that is not drawn again.       *)
LEMMA DeleteHolds ==
  ASSUME OAuthInv, DeleteUser
  PROVE  OAuthInv'
<1>1. /\ user' = 0 /\ row' = None /\ created' = created
      /\ outcast' = outcast \cup ClientGrants \cup RowGrants
      /\ UNCHANGED <<setupVars, clientVars, ended>> /\ faults' \in Nat
  BY DEF DeleteUser, Fault, OAuthInv, TypeOK, FaultsTypeOK
<1>2. ClientGrants \subseteq Grants /\ RowGrants \subseteq Grants
  BY DEF ClientGrants, RowGrants, Live, Token, Row, OAuthInv, TypeOK
<1>3. TypeOK'
  BY <1>1, <1>2 DEF OAuthInv, TypeOK, setupVars, clientVars, Live, FaultsTypeOK
<1>4. RowOK(row)'
  BY <1>1 DEF RowOK
<1>5. SetupOK'
  <2>1. stok # None => stok.refresh \notin ClientGrants \cup RowGrants
    BY DEF OAuthInv, SetupOK, ClientGrants, RowGrants
  <2> QED BY <1>1, <2>1 DEF OAuthInv, SetupOK, TypeOK, setupVars, clientVars, Live
<1>6. ASSUME NEW c \in Clients PROVE (Sound(c) /\ Counted(c))'
  <2>1. Sound(c) /\ Counted(c)
    BY DEF OAuthInv
  <2>2. Live(c) => cuser[c] # 0
    BY <2>1 DEF Sound, OAuthInv, TypeOK
  <2> QED BY <1>1, <2>1, <2>2 DEF Sound, Counted, Live, clientVars
<1> QED BY <1>3, <1>4, <1>5, <1>6 DEF OAuthInv

LEMMA AgeingHolds ==
  ASSUME OAuthInv, RowExpires \/ \E g \in Grants : GrantEnds(g)
  PROVE  OAuthInv'
<1>1. UNCHANGED <<userVars, setupVars, clientVars, outcast>>
  BY DEF RowExpires, GrantEnds
<1>2. /\ ended' \subseteq Grants /\ faults' \in Nat
      /\ row' \in Row \cup {None} /\ (row' = None <=> row = None)
      /\ row # None => /\ row'.user = row.user /\ row'.key = row.key
                       /\ row'.access = row.access /\ row'.refresh = row.refresh
  <2>1. CASE RowExpires
    <3>1. row \in Row /\ row # None /\ row' = [row EXCEPT !.fresh = FALSE]
      BY <2>1 DEF RowExpires, OAuthInv, TypeOK
    <3>2. /\ row' \in Row /\ row'.user = row.user /\ row'.key = row.key
          /\ row'.access = row.access /\ row'.refresh = row.refresh
      BY <3>1 DEF Row
    <3>3. None \notin Row
      BY OAuthAssumption
    <3> QED BY <2>1, <3>1, <3>2, <3>3 DEF RowExpires, OAuthInv, TypeOK, FaultsTypeOK
  <2>2. CASE \E g \in Grants : GrantEnds(g)
    BY <2>2 DEF GrantEnds, Fault, OAuthInv, TypeOK, FaultsTypeOK
  <2> QED BY <2>1, <2>2
<1>3. TypeOK'
  BY <1>1, <1>2 DEF OAuthInv, TypeOK, userVars, setupVars, clientVars, Live,
                    FaultsTypeOK
<1>4. RowOK(row)'
  BY <1>1, <1>2 DEF OAuthInv, RowOK, userVars
<1>5. SetupOK'
  BY <1>1, <1>2 DEF OAuthInv, SetupOK, userVars, setupVars, clientVars, Live
<1>6. \A c \in Clients : (Sound(c) /\ Counted(c))'
  BY <1>1, ClientsStay DEF userVars, OAuthInv, TypeOK
<1> QED BY <1>3, <1>4, <1>5, <1>6 DEF OAuthInv

-----------------------------------------------------------------------------
(* The steps of a client.                                                  *)

Moves(c, pc, u, tok, sn, st) ==
  /\ cpc' = [cpc EXCEPT ![c] = pc] /\ cuser' = [cuser EXCEPT ![c] = u]
  /\ base' = [base EXCEPT ![c] = tok]
  /\ seen' = [seen EXCEPT ![c] = sn] /\ stored' = [stored EXCEPT ![c] = st]

(* Where a client may go, and with what.                                   *)
MayHold(c, pc, u, tok, sn, st) ==
  /\ pc \in {"none", "ready", "saving", "failed"} /\ u \in Nat
  /\ tok \in Token \cup {None} /\ sn \in BOOLEAN /\ st \in BOOLEAN
  /\ pc # "none" <=> tok # None
  /\ pc # "none" =>
       /\ tok.access = tok.refresh /\ KeyOf[c] = SetupKey /\ u \in 1..created
       /\ u = user => tok.refresh \notin outcast
       /\ stok # None => tok.refresh # stok.refresh
  /\ (pc = "ready" => st) /\ (sn => st)

(* Any step of one client to a place where it may be keeps the invariant.  *)
LEMMA MoveHolds ==
  ASSUME OAuthInv, UNCHANGED <<userVars, setupVars, ended, outcast>>,
         faults' \in Nat, row' \in Row \cup {None}, RowOK(row'),
         row' # None /\ stok # None => row'.refresh # stok.refresh,
         NEW c \in Clients, NEW pc, NEW u, NEW tok, NEW sn, NEW st,
         MayHold(c, pc, u, tok, sn, st), Moves(c, pc, u, tok, sn, st)
  PROVE  OAuthInv'
<1>1. /\ cpc' \in [Clients -> {"none", "ready", "saving", "failed"}]
      /\ cuser' \in [Clients -> Nat] /\ base' \in [Clients -> Token \cup {None}]
      /\ seen' \in [Clients -> BOOLEAN] /\ stored' \in [Clients -> BOOLEAN]
  BY DEF Moves, MayHold, OAuthInv, TypeOK
<1>2. /\ cpc'[c] = pc /\ cuser'[c] = u /\ base'[c] = tok
      /\ seen'[c] = sn /\ stored'[c] = st
  BY DEF Moves, OAuthInv, TypeOK
<1>3. ASSUME NEW d \in Clients, d # c
      PROVE  /\ cpc'[d] = cpc[d] /\ cuser'[d] = cuser[d] /\ base'[d] = base[d]
             /\ seen'[d] = seen[d] /\ stored'[d] = stored[d]
  BY <1>3 DEF Moves, OAuthInv, TypeOK
<1>4. \A d \in Clients : (cpc'[d] # "none" <=> base'[d] # None)
  <2> TAKE d \in Clients
  <2>1. CASE d = c
    BY <1>2, <2>1 DEF MayHold
  <2>2. CASE d # c
    BY <1>3, <2>2 DEF OAuthInv, TypeOK, Live
  <2> QED BY <2>1, <2>2
<1>5. TypeOK'
  BY <1>1, <1>4 DEF OAuthInv, TypeOK, userVars, setupVars, Live, FaultsTypeOK
<1>6. RowOK(row)'
  BY DEF RowOK, userVars
<1>7. \A d \in Clients : (Sound(d) /\ Counted(d))'
  <2> TAKE d \in Clients
  <2>1. CASE d = c
    BY <1>2, <2>1 DEF MayHold, Sound, Counted, Live, userVars
  <2>2. CASE d # c
    BY <1>3, <2>2 DEF OAuthInv, Sound, Counted, Live, userVars
  <2> QED BY <2>1, <2>2
<1>8. SetupOK'
  <2>1. \A d \in Clients :
          stok # None /\ cpc'[d] # "none" => base'[d].refresh # stok.refresh
    <3> TAKE d \in Clients
    <3>1. CASE d = c
      BY <1>2, <3>1 DEF MayHold
    <3>2. CASE d # c
      BY <1>3, <3>2 DEF OAuthInv, SetupOK, Live
    <3> QED BY <3>1, <3>2
  <2> QED BY <2>1 DEF OAuthInv, SetupOK, userVars, setupVars, Live
<1> QED BY <1>5, <1>6, <1>7, <1>8 DEF OAuthInv

(* A client that ends holds nothing.                                       *)
LEMMA EndHolds ==
  ASSUME OAuthInv, NEW c \in Clients, CloseClient(c) \/ ClientDies(c)
  PROVE  OAuthInv'
<1>1. /\ UNCHANGED <<userVars, row, setupVars, ended, outcast>>
      /\ faults' \in Nat /\ ClientEnds(c)
  BY DEF CloseClient, ClientDies, Fault, OAuthInv, TypeOK, FaultsTypeOK
<1>2. Moves(c, "none", 0, None, FALSE, FALSE)
  BY <1>1 DEF ClientEnds, Moves
<1>3. MayHold(c, "none", 0, None, FALSE, FALSE)
  BY DEF MayHold
<1>4. /\ row' \in Row \cup {None} /\ RowOK(row')
      /\ row' # None /\ stok # None => row'.refresh # stok.refresh
  BY <1>1 DEF OAuthInv, TypeOK, SetupOK
<1> QED BY <1>1, <1>2, <1>3, <1>4, MoveHolds

(* What a new client takes from the row is sound because the row is.       *)
LEMMA NewHolds ==
  ASSUME OAuthInv, NEW c \in Clients, NewClient(c)
  PROVE  OAuthInv'
<1> DEFINE tok == DecryptToken(row)
<1>1. row \in Row /\ row # None /\ RowOK(row) /\ row.key = KeyOf[c]
  BY DEF NewClient, LoadToken, GetOAuthToken, Opens, OAuthInv, TypeOK
<1>2. /\ tok \in Token /\ tok # None
      /\ tok.access = row.access /\ tok.refresh = row.refresh
  BY <1>1, OAuthAssumption DEF DecryptToken, Token, Row
<1>3. row.user \in 1..created
  BY <1>1 DEF RowOK, OAuthInv, TypeOK, SetupOK
<1>4. MayHold(c, "ready", row.user, tok, TRUE, TRUE)
  <2>1. row.user \in Nat
    BY <1>1 DEF Row
  <2>2. stok # None => tok.refresh # stok.refresh
    BY <1>1, <1>2 DEF OAuthInv, SetupOK
  <2> HIDE DEF tok
  <2> QED BY <1>1, <1>2, <1>3, <2>1, <2>2 DEF MayHold, RowOK
<1>5. Moves(c, "ready", row.user, tok, TRUE, TRUE)
  BY DEF NewClient, Moves
<1>6. /\ UNCHANGED <<userVars, row, setupVars, ended, outcast>> /\ faults' \in Nat
      /\ row' \in Row \cup {None} /\ RowOK(row')
      /\ row' # None /\ stok # None => row'.refresh # stok.refresh
  BY DEF NewClient, OAuthInv, TypeOK, SetupOK, FaultsTypeOK
<1> HIDE DEF tok
<1> QED BY <1>4, <1>5, <1>6, MoveHolds

(* What a live client holds may be held: by MayHold in every place but     *)
(* "ready", and there too if it is stored.                                 *)
LEMMA HoldsOn ==
  ASSUME OAuthInv, NEW c \in Clients, Live(c),
         NEW pc \in {"ready", "saving", "failed"}, NEW tok \in Token,
         tok.refresh = base[c].refresh, tok.access = tok.refresh,
         NEW sn \in BOOLEAN, NEW st \in BOOLEAN, pc = "ready" => st, sn => st
  PROVE  MayHold(c, pc, cuser[c], tok, sn, st)
<1>1. Sound(c) /\ cuser[c] \in Nat
  BY DEF OAuthInv, TypeOK
<1>2. stok # None => tok.refresh # stok.refresh
  BY DEF OAuthInv, SetupOK
<1>3. tok # None
  BY OAuthAssumption
<1> QED BY <1>1, <1>2, <1>3 DEF Sound, MayHold

(* A field that keeps its value, as Moves has it.                          *)
LEMMA Stays ==
  ASSUME OAuthInv, NEW c \in Clients
  PROVE  /\ cpc = [cpc EXCEPT ![c] = cpc[c]]
         /\ cuser = [cuser EXCEPT ![c] = cuser[c]]
         /\ base = [base EXCEPT ![c] = base[c]]
         /\ seen = [seen EXCEPT ![c] = seen[c]]
         /\ stored = [stored EXCEPT ![c] = stored[c]]
BY DEF OAuthInv, TypeOK

(* A step that leaves the row alone.                                       *)
LEMMA QuietHolds ==
  ASSUME OAuthInv, UNCHANGED <<userVars, row, setupVars, ended, outcast>>,
         faults' \in Nat, NEW c \in Clients, Live(c),
         NEW pc \in {"ready", "saving", "failed"}, NEW tok \in Token,
         tok.refresh = base[c].refresh, tok.access = tok.refresh,
         NEW sn \in BOOLEAN, NEW st \in BOOLEAN, pc = "ready" => st, sn => st,
         Moves(c, pc, cuser[c], tok, sn, st)
  PROVE  OAuthInv'
<1>1. MayHold(c, pc, cuser[c], tok, sn, st)
  BY HoldsOn
<1>2. /\ row' \in Row \cup {None} /\ RowOK(row')
      /\ row' # None /\ stok # None => row'.refresh # stok.refresh
  BY DEF OAuthInv, TypeOK, SetupOK
<1> QED BY <1>1, <1>2, MoveHolds

(* What a live client holds.                                               *)
LEMMA LiveFacts ==
  ASSUME OAuthInv, NEW c \in Clients, Live(c)
  PROVE  /\ cpc[c] \in {"ready", "saving", "failed"} /\ base[c] \in Token
         /\ base[c].access = base[c].refresh /\ base[c].refresh \in Grants
         /\ seen[c] \in BOOLEAN /\ stored[c] \in BOOLEAN /\ faults \in Nat
         /\ (cpc[c] = "ready" => stored[c]) /\ (seen[c] => stored[c])
<1>1. Sound(c) /\ Counted(c)
  BY DEF OAuthInv
<1>2. base[c] \in Token
  BY DEF OAuthInv, TypeOK
<1>3. base[c].refresh \in Grants
  BY <1>2 DEF Token
<1> QED BY <1>1, <1>2, <1>3 DEF Sound, Counted, Live, OAuthInv, TypeOK, FaultsTypeOK

LEMMA ExpiresHolds ==
  ASSUME OAuthInv, NEW c \in Clients, ClientExpires(c)
  PROVE  OAuthInv'
<1> DEFINE tok == [base[c] EXCEPT !.fresh = FALSE]
<1>1. Live(c)
  BY DEF ClientExpires, Live
<1>2. tok \in Token /\ tok.refresh = base[c].refresh /\ tok.access = tok.refresh
  BY <1>1, LiveFacts DEF Token
<1>3. Moves(c, cpc[c], cuser[c], tok, seen[c], stored[c])
  BY Stays DEF ClientExpires, Moves
<1>4. UNCHANGED <<userVars, row, setupVars, ended, outcast>> /\ faults' \in Nat
  BY <1>1, LiveFacts DEF ClientExpires
<1> HIDE DEF tok
<1> QED BY <1>1, <1>2, <1>3, <1>4, LiveFacts, QuietHolds

LEMMA RefreshHolds ==
  ASSUME OAuthInv, NEW c \in Clients, Refresh(c)
  PROVE  OAuthInv'
<1> DEFINE tok == Issued(base[c].refresh)
<1>1. Live(c)
  BY DEF Refresh, Live
<1>2. tok \in Token /\ tok.refresh = base[c].refresh /\ tok.access = tok.refresh
  BY <1>1, LiveFacts, IssuedTyped DEF Issued
<1>3. Moves(c, "saving", cuser[c], tok, FALSE, FALSE)
  BY Stays DEF Refresh, Moves
<1>4. UNCHANGED <<userVars, row, setupVars, ended, outcast>> /\ faults' \in Nat
  BY <1>1, LiveFacts DEF Refresh
<1> HIDE DEF tok
<1> QED BY <1>1, <1>2, <1>3, <1>4, QuietHolds

LEMMA FailHolds ==
  ASSUME OAuthInv, NEW c \in Clients, SaveFails(c) \/ TokenAgain(c)
  PROVE  OAuthInv'
<1>1. Live(c)
  BY DEF SaveFails, TokenAgain, Live
<1>2. UNCHANGED <<userVars, row, setupVars, ended, outcast>> /\ faults' \in Nat
  BY <1>1, LiveFacts DEF SaveFails, TokenAgain, Fault
<1>3. PICK pc \in {"ready", "saving", "failed"} :
        /\ Moves(c, pc, cuser[c], base[c], seen[c], stored[c])
        /\ pc = "ready" => seen[c]
  BY Stays DEF SaveFails, TokenAgain, Moves
<1> QED BY <1>1, <1>2, <1>3, LiveFacts, QuietHolds

(* The save: the foreign key lets only a client of the present user in.    *)
LEMMA SaveHolds ==
  ASSUME OAuthInv, NEW c \in Clients, SaveToken(c)
  PROVE  OAuthInv'
<1>1. Live(c)
  BY DEF SaveToken, Live
<1>2. Sound(c) /\ user \in Nat /\ cuser[c] \in Nat
  BY DEF OAuthInv, TypeOK
<1>3. user = cuser[c] /\ row' = SealedRow(cuser[c], KeyOf[c], base[c])
  BY DEF SaveToken, SaveOAuthToken, UserExists
<1>4. /\ row' \in Row /\ row'.user = cuser[c] /\ row'.key = KeyOf[c]
      /\ row'.access = base[c].access /\ row'.refresh = base[c].refresh
  <2>1. base[c] \in Token /\ KeyOf[c] \in STRING
    BY <1>1, LiveFacts, OAuthAssumption
  <2> QED BY <1>2, <1>3, <2>1 DEF SealedRow, Row, Token
<1>5. RowOK(row') /\ row' \in Row \cup {None}
  BY <1>1, <1>2, <1>3, <1>4 DEF Sound, RowOK
<1>6. stok # None => row'.refresh # stok.refresh
  BY <1>1, <1>4 DEF OAuthInv, SetupOK
<1>7. Moves(c, "ready", cuser[c], base[c], TRUE, TRUE)
  BY Stays DEF SaveToken, Moves
<1>8. MayHold(c, "ready", cuser[c], base[c], TRUE, TRUE)
  BY <1>1, LiveFacts, HoldsOn
<1>9. UNCHANGED <<userVars, setupVars, ended, outcast>> /\ faults' \in Nat
  BY <1>1, LiveFacts DEF SaveToken
<1> QED BY <1>5, <1>6, <1>7, <1>8, <1>9, MoveHolds

LEMMA StutterHolds ==
  ASSUME OAuthInv, UNCHANGED vars
  PROVE  OAuthInv'
BY DEF OAuthInv, vars, userVars, setupVars, clientVars, TypeOK, Live, FaultsTypeOK,
       RowOK, SetupOK, Sound, Counted

(* Every step of the module keeps the invariant.                           *)
LEMMA NextHolds == OAuthInv /\ [Next]_vars => OAuthInv'
<1> SUFFICES ASSUME OAuthInv, [Next]_vars PROVE OAuthInv'
  OBVIOUS
<1>1. CASE Exchange \/ SetupStep \/ SetupDies
  BY <1>1, ExchangeHolds, FindUserHolds, SetupEndHolds DEF SetupStep
<1>2. ASSUME NEW c \in Clients, ClientStep(c) \/ TokenAgain(c) PROVE OAuthInv'
  BY <1>2, NewHolds, RefreshHolds, SaveHolds, FailHolds DEF ClientStep
<1>3. ASSUME NEW c \in Clients, CloseClient(c) \/ ClientExpires(c) \/ ClientDies(c)
      PROVE  OAuthInv'
  BY <1>3, EndHolds, ExpiresHolds
<1>4. CASE RowExpires \/ DeleteUser \/ \E g \in Grants : GrantEnds(g)
  BY <1>4, AgeingHolds, DeleteHolds
<1> QED BY <1>1, <1>2, <1>3, <1>4, StutterHolds DEF Next

-----------------------------------------------------------------------------
(* The rows, oauth-setup and the clients keep their types, and a client    *)
(* that is live holds a token (token.go:65-87).                            *)
THEOREM OAuthTypeCorrect == Spec => []TypeOK
<1>1. OAuthInv => TypeOK
  BY DEF OAuthInv
<1> QED BY <1>1, InitHolds, NextHolds, PTL DEF Spec

(* The saved access and refresh token are of one grant (oauth.go:14).      *)
THEOREM SavedTokenWhole == Spec => []HalvesMatch
<1>1. OAuthInv => HalvesMatch
  BY DEF OAuthInv, RowOK, HalvesMatch
<1> QED BY <1>1, InitHolds, NextHolds, PTL DEF Spec

(* No client brings back the grant of a deleted user, whatever it saves    *)
(* and however often the account is set up again (token.go:75, users.go:14,*)
(* the foreign key of oauth_tokens).                                       *)
THEOREM DeletedStaysDeleted == Spec => []NoRevenant
<1>1. OAuthInv => NoRevenant
  BY DEF OAuthInv, RowOK, NoRevenant
<1> QED BY <1>1, InitHolds, NextHolds, PTL DEF Spec

(* No process seals the row with a key other than that of oauth-setup,     *)
(* since it would have had to open it first (token.go:14, crypto.go).      *)
THEOREM RowStaysReadable == Spec => []RowReadable
<1>1. OAuthInv => RowReadable
  BY DEF OAuthInv, RowOK, RowReadable
<1> QED BY <1>1, InitHolds, NextHolds, PTL DEF Spec

(* A token is used by a request only after it has been saved               *)
(* (token.go:75-87), through failed saves and retried requests.            *)
THEOREM UsedAfterSaved == Spec => []SavedFirst
<1>1. OAuthInv => SavedFirst
  BY DEF OAuthInv, Counted, SavedFirst, InUse
<1> QED BY <1>1, InitHolds, NextHolds, PTL DEF Spec
=============================================================================
