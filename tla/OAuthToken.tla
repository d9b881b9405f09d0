----------------------------- MODULE OAuthToken -----------------------------
(***************************************************************************)
(* One account's OAuth token: the rows of users and oauth_tokens, the      *)
(* operator's oauth-setup, and the clients of Gmail and Drive that load    *)
(* the token, refresh it and save it back, one client per job, poll or     *)
(* import, in any process.                                                 *)
(*                                                                         *)
(* A consent at Google makes a grant, whose refresh token yields access    *)
(* tokens.  Of an access token a holder keeps the grant it was issued      *)
(* under and whether its expiry has come, by the holder's own clock.  The  *)
(* library's sources around the saving source cache what the saving source *)
(* handed out.  The name of a grant that nobody holds is used again.       *)
(***************************************************************************)
EXTENDS Faults

CONSTANTS Clients,
          KeyOf,        \* the TOKEN_ENCRYPTION_KEY of each client's process
          SetupKey,     \* that of oauth-setup
          MaxGrants,    \* bound on the grants held at a time
          None

Grants == 1..MaxGrants

Token == [access : Grants, fresh : BOOLEAN, refresh : Grants]
Row == [user : Nat, key : STRING, access : Grants, fresh : BOOLEAN,
        refresh : Grants]

ASSUME OAuthAssumption ==
  /\ MaxGrants \in Nat
  /\ None \notin Token /\ None \notin Row
  /\ KeyOf \in [Clients -> STRING] /\ SetupKey \in STRING

VARIABLES user,       \* the id of the account's row in users, 0 if it has none
          created,    \* how many ids were ever drawn for it
          row,        \* its row in oauth_tokens
          spc,        \* where oauth-setup is
          suser,      \* the user id it has found
          stok,       \* the token it has exchanged
          cpc,        \* where each client is in Token()
          cuser,      \* the user id it was built for
          base,       \* the token of its refreshing source
          seen,       \* whether the saving source has seen that token last
          stored,     \* whether that token was ever in the table
          ended,      \* the grants revoked or expired
          outcast     \* the grants of users since deleted

userVars == <<user, created>>
setupVars == <<spc, suser, stok>>
clientVars == <<cpc, cuser, base, seen, stored>>
vars == <<userVars, row, setupVars, clientVars, ended, outcast, faults>>

Init ==
  /\ user = 0 /\ created = 0 /\ row = None
  /\ spc = "idle" /\ suser = 0 /\ stok = None
  /\ cpc = [c \in Clients |-> "none"] /\ cuser = [c \in Clients |-> 0]
  /\ base = [c \in Clients |-> None]
  /\ seen = [c \in Clients |-> FALSE] /\ stored = [c \in Clients |-> FALSE]
  /\ ended = {} /\ outcast = {}
  /\ faults = 0

-----------------------------------------------------------------------------
(* Google.                                                                 *)

Issued(g) == [access |-> g, fresh |-> TRUE, refresh |-> g]

Live(c) == cpc[c] # "none"
ClientGrants == {base[c].refresh : c \in {d \in Clients : Live(d)}}
RowGrants == IF row = None THEN {} ELSE {row.refresh}
SetupGrants == IF stok = None THEN {} ELSE {stok.refresh}
HeldGrants == ClientGrants \cup RowGrants \cup SetupGrants

(* The name of a new grant: the least that is not in use.                  *)
NewGrant(g) == g \notin HeldGrants /\ \A k \in 1..(g - 1) : k \in HeldGrants

GrantEnds(g) ==
  /\ g \in HeldGrants \ ended
  /\ Fault("grant_ended")
  /\ ended' = ended \cup {g}
  /\ UNCHANGED <<userVars, row, setupVars, clientVars, outcast>>

-----------------------------------------------------------------------------
(* The tables.                                                             *)

(* EncryptToken: both halves are sealed with the key.                      *)
SealedRow(u, key, tok) ==
  [user |-> u, key |-> key, access |-> tok.access, fresh |-> tok.fresh,
   refresh |-> tok.refresh]

(* A plausible bug: encryption that does not authenticate.                 *)
OpensAlways(r, key) == TRUE

(* DecryptToken fails with any other key.                                  *)
Opens(r, key) == r.key = key

(* A plausible bug: the refresh token is left out of the token loaded.     *)
DecryptAccessOnly(r) ==
  [access |-> r.access, fresh |-> r.fresh, refresh |-> None]

DecryptToken(r) ==
  [access |-> r.access, fresh |-> r.fresh, refresh |-> r.refresh]

(* A plausible bug: oauth_tokens does not refer to users.                  *)
UserUnchecked(u) == u # 0

(* The foreign key of oauth_tokens.                                        *)
UserExists(u) == user = u

(* Plausible bugs: the upsert keeps an old refresh_ct, or the whole row.   *)
SaveAccessOnly(u, key, tok) ==
  /\ UserExists(u)
  /\ row' = IF row = None THEN SealedRow(u, key, tok)
            ELSE [row EXCEPT !.access = tok.access, !.fresh = tok.fresh]

SaveIfAbsent(u, key, tok) ==
  /\ UserExists(u)
  /\ row' = IF row = None THEN SealedRow(u, key, tok) ELSE row

SaveOAuthToken(u, key, tok) ==
  /\ UserExists(u)
  /\ row' = SealedRow(u, key, tok)

GetOAuthToken == row # None

(* The token can be loaded: there is a row, and both halves open.          *)
LoadToken(key) == GetOAuthToken /\ Opens(row, key)

RowExpires ==
  /\ row # None /\ row.fresh
  /\ row' = [row EXCEPT !.fresh = FALSE]
  /\ UNCHANGED <<userVars, setupVars, clientVars, ended, outcast, faults>>

(* The operator's DELETE FROM users, which cascades to oauth_tokens.       *)
DeleteUser ==
  /\ user # 0
  /\ Fault("user_deleted")
  /\ user' = 0 /\ row' = None
  /\ outcast' = outcast \cup ClientGrants \cup RowGrants
  /\ UNCHANGED <<created, setupVars, clientVars, ended>>

-----------------------------------------------------------------------------
(* oauth-setup.  A callback that does not come, or comes with the wrong    *)
(* state or without a code, ends it before it has changed anything.        *)

SetupEnds == spc' = "idle" /\ suser' = 0 /\ stok' = None

(* Each consent gives a new refresh token (ApprovalForce).                 *)
Exchange ==
  /\ spc = "idle"
  /\ \E g \in Grants :
       /\ NewGrant(g)
       /\ stok' = Issued(g)
       /\ ended' = ended \ {g} /\ outcast' = outcast \ {g}
  /\ spc' = "exchanged"
  /\ UNCHANGED <<userVars, row, suser, clientVars, faults>>

GetUserByEmail == user # 0

CreateUser == user' = created + 1 /\ created' = created + 1

FindUser ==
  /\ spc = "exchanged"
  /\ \/ GetUserByEmail /\ UNCHANGED userVars
     \/ ~GetUserByEmail /\ CreateUser
  /\ suser' = user'
  /\ spc' = "found"
  /\ UNCHANGED <<row, stok, clientVars, ended, outcast, faults>>

SetupSave ==
  /\ spc = "found"
  /\ \/ SaveOAuthToken(suser, SetupKey, stok)
     \/ ~UserExists(suser) /\ UNCHANGED row
  /\ SetupEnds
  /\ UNCHANGED <<userVars, clientVars, ended, outcast, faults>>

(* log.Fatalf, or the operator interrupts it.                              *)
SetupDies ==
  /\ spc # "idle"
  /\ Fault("crash")
  /\ SetupEnds
  /\ UNCHANGED <<userVars, row, clientVars, ended, outcast>>

-----------------------------------------------------------------------------
(* A client: gmail.New, drive.New or fetchInitialHistoryID build it, and   *)
(* every request asks it for a token.                                      *)

(* A request finds a token without another step.                           *)
InUse(c) == cpc[c] = "ready" /\ base[c].fresh

(* Google refuses the refresh: invalid_grant.                              *)
Refused(c) == cpc[c] = "ready" /\ ~base[c].fresh /\ base[c].refresh \in ended

ClientEnds(c) ==
  /\ cpc' = [cpc EXCEPT ![c] = "none"]
  /\ cuser' = [cuser EXCEPT ![c] = 0]
  /\ base' = [base EXCEPT ![c] = None]
  /\ seen' = [seen EXCEPT ![c] = FALSE]
  /\ stored' = [stored EXCEPT ![c] = FALSE]

(* A plausible bug: a row that has expired is not loaded.                  *)
NewClientIfFresh(c) ==
  /\ cpc[c] = "none"
  /\ LoadToken(KeyOf[c]) /\ row.fresh
  /\ cpc' = [cpc EXCEPT ![c] = "ready"]
  /\ cuser' = [cuser EXCEPT ![c] = row.user]
  /\ base' = [base EXCEPT ![c] = DecryptToken(row)]
  /\ seen' = [seen EXCEPT ![c] = TRUE]
  /\ stored' = [stored EXCEPT ![c] = TRUE]
  /\ UNCHANGED <<userVars, row, setupVars, ended, outcast, faults>>

NewClient(c) ==
  /\ cpc[c] = "none"
  /\ LoadToken(KeyOf[c])
  /\ cpc' = [cpc EXCEPT ![c] = "ready"]
  /\ cuser' = [cuser EXCEPT ![c] = row.user]
  /\ base' = [base EXCEPT ![c] = DecryptToken(row)]
  /\ seen' = [seen EXCEPT ![c] = TRUE]
  /\ stored' = [stored EXCEPT ![c] = TRUE]
  /\ UNCHANGED <<userVars, row, setupVars, ended, outcast, faults>>

(* An access token outlives the statement that saves it.                   *)
ClientExpires(c) ==
  /\ cpc[c] \in {"ready", "failed"} /\ base[c].fresh
  /\ base' = [base EXCEPT ![c].fresh = FALSE]
  /\ UNCHANGED <<userVars, row, setupVars, cpc, cuser, seen, stored, ended,
                 outcast, faults>>

(* Google answers with an access token only; the library keeps the         *)
(* refresh token.  The saving source has not seen the new one.             *)
Refresh(c) ==
  /\ cpc[c] \in {"ready", "failed"}
  /\ ~base[c].fresh /\ base[c].refresh \notin ended
  /\ base' = [base EXCEPT ![c] = Issued(base[c].refresh)]
  /\ seen' = [seen EXCEPT ![c] = FALSE]
  /\ stored' = [stored EXCEPT ![c] = FALSE]
  /\ cpc' = [cpc EXCEPT ![c] = "saving"]
  /\ UNCHANGED <<userVars, row, setupVars, cuser, ended, outcast, faults>>

SaveToken(c) ==
  /\ cpc[c] = "saving"
  /\ SaveOAuthToken(cuser[c], KeyOf[c], base[c])
  /\ seen' = [seen EXCEPT ![c] = TRUE]
  /\ stored' = [stored EXCEPT ![c] = TRUE]
  /\ cpc' = [cpc EXCEPT ![c] = "ready"]
  /\ UNCHANGED <<userVars, setupVars, cuser, base, ended, outcast, faults>>

(* A plausible bug: the token counts as seen before it is saved.           *)
SaveFailsSeen(c) ==
  /\ cpc[c] = "saving"
  /\ \/ ~UserExists(cuser[c]) /\ UNCHANGED faults
     \/ Fault("db_error")
  /\ cpc' = [cpc EXCEPT ![c] = "failed"]
  /\ seen' = [seen EXCEPT ![c] = TRUE]
  /\ UNCHANGED <<userVars, row, setupVars, cuser, base, stored, ended, outcast>>

(* Token() returns the error, and has not seen the token.                  *)
SaveFails(c) ==
  /\ cpc[c] = "saving"
  /\ \/ ~UserExists(cuser[c]) /\ UNCHANGED faults
     \/ Fault("db_error")
  /\ cpc' = [cpc EXCEPT ![c] = "failed"]
  /\ UNCHANGED <<userVars, row, setupVars, cuser, base, seen, stored, ended,
                 outcast>>

(* The request is retried, and the refreshing source still has its token.  *)
TokenAgain(c) ==
  /\ cpc[c] = "failed" /\ base[c].fresh
  /\ cpc' = [cpc EXCEPT ![c] = IF seen[c] THEN "ready" ELSE "saving"]
  /\ UNCHANGED <<userVars, row, setupVars, cuser, base, seen, stored, ended,
                 outcast, faults>>

(* The job, poll or import is over, or fails for want of a token.          *)
CloseClient(c) ==
  /\ InUse(c) \/ Refused(c) \/ cpc[c] = "failed"
  /\ ClientEnds(c)
  /\ UNCHANGED <<userVars, row, setupVars, ended, outcast, faults>>

ClientDies(c) ==
  /\ Live(c)
  /\ Fault("crash")
  /\ ClientEnds(c)
  /\ UNCHANGED <<userVars, row, setupVars, ended, outcast>>

-----------------------------------------------------------------------------
SetupStep == FindUser \/ SetupSave

ClientStep(c) == NewClient(c) \/ Refresh(c) \/ SaveToken(c) \/ SaveFails(c)

Next ==
  \/ Exchange \/ SetupStep \/ SetupDies
  \/ \E c \in Clients : \/ ClientStep(c) \/ TokenAgain(c) \/ CloseClient(c)
                        \/ ClientExpires(c) \/ ClientDies(c)
  \/ RowExpires \/ DeleteUser
  \/ \E g \in Grants : GrantEnds(g)

Spec == Init /\ [][Next]_vars

-----------------------------------------------------------------------------
(***************************************************************************)
(* Properties.                                                             *)
(***************************************************************************)
Authorised == row # None /\ row.refresh \notin ended /\ row.key = SetupKey

(* Jobs and polls go on, and the operator runs oauth-setup again when the  *)
(* saved token no longer works.  An error of Token() that is not transient *)
(* ends the request, and the client with it.                               *)
Fairness ==
  /\ WF_vars(~Authorised /\ Exchange) /\ WF_vars(SetupStep)
  /\ \A c \in Clients : WF_vars(ClientStep(c)) /\ SF_vars(CloseClient(c))

FairSpec == Spec /\ Fairness

(* The types of the rows, of oauth-setup and of the clients: in particular *)
(* both halves of a token are there as long as its holder keeps it         *)
(* (token.go:57), and a client that runs has one.                          *)
TypeOK ==
  /\ user \in Nat /\ created \in Nat
  /\ row \in Row \cup {None}
  /\ spc \in {"idle", "exchanged", "found"} /\ suser \in Nat
  /\ stok \in Token \cup {None}
  /\ spc = "idle" <=> stok = None
  /\ cpc \in [Clients -> {"none", "ready", "saving", "failed"}]
  /\ cuser \in [Clients -> Nat]
  /\ base \in [Clients -> Token \cup {None}]
  /\ \A c \in Clients : Live(c) <=> base[c] # None
  /\ seen \in [Clients -> BOOLEAN] /\ stored \in [Clients -> BOOLEAN]
  /\ ended \subseteq Grants /\ outcast \subseteq Grants
  /\ FaultsTypeOK

(* The two halves of the saved token are of one grant, whoever saves and   *)
(* whenever the operator consents again (oauth.go:14).                     *)
HalvesMatch == row # None => row.access = row.refresh

(* The grant of a deleted user does not come back, not even when the       *)
(* account is set up again while a client of the deleted user goes on      *)
(* refreshing and saving (token.go:75, oauth.go:14, users.go:14).          *)
NoRevenant ==
  row # None => row.user = user /\ row.refresh \notin outcast

(* Whoever saves, oauth-setup's key opens the row: a process with another  *)
(* key never gets to save (token.go:14).                                   *)
RowReadable == row # None => row.key = SetupKey

(* A request carries no token that was not saved first (token.go:75).      *)
SavedFirst == \A c \in Clients : InUse(c) => stored[c]

(* Once grants stop ending, the saved token is of a live one for good,     *)
(* although a late save may bring an ended grant back once more            *)
(* (token.go:80).                                                          *)
EventuallyAuthorised == <>[]Authorised

(* Every process with the right key gets a token again and again           *)
(* (token.go:75, client.go:39).                                            *)
EveryoneServed ==
  \A c \in Clients : KeyOf[c] = SetupKey => []<>InUse(c)
=============================================================================
