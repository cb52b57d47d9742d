----------------------------- MODULE DriveAuth -----------------------------
(***************************************************************************)
(* The one Drive credential everybody shares (drive/store.py and           *)
(* drive/client.py): the row of drive_credentials, which is read first,    *)
(* and a token.json on each host; requests and commands that refresh it,   *)
(* each in three steps (load, ask Google, save); and the reconnect flow of *)
(* the web app, whose callback is behind the gate of SignIn.               *)
(*                                                                         *)
(* A token is known by the grant it belongs to, numbered in the order of   *)
(* consent, and is fresh until its access token expires.  Before the       *)
(* migration has made the table, and while the database fails, every load  *)
(* and save goes to the file.                                              *)
(***************************************************************************)
EXTENDS SignIn, Sequences

CONSTANTS
  Clients,    \* requests and commands that need Drive
  Hosts,
  HostOf,     \* by client: the host it runs on
  Server,     \* the host of the web app; a restart discards its disk
  Secrets,    \* hosts with OAuth client secrets
  Browsers,   \* hosts where the consent screen of the CLI can be shown
  Flows,      \* the state parameters drawn for reconnect flows
  MaxGrants,  \* bound: consents
  NoToken,
  NoFlow

VARIABLES
  row,        \* drive_credentials, or NoToken
  file,       \* by host: token.json, or NoToken
  client,     \* by client: where it is, the token and the name it would save
  flows,      \* by state parameter: whether _auth_flows holds it
  grants,     \* history: who gave each consent, and for which flow
  dead        \* the grants Google has revoked

credentials == <<row, file, client, flows, grants, dead>>
dvars == <<sessions, credentials>>

Numbers == 1 .. MaxGrants
Tokens == [grant : Numbers, fresh : BOOLEAN]
Names == Users \cup {"cli", "refresh"}
Idle == [at |-> "idle", tok |-> NoToken, by |-> "cli", flow |-> NoFlow]

ASSUME DriveAuthAssumption ==
  /\ HostOf \in [Clients -> Hosts]
  /\ Server \in Hosts
  /\ Secrets \subseteq Hosts /\ Browsers \subseteq Hosts
  /\ MaxGrants \in Nat
  /\ Users \cap {"cli", "refresh"} = {}
  /\ NoFlow \notin Flows

DriveAuthOK ==
  /\ SignInOK
  /\ row # NoToken => row \in [grant : Numbers, fresh : BOOLEAN, by : Names]
  /\ \A h \in Hosts : file[h] # NoToken => file[h] \in Tokens
  /\ \A p \in Clients :
       /\ client[p].at \in {"idle", "refresh", "consent", "exchange", "save"}
       /\ client[p].by \in Names
       /\ client[p].at \in {"refresh", "save"} => client[p].tok \in Tokens
       /\ client[p].at = "exchange" => client[p].flow \in Flows
  /\ flows \in [Flows -> {"unused", "pending", "gone"}]
  /\ Len(grants) <= MaxGrants
  /\ dead \subseteq 1 .. Len(grants)

DriveAuthInit ==
  /\ SignInInit
  /\ row = NoToken
  /\ file = [h \in Hosts |-> NoToken]
  /\ client = [p \in Clients |-> Idle]
  /\ flows = [f \in Flows |-> "unused"]
  /\ grants = << >>
  /\ dead = {}
-----------------------------------------------------------------------------
Move(p, at, tok, by, flow) ==
  client' = [client EXCEPT ![p] = [at |-> at, tok |-> tok, by |-> by, flow |-> flow]]

TokenWithName(r) == r                                            \* mutant

TokenIn(r) == [grant |-> r.grant, fresh |-> r.fresh]

(* load_token on host h: what it may find.                                 *)
Loadable(h) == {file[h]} \cup (IF row = NoToken THEN {} ELSE {TokenIn(row)})

(* _load_credentials and credentials_status: a token that is still fresh   *)
(* is used as it is, a stale one is refreshed.                             *)
UseStale(p) ==
  /\ client[p].at = "idle"
  /\ \E t \in Loadable(HostOf[p]) :
       t # NoToken /\ ~t.fresh /\ Move(p, "refresh", t, "refresh", NoFlow)
  /\ UNCHANGED <<sessions, row, file, flows, grants, dead>>

(* build_service without any token: run_local_server, where it can be      *)
(* shown.                                                                  *)
UseNone(p) ==
  /\ client[p].at = "idle"
  /\ HostOf[p] \in Secrets \cap Browsers
  /\ NoToken \in Loadable(HostOf[p])
  /\ Move(p, "consent", NoToken, "cli", NoFlow)
  /\ UNCHANGED <<sessions, row, file, flows, grants, dead>>

(* Google answers the refresh of a grant it has not revoked.               *)
Refreshed(p) ==
  /\ client[p].at = "refresh"
  /\ client[p].tok.grant \notin dead
  /\ Move(p, "save", [client[p].tok EXCEPT !.fresh = TRUE], "refresh", NoFlow)
  /\ UNCHANGED <<sessions, row, file, flows, grants, dead>>

(* A consent, on the CLI's local server or through exchange_code.          *)
Granted(p) ==
  /\ client[p].at \in {"consent", "exchange"}
  /\ Len(grants) < MaxGrants
  /\ grants' = Append(grants, [by |-> client[p].by, flow |-> client[p].flow])
  /\ Move(p, "save", [grant |-> Len(grants) + 1, fresh |-> TRUE], client[p].by, NoFlow)
  /\ UNCHANGED <<sessions, row, file, flows, dead>>

(* Google or the user refuses: DriveAuthError, or the page that says so.   *)
Refused(p) ==
  /\ client[p].at \in {"refresh", "consent", "exchange"}
  /\ client' = [client EXCEPT ![p] = Idle]
  /\ UNCHANGED <<sessions, row, file, flows, grants, dead>>

(* Mutant: a refresh that leaves connected_by as it finds it.              *)
SavedKeepingName(tok, by) ==
  [grant |-> tok.grant, fresh |-> tok.fresh,
   by |-> IF by = "refresh" /\ row # NoToken THEN row.by ELSE by]

(* save_token: the upsert of the only row, with connected_by.              *)
Saved(tok, by) == [grant |-> tok.grant, fresh |-> tok.fresh, by |-> by]

SaveToRow(p) ==
  /\ client[p].at = "save"
  /\ row' = Saved(client[p].tok, client[p].by)
  /\ client' = [client EXCEPT ![p] = Idle]
  /\ UNCHANGED <<sessions, file, flows, grants, dead>>

SaveToFile(p) ==
  /\ client[p].at = "save"
  /\ file' = [file EXCEPT ![HostOf[p]] = client[p].tok]
  /\ client' = [client EXCEPT ![p] = Idle]
  /\ UNCHANGED <<sessions, row, flows, grants, dead>>
-----------------------------------------------------------------------------
(* The reconnect flow.  GET /api/drive/auth/start draws a state and keeps  *)
(* its verifier in this process.                                           *)
DriveAuthStart(f) ==
  /\ \E u \in Users : Served(u)
  /\ Server \in Secrets
  /\ flows[f] = "unused"
  /\ flows' = [flows EXCEPT ![f] = "pending"]
  /\ UNCHANGED <<sessions, row, file, client, grants, dead>>

TakenByLooking(f) == flows' = flows                              \* mutant

(* _auth_flows.pop(state, None)                                            *)
Taken(f) == flows' = [flows EXCEPT ![f] = "gone"]

(* The callback, by whoever is signed in when Google sends them back.      *)
DriveAuthCallback(p, u, f) ==
  /\ HostOf[p] = Server
  /\ client[p].at = "idle"
  /\ Served(u)
  /\ flows[f] = "pending"
  /\ Taken(f)
  /\ Move(p, "exchange", NoToken, u, f)
  /\ UNCHANGED <<sessions, row, file, grants, dead>>

(* The server restarts: its disk, its flows and its requests are gone.     *)
Restart ==
  /\ RestartSessions
  /\ file' = [file EXCEPT ![Server] = NoToken]
  /\ flows' = [f \in Flows |-> IF flows[f] = "pending" THEN "gone" ELSE flows[f]]
  /\ client' = [p \in Clients |-> IF HostOf[p] = Server THEN Idle ELSE client[p]]
  /\ UNCHANGED <<row, grants, dead>>

(* An hour passes, and the access tokens in store expire.                  *)
Expire ==
  LET Stale(t) == IF t = NoToken THEN t ELSE [t EXCEPT !.fresh = FALSE] IN
  /\ row' = Stale(row)
  /\ file' = [h \in Hosts |-> Stale(file[h])]
  /\ UNCHANGED <<sessions, client, flows, grants, dead>>

(* Google revokes a grant, after seven days or on the owner's demand.      *)
Revoke(g) ==
  /\ g \in 1 .. Len(grants)
  /\ dead' = dead \cup {g}
  /\ UNCHANGED <<sessions, row, file, client, flows, grants>>

DriveAuthNext ==
  \/ SignInNext /\ UNCHANGED credentials
  \/ Restart \/ Expire
  \/ \E g \in Numbers : Revoke(g)
  \/ \E f \in Flows : DriveAuthStart(f)
  \/ \E p \in Clients :
       \/ UseStale(p) \/ UseNone(p) \/ Refreshed(p) \/ Granted(p) \/ Refused(p)
       \/ SaveToRow(p) \/ SaveToFile(p)
       \/ \E u \in Users, f \in Flows : DriveAuthCallback(p, u, f)

DriveAuthSpec == DriveAuthInit /\ [][DriveAuthNext]_dvars
-----------------------------------------------------------------------------
(* When the page says that somebody connected Drive, the credential in use *)
(* is the one they consented to, although refreshes of older grants may    *)
(* land after the reconnect.                                               *)
AttributedTruly ==
  row # NoToken /\ row.by \in Users => grants[row.grant].by = row.by

(* A code is taken to Google once: no reload of the callback, in turn or   *)
(* at the same time, and no second request finds its state again.          *)
RedeemedOnce ==
  \A p \in Clients : client[p].at = "exchange" =>
    /\ \A g \in 1 .. Len(grants) : grants[g].flow # client[p].flow
    /\ \A q \in Clients \ {p} : client[q].at = "exchange" => client[q].flow # client[p].flow
=============================================================================
