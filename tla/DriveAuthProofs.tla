-------------------------- MODULE DriveAuthProofs --------------------------
(***************************************************************************)
(* Proofs about SignIn and DriveAuth, for any users, clients, hosts, flows *)
(* and limits.  Sessions and credentials have an inductive invariant each; *)
(* the second needs the types of the first only for who signs in.          *)
(***************************************************************************)
EXTENDS DriveAuth, TLAPS

(* A user off the list holds no cookie signed after leaving it.  One whose *)
(* sign-in overtook the removal left within the tick, because a tick is    *)
(* longer than a request.                                                  *)
SessionInv ==
  /\ clock \in Times
  /\ allowed \subseteq Users
  /\ issued \in [Users -> Times \cup {NoCookie}]
  /\ checking \subseteq Users
  /\ leftAt \in [Users -> Times]
  /\ \A u \in Users : issued[u] # NoCookie => issued[u] <= clock
  /\ \A u \in Users \ allowed : issued[u] # NoCookie => issued[u] <= leftAt[u]
  /\ \A u \in checking \ allowed : leftAt[u] = clock

Stages == {"idle", "refresh", "consent", "exchange", "save"}

CredentialTypes ==
  /\ row # NoToken => row \in [grant : Numbers, fresh : BOOLEAN, by : Names]
  /\ file \in [Hosts -> Tokens \cup {NoToken}]
  /\ client \in [Clients -> [at : Stages, tok : Tokens \cup {NoToken},
                             by : Names, flow : Flows \cup {NoFlow}]]
  /\ \A p \in Clients : client[p].at \in {"refresh", "save"} => client[p].tok \in Tokens
  /\ \A p \in Clients : client[p].at = "exchange" => client[p].flow \in Flows
  /\ flows \in [Flows -> {"unused", "pending", "gone"}]
  /\ grants \in Seq([by : Names, flow : Flows \cup {NoFlow}])
  /\ Len(grants) <= MaxGrants
  /\ dead \subseteq 1 .. Len(grants)

(* What is taken to Google, or was, is no longer kept for a callback. *)
FlowInv ==
  /\ \A p \in Clients : client[p].at = "consent" => client[p].flow = NoFlow
  /\ \A p \in Clients : client[p].at = "exchange" => flows[client[p].flow] = "gone"
  /\ \A g \in 1 .. Len(grants) :
       grants[g].flow # NoFlow => flows[grants[g].flow] = "gone"
  /\ RedeemedOnce

(* A user's name travels with the grant that user gave. *)
NameInv ==
  /\ \A p \in Clients : client[p].at = "save" /\ client[p].by \in Users =>
       /\ client[p].tok.grant \in 1 .. Len(grants)
       /\ grants[client[p].tok.grant].by = client[p].by
  /\ row # NoToken /\ row.by \in Users =>
       /\ row.grant \in 1 .. Len(grants)
       /\ grants[row.grant].by = row.by

CredentialInv == CredentialTypes /\ FlowInv /\ NameInv
-----------------------------------------------------------------------------
LEMMA SessionInit == SignInInit => SessionInv
BY SignInAssumption DEF SignInInit, SessionInv, Times

LEMMA SignInStep == SessionInv /\ SignInNext => SessionInv'
<1> SUFFICES ASSUME SessionInv, SignInNext PROVE SessionInv'
  OBVIOUS
<1> USE SignInAssumption DEF SessionInv, Times
<1>1. CASE Tick
  BY <1>1 DEF Tick
<1>2. ASSUME NEW u \in Users, AddUser(u) PROVE SessionInv'
  BY <1>2 DEF AddUser
<1>3. ASSUME NEW u \in Users, RemoveUser(u) PROVE SessionInv'
  <2>1. leftAt' \in [Users -> Times] /\ leftAt'[u] = clock
    BY <1>3 DEF RemoveUser
  <2>2. \A v \in Users \ {u} : leftAt'[v] = leftAt[v]
    BY <1>3 DEF RemoveUser
  <2> QED
    BY <1>3, <2>1, <2>2 DEF RemoveUser
<1>4. ASSUME NEW u \in Users, AuthCheck(u) PROVE SessionInv'
  BY <1>4 DEF AuthCheck
<1>5. ASSUME NEW u \in Users, SignInUser(u) PROVE SessionInv'
  <2>1. issued' \in [Users -> Times \cup {NoCookie}] /\ issued'[u] = clock
    BY <1>5 DEF SignInUser
  <2>2. \A v \in Users \ {u} : issued'[v] = issued[v]
    BY <1>5 DEF SignInUser
  <2>3. u \notin allowed => leftAt[u] = clock
    BY <1>5 DEF SignInUser
  <2> QED
    BY <1>5, <2>1, <2>2, <2>3 DEF SignInUser
<1> QED
  BY <1>1, <1>2, <1>3, <1>4, <1>5 DEF SignInNext

LEMMA RestartStep == SessionInv /\ RestartSessions => SessionInv'
<1> SUFFICES ASSUME SessionInv, RestartSessions PROVE SessionInv'
  OBVIOUS
<1> USE SignInAssumption DEF SessionInv, Times, RestartSessions
<1>1. CASE FixedSecret
  BY <1>1
<1>2. CASE ~FixedSecret
  BY <1>2
<1> QED
  BY <1>1, <1>2

LEMMA SessionFrame == SessionInv /\ UNCHANGED sessions => SessionInv'
BY DEF SessionInv, sessions

LEMMA SessionStep == SessionInv /\ [DriveAuthNext]_dvars => SessionInv'
<1> SUFFICES ASSUME SessionInv, [DriveAuthNext]_dvars PROVE SessionInv'
  OBVIOUS
<1>1. CASE SignInNext
  BY <1>1, SignInStep
<1>2. CASE Restart
  BY <1>2, RestartStep DEF Restart
<1>3. CASE UNCHANGED sessions
  BY <1>3, SessionFrame
<1>4. CASE UNCHANGED dvars
  BY <1>4, SessionFrame DEF dvars
<1>5. ASSUME Expire \/ (\E g \in Numbers : Revoke(g)) \/ (\E f \in Flows : DriveAuthStart(f))
      PROVE UNCHANGED sessions
  BY <1>5 DEF Expire, Revoke, DriveAuthStart
<1>6. ASSUME NEW p \in Clients,
             \/ UseStale(p) \/ UseNone(p) \/ Refreshed(p) \/ Granted(p) \/ Refused(p)
             \/ SaveToRow(p) \/ SaveToFile(p)
             \/ \E u \in Users, f \in Flows : DriveAuthCallback(p, u, f)
      PROVE UNCHANGED sessions
  BY <1>6 DEF UseStale, UseNone, Refreshed, Granted, Refused, SaveToRow, SaveToFile,
              DriveAuthCallback
<1> QED
  BY <1>1, <1>2, <1>3, <1>4, <1>5, <1>6 DEF DriveAuthNext

LEMMA SessionsHold == DriveAuthSpec => []SessionInv
<1>1. DriveAuthInit => SessionInv
  BY SessionInit DEF DriveAuthInit
<1> QED
  BY <1>1, SessionStep, PTL DEF DriveAuthSpec

(* Whoever has left the list is served for MaxAge more and no longer: the  *)
(* list is read at sign-in only (auth.is_allowed), the age at each request *)
(* (auth.current_user).                                                    *)
THEOREM LeaversAreOut == DriveAuthSpec => []AccessEnds
<1>1. SessionInv => AccessEnds
  BY SignInAssumption DEF SessionInv, AccessEnds, Served, InDate, Times
<1> QED
  BY <1>1, SessionsHold, PTL
-----------------------------------------------------------------------------
(* Where a client may be left by a step that puts it nowhere new.          *)
Places == [at : Stages, tok : Tokens \cup {NoToken},
           by : Names, flow : Flows \cup {NoFlow}]

LEMMA IdlePlace == Idle \in Places
BY DEF Idle, Places, Stages, Names

LEMMA CredentialInit == DriveAuthInit => CredentialInv
<1> SUFFICES ASSUME DriveAuthInit PROVE CredentialInv
  OBVIOUS
<1>1. \A p \in Clients : client[p] = Idle
  BY DEF DriveAuthInit
<1>2. CredentialTypes
  BY <1>1, IdlePlace, DriveAuthAssumption
  DEF DriveAuthInit, CredentialTypes, Places, Idle
<1>3. FlowInv
  BY <1>1 DEF DriveAuthInit, FlowInv, RedeemedOnce, Idle
<1>4. NameInv
  BY <1>1 DEF DriveAuthInit, NameInv, Idle
<1> QED
  BY <1>2, <1>3, <1>4 DEF CredentialInv

LEMMA GrantShape ==
  ASSUME CredentialTypes
  PROVE  \A g \in 1 .. Len(grants) : grants[g].flow \in Flows \cup {NoFlow}
<1> DEFINE Grant == [by : Names, flow : Flows \cup {NoFlow}]
<1>1. grants \in Seq(Grant)
  BY DEF CredentialTypes
<1>2. \A x \in Grant : x.flow \in Flows \cup {NoFlow}
  OBVIOUS
<1> HIDE DEF Grant
<1>3. \A g \in 1 .. Len(grants) : grants[g] \in Grant
  BY <1>1
<1> QED
  BY <1>2, <1>3

(* The steps of a client that only move it along: no token is stored, no   *)
(* flow taken, no consent given.                                           *)
LEMMA MovedAlong ==
  ASSUME CredentialInv, NEW p \in Clients, NEW to \in Places,
         client' = [client EXCEPT ![p] = to],
         UNCHANGED <<row, file, flows, grants, dead>>,
         to.at \in {"refresh", "save"} => to.tok \in Tokens,
         to.at # "exchange",
         to.at = "consent" => to.flow = NoFlow,
         to.at = "save" => to.by \notin Users
  PROVE  CredentialInv'
<1> USE DEF CredentialInv
<1>1. client'[p] = to /\ \A q \in Clients \ {p} : client'[q] = client[q]
  BY DEF CredentialTypes
<1>2. CredentialTypes'
  <2>1. client' \in [Clients -> Places]
    BY DEF CredentialTypes, Places
  <2> QED
    BY <1>1, <2>1 DEF CredentialTypes, Places
<1>3. FlowInv'
  BY <1>1 DEF FlowInv, RedeemedOnce
<1>4. NameInv'
  BY <1>1 DEF NameInv
<1> QED
  BY <1>2, <1>3, <1>4

LEMMA UseStaleStep ==
  ASSUME CredentialInv, NEW p \in Clients, UseStale(p) PROVE CredentialInv'
<1>1. PICK t \in Loadable(HostOf[p]) :
        t # NoToken /\ Move(p, "refresh", t, "refresh", NoFlow)
  BY DEF UseStale
<1>2. t \in Tokens
  BY <1>1, DriveAuthAssumption
  DEF CredentialInv, CredentialTypes, Loadable, TokenIn, Tokens
<1> DEFINE to == [at |-> "refresh", tok |-> t, by |-> "refresh", flow |-> NoFlow]
<1>3. to \in Places /\ client' = [client EXCEPT ![p] = to]
  BY <1>1, <1>2 DEF Move, Places, Stages, Names
<1>4. UNCHANGED <<row, file, flows, grants, dead>>
  BY DEF UseStale
<1> HIDE DEF to
<1>5. to.at = "refresh" /\ to.tok \in Tokens
  BY <1>2 DEF to
<1> QED
  BY <1>3, <1>4, <1>5, MovedAlong

LEMMA UseNoneStep ==
  ASSUME CredentialInv, NEW p \in Clients, UseNone(p) PROVE CredentialInv'
<1> DEFINE to == [at |-> "consent", tok |-> NoToken, by |-> "cli", flow |-> NoFlow]
<1>1. to \in Places /\ client' = [client EXCEPT ![p] = to]
  BY DEF UseNone, Move, Places, Stages, Names
<1>2. UNCHANGED <<row, file, flows, grants, dead>>
  BY DEF UseNone
<1>3. to.at = "consent" /\ to.flow = NoFlow
  OBVIOUS
<1> HIDE DEF to
<1> QED
  BY <1>1, <1>2, <1>3, MovedAlong

LEMMA RefreshedStep ==
  ASSUME CredentialInv, NEW p \in Clients, Refreshed(p) PROVE CredentialInv'
<1> DEFINE tok == [client[p].tok EXCEPT !.fresh = TRUE]
           to  == [at |-> "save", tok |-> tok, by |-> "refresh", flow |-> NoFlow]
<1>1. tok \in Tokens
  BY DEF Refreshed, CredentialInv, CredentialTypes, Tokens
<1>2. to \in Places /\ client' = [client EXCEPT ![p] = to]
  BY <1>1 DEF Refreshed, Move, Places, Stages, Names
<1>3. UNCHANGED <<row, file, flows, grants, dead>>
  BY DEF Refreshed
<1>4. to.at = "save" /\ to.tok \in Tokens /\ to.by \notin Users
  BY <1>1, DriveAuthAssumption
<1> HIDE DEF to
<1> QED
  BY <1>2, <1>3, <1>4, MovedAlong

LEMMA RefusedStep ==
  ASSUME CredentialInv, NEW p \in Clients, Refused(p) PROVE CredentialInv'
<1>1. client' = [client EXCEPT ![p] = Idle] /\ UNCHANGED <<row, file, flows, grants, dead>>
  BY DEF Refused
<1>2. Idle.at = "idle"
  BY DEF Idle
<1> QED
  BY <1>1, <1>2, IdlePlace, MovedAlong

(* A consent: the new grant is the one its giver's client will save.       *)
LEMMA GrantedStep ==
  ASSUME CredentialInv, NEW p \in Clients, Granted(p) PROVE CredentialInv'
<1> USE DEF CredentialInv
<1> DEFINE gift == [by |-> client[p].by, flow |-> client[p].flow]
           tok  == [grant |-> Len(grants) + 1, fresh |-> TRUE]
           to   == [at |-> "save", tok |-> tok, by |-> client[p].by, flow |-> NoFlow]
<1>1. gift \in [by : Names, flow : Flows \cup {NoFlow}]
  BY DEF CredentialTypes
<1>2. /\ grants' = Append(grants, gift)
      /\ client' = [client EXCEPT ![p] = to]
      /\ UNCHANGED <<row, file, flows, dead>>
      /\ client[p].at \in {"consent", "exchange"}
      /\ Len(grants) < MaxGrants
  BY DEF Granted, Move
<1>3. /\ grants' \in Seq([by : Names, flow : Flows \cup {NoFlow}])
      /\ Len(grants') = Len(grants) + 1
      /\ \A g \in 1 .. Len(grants) : grants'[g] = grants[g]
      /\ grants'[Len(grants) + 1] = gift
      /\ Len(grants) \in Nat
  BY <1>1, <1>2 DEF CredentialTypes
<1>4. client'[p] = to /\ \A q \in Clients \ {p} : client'[q] = client[q]
  BY <1>2 DEF CredentialTypes
<1>5. tok \in Tokens
  BY <1>2, <1>3, DriveAuthAssumption DEF Tokens, Numbers
<1>6. CredentialTypes'
  <2>1. to \in Places
    BY <1>5 DEF CredentialTypes, Places, Stages
  <2>2. client' \in [Clients -> Places]
    BY <1>2, <2>1 DEF CredentialTypes, Places
  <2>3. Len(grants') <= MaxGrants /\ dead' \subseteq 1 .. Len(grants')
    BY <1>2, <1>3, DriveAuthAssumption DEF CredentialTypes
  <2> HIDE DEF to
  <2>4. \A q \in Clients : client'[q].at \in {"refresh", "save"} => client'[q].tok \in Tokens
    <3>1. to.tok \in Tokens
      BY <1>5 DEF to
    <3> QED
      BY <1>4, <3>1 DEF CredentialTypes
  <2>5. \A q \in Clients : client'[q].at = "exchange" => client'[q].flow \in Flows
    BY <1>4 DEF CredentialTypes, to
  <2> QED
    BY <1>2, <1>3, <2>2, <2>3, <2>4, <2>5 DEF CredentialTypes, Places
<1>7. FlowInv'
  <2>1. client'[p].at = "save"
    BY <1>4
  <2>2. \A q \in Clients \ {p} : client'[q] = client[q] /\ flows' = flows
    BY <1>2, <1>4
  <2>3. gift.flow # NoFlow => client[p].at = "exchange" /\ flows[gift.flow] = "gone"
    BY <1>2 DEF FlowInv
  <2>4. \A g \in 1 .. Len(grants') :
          grants'[g].flow # NoFlow => flows'[grants'[g].flow] = "gone"
    BY <1>2, <1>3, <2>3 DEF FlowInv
  <2>5. ASSUME NEW q \in Clients, client'[q].at = "exchange"
        PROVE  /\ \A g \in 1 .. Len(grants') : grants'[g].flow # client'[q].flow
               /\ \A r \in Clients \ {q} :
                    client'[r].at = "exchange" => client'[r].flow # client'[q].flow
    <3>1. q # p /\ client'[q] = client[q]
      BY <2>1, <2>2, <2>5
    <3>2. gift.flow # client[q].flow
      <4>1. CASE client[p].at = "consent"
        BY <3>1, <2>5, <4>1, DriveAuthAssumption DEF FlowInv, CredentialTypes
      <4>2. CASE client[p].at = "exchange"
        BY <3>1, <2>5, <4>2 DEF FlowInv, RedeemedOnce
      <4> QED
        BY <1>2, <4>1, <4>2
    <3>3. \A g \in 1 .. Len(grants) : grants[g].flow # client[q].flow
      BY <3>1, <2>5 DEF FlowInv, RedeemedOnce
    <3>4. \A g \in 1 .. Len(grants') : grants'[g].flow # client'[q].flow
      BY <1>3, <3>1, <3>2, <3>3
    <3> QED
      BY <2>1, <2>2, <2>5, <3>1, <3>4 DEF FlowInv, RedeemedOnce
  <2> QED
    BY <2>1, <2>2, <2>4, <2>5 DEF FlowInv, RedeemedOnce
<1>8. NameInv'
  <2>1. /\ client'[p].tok.grant \in 1 .. Len(grants')
        /\ grants'[client'[p].tok.grant].by = client'[p].by
    BY <1>3, <1>4
  <2>2. \A q \in Clients \ {p} : client'[q].at = "save" /\ client'[q].by \in Users =>
          /\ client'[q].tok.grant \in 1 .. Len(grants')
          /\ grants'[client'[q].tok.grant].by = client'[q].by
    BY <1>3, <1>4 DEF NameInv
  <2>3. row' # NoToken /\ row'.by \in Users =>
          /\ row'.grant \in 1 .. Len(grants')
          /\ grants'[row'.grant].by = row'.by
    BY <1>2, <1>3 DEF NameInv
  <2> QED
    BY <2>1, <2>2, <2>3 DEF NameInv
<1> QED
  BY <1>6, <1>7, <1>8

LEMMA SaveToRowStep ==
  ASSUME CredentialInv, NEW p \in Clients, SaveToRow(p) PROVE CredentialInv'
<1> USE DEF CredentialInv
<1>1. /\ row' = Saved(client[p].tok, client[p].by)
      /\ client[p].at = "save"
      /\ UNCHANGED <<file, flows, grants, dead>>
      /\ client' = [client EXCEPT ![p] = Idle]
  BY DEF SaveToRow
<1>2. client'[p] = Idle /\ \A q \in Clients \ {p} : client'[q] = client[q]
  BY <1>1 DEF CredentialTypes
<1>3. Idle.at = "idle"
  BY DEF Idle
<1>4. client[p].tok \in Tokens /\ client[p].by \in Names
  BY <1>1 DEF CredentialTypes
<1>5. /\ row' \in [grant : Numbers, fresh : BOOLEAN, by : Names]
      /\ row'.grant = client[p].tok.grant
      /\ row'.by = client[p].by
  BY <1>1, <1>4 DEF Saved, Tokens
<1>6. CredentialTypes'
  <2>1. client' \in [Clients -> Places]
    BY <1>1, IdlePlace DEF CredentialTypes, Places
  <2> QED
    BY <1>1, <1>2, <1>3, <1>5, <2>1 DEF CredentialTypes, Places
<1>7. FlowInv'
  BY <1>1, <1>2, <1>3 DEF FlowInv, RedeemedOnce
<1>8. NameInv'
  BY <1>1, <1>2, <1>3, <1>5 DEF NameInv
<1> QED
  BY <1>6, <1>7, <1>8

LEMMA SaveToFileStep ==
  ASSUME CredentialInv, NEW p \in Clients, SaveToFile(p) PROVE CredentialInv'
<1> USE DEF CredentialInv
<1>1. /\ file' = [file EXCEPT ![HostOf[p]] = client[p].tok]
      /\ client[p].at = "save"
      /\ UNCHANGED <<row, flows, grants, dead>>
      /\ client' = [client EXCEPT ![p] = Idle]
  BY DEF SaveToFile
<1>2. client'[p] = Idle /\ \A q \in Clients \ {p} : client'[q] = client[q]
  BY <1>1 DEF CredentialTypes
<1>3. Idle.at = "idle"
  BY DEF Idle
<1>4. file' \in [Hosts -> Tokens \cup {NoToken}]
  BY <1>1 DEF CredentialTypes
<1>5. CredentialTypes'
  <2>1. client' \in [Clients -> Places]
    BY <1>1, IdlePlace DEF CredentialTypes, Places
  <2> QED
    BY <1>1, <1>2, <1>3, <1>4, <2>1 DEF CredentialTypes, Places
<1>6. FlowInv'
  BY <1>1, <1>2, <1>3 DEF FlowInv, RedeemedOnce
<1>7. NameInv'
  BY <1>1, <1>2, <1>3 DEF NameInv
<1> QED
  BY <1>5, <1>6, <1>7

LEMMA StartStep ==
  ASSUME CredentialInv, NEW f \in Flows, DriveAuthStart(f) PROVE CredentialInv'
<1> USE DEF CredentialInv
<1>1. /\ flows[f] = "unused" /\ flows' = [flows EXCEPT ![f] = "pending"]
      /\ UNCHANGED <<row, file, client, grants, dead>>
  BY DEF DriveAuthStart
<1>2. \A g \in Flows : flows[g] = "gone" => flows'[g] = "gone"
  BY <1>1 DEF CredentialTypes
<1>3. CredentialTypes'
  BY <1>1 DEF CredentialTypes
<1>4. FlowInv'
  <2>1. \A g \in 1 .. Len(grants) : grants[g].flow \in Flows \cup {NoFlow}
    BY GrantShape
  <2> QED
    BY <1>1, <1>2, <2>1 DEF FlowInv, RedeemedOnce, CredentialTypes
<1>5. NameInv'
  BY <1>1 DEF NameInv
<1> QED
  BY <1>3, <1>4, <1>5

(* The callback finds a state that nobody took yet: whoever takes one      *)
(* makes it "gone" in the same step.                                       *)
LEMMA CallbackStep ==
  ASSUME CredentialInv, NEW p \in Clients, NEW u \in Users, NEW f \in Flows,
         DriveAuthCallback(p, u, f)
  PROVE  CredentialInv'
<1> USE DEF CredentialInv
<1> DEFINE to == [at |-> "exchange", tok |-> NoToken, by |-> u, flow |-> f]
<1>1. /\ flows[f] = "pending" /\ flows' = [flows EXCEPT ![f] = "gone"]
      /\ client' = [client EXCEPT ![p] = to]
      /\ UNCHANGED <<row, file, grants, dead>>
  BY DEF DriveAuthCallback, Taken, Move
<1>2. client'[p] = to /\ \A q \in Clients \ {p} : client'[q] = client[q]
  BY <1>1 DEF CredentialTypes
<1>3. /\ flows'[f] = "gone"
      /\ \A g \in Flows : flows[g] = "gone" => flows'[g] = "gone" /\ g # f
  BY <1>1 DEF CredentialTypes
<1>4. CredentialTypes'
  <2>1. to \in Places
    BY DEF Places, Stages, Names
  <2>2. client' \in [Clients -> Places]
    BY <1>1, <2>1 DEF CredentialTypes, Places
  <2> QED
    BY <1>1, <1>2, <2>2 DEF CredentialTypes, Places
<1>5. FlowInv'
  <2>1. \A g \in 1 .. Len(grants) :
          /\ grants[g].flow \in Flows \cup {NoFlow}
          /\ grants[g].flow # f
    BY <1>1, GrantShape, DriveAuthAssumption DEF FlowInv
  <2>2. \A q \in Clients \ {p} : client[q].at = "exchange" =>
          client[q].flow \in Flows /\ client[q].flow # f
    BY <1>1 DEF CredentialTypes, FlowInv
  <2>3. RedeemedOnce'
    BY <1>1, <1>2, <2>1, <2>2 DEF FlowInv, RedeemedOnce
  <2>4. \A g \in 1 .. Len(grants') :
          grants'[g].flow # NoFlow => flows'[grants'[g].flow] = "gone"
    BY <1>1, <1>3, <2>1 DEF FlowInv
  <2>5. \A q \in Clients : client'[q].at = "exchange" => flows'[client'[q].flow] = "gone"
    BY <1>2, <1>3, <2>2 DEF FlowInv
  <2>6. \A q \in Clients : client'[q].at = "consent" => client'[q].flow = NoFlow
    BY <1>2 DEF FlowInv
  <2> QED
    BY <2>3, <2>4, <2>5, <2>6 DEF FlowInv
<1>6. NameInv'
  BY <1>1, <1>2 DEF NameInv
<1> QED
  BY <1>4, <1>5, <1>6

LEMMA RestartLosesFlows ==
  ASSUME CredentialInv, Restart PROVE CredentialInv'
<1> USE DEF CredentialInv
<1>1. /\ file' = [file EXCEPT ![Server] = NoToken]
      /\ flows' = [f \in Flows |-> IF flows[f] = "pending" THEN "gone" ELSE flows[f]]
      /\ client' = [p \in Clients |-> IF HostOf[p] = Server THEN Idle ELSE client[p]]
      /\ UNCHANGED <<row, grants, dead>>
  BY DEF Restart
<1>2. \A q \in Clients : client'[q] = Idle \/ client'[q] = client[q]
  BY <1>1
<1>3. Idle.at = "idle"
  BY DEF Idle
<1>4. \A g \in Flows : flows[g] = "gone" => flows'[g] = "gone"
  BY <1>1
<1>5. CredentialTypes'
  <2>1. client' \in [Clients -> Places]
    BY <1>1, IdlePlace DEF CredentialTypes, Places
  <2>2. flows' \in [Flows -> {"unused", "pending", "gone"}]
    BY <1>1 DEF CredentialTypes
  <2>3. file' \in [Hosts -> Tokens \cup {NoToken}]
    BY <1>1 DEF CredentialTypes
  <2> QED
    BY <1>1, <1>2, <1>3, <2>1, <2>2, <2>3 DEF CredentialTypes, Places
<1>6. FlowInv'
  <2>1. \A g \in 1 .. Len(grants) : grants[g].flow \in Flows \cup {NoFlow}
    BY GrantShape
  <2>2. RedeemedOnce'
    BY <1>1, <1>2, <1>3 DEF FlowInv, RedeemedOnce
  <2> QED
    BY <1>1, <1>2, <1>3, <1>4, <2>1, <2>2 DEF FlowInv, CredentialTypes
<1>7. NameInv'
  BY <1>1, <1>2, <1>3 DEF NameInv
<1> QED
  BY <1>5, <1>6, <1>7

LEMMA ExpireStep ==
  ASSUME CredentialInv, Expire PROVE CredentialInv'
<1> USE DEF CredentialInv
<1>1. UNCHANGED <<client, flows, grants, dead>>
  BY DEF Expire
<1>2. row' = IF row = NoToken THEN row ELSE [row EXCEPT !.fresh = FALSE]
  BY DEF Expire
<1>3. file' = [h \in Hosts |-> IF file[h] = NoToken THEN file[h]
                               ELSE [file[h] EXCEPT !.fresh = FALSE]]
  BY DEF Expire
<1>4. row' # NoToken =>
        /\ row # NoToken
        /\ row' \in [grant : Numbers, fresh : BOOLEAN, by : Names]
        /\ row'.grant = row.grant /\ row'.by = row.by
  BY <1>2 DEF CredentialTypes
<1>5. file' \in [Hosts -> Tokens \cup {NoToken}]
  BY <1>3 DEF CredentialTypes, Tokens
<1>6. CredentialTypes'
  BY <1>1, <1>4, <1>5 DEF CredentialTypes
<1>7. FlowInv'
  BY <1>1 DEF FlowInv, RedeemedOnce
<1>8. NameInv'
  BY <1>1, <1>4 DEF NameInv
<1> QED
  BY <1>6, <1>7, <1>8

LEMMA CredentialFrame ==
  ASSUME CredentialInv, UNCHANGED <<row, file, client, flows, grants>>,
         dead' = dead \/ \E g \in 1 .. Len(grants) : dead' = dead \cup {g}
  PROVE  CredentialInv'
BY DEF CredentialInv, CredentialTypes, FlowInv, RedeemedOnce, NameInv

LEMMA CredentialStep == CredentialInv /\ [DriveAuthNext]_dvars => CredentialInv'
<1> SUFFICES ASSUME CredentialInv, [DriveAuthNext]_dvars PROVE CredentialInv'
  OBVIOUS
<1>1. CASE UNCHANGED credentials
  BY <1>1, CredentialFrame DEF credentials
<1>2. CASE UNCHANGED dvars
  BY <1>2, CredentialFrame DEF dvars, credentials
<1>3. CASE Restart
  BY <1>3, RestartLosesFlows
<1>4. CASE Expire
  BY <1>4, ExpireStep
<1>5. ASSUME NEW g \in Numbers, Revoke(g) PROVE CredentialInv'
  BY <1>5, CredentialFrame DEF Revoke
<1>6. ASSUME NEW f \in Flows, DriveAuthStart(f) PROVE CredentialInv'
  BY <1>6, StartStep
<1>7. ASSUME NEW p \in Clients,
             \/ UseStale(p) \/ UseNone(p) \/ Refreshed(p) \/ Granted(p) \/ Refused(p)
             \/ SaveToRow(p) \/ SaveToFile(p)
      PROVE CredentialInv'
  BY <1>7, UseStaleStep, UseNoneStep, RefreshedStep, GrantedStep, RefusedStep,
     SaveToRowStep, SaveToFileStep
<1>8. ASSUME NEW p \in Clients, NEW u \in Users, NEW f \in Flows, DriveAuthCallback(p, u, f)
      PROVE CredentialInv'
  BY <1>8, CallbackStep
<1> QED
  BY <1>1, <1>2, <1>3, <1>4, <1>5, <1>6, <1>7, <1>8 DEF DriveAuthNext

LEMMA CredentialsHold == DriveAuthSpec => []CredentialInv
BY CredentialInit, CredentialStep, PTL DEF DriveAuthSpec

(* The state of sign-ins, tokens and flows is well typed. *)
THEOREM CredentialsTyped == DriveAuthSpec => []DriveAuthOK
<1>1. SessionInv => SignInOK
  BY DEF SessionInv, SignInOK
<1>2. CredentialInv /\ SignInOK => DriveAuthOK
  BY DEF CredentialInv, CredentialTypes, DriveAuthOK, Stages
<1> QED
  BY <1>1, <1>2, SessionsHold, CredentialsHold, PTL

(* However the callback is loaded again, at the same time or after a       *)
(* restart, Google is asked to redeem a flow's code once: the state is     *)
(* popped before the exchange (api.drive_auth_callback).                   *)
THEOREM CodesRedeemedOnce == DriveAuthSpec => []RedeemedOnce
<1>1. CredentialInv => RedeemedOnce
  BY DEF CredentialInv, FlowInv
<1> QED
  BY <1>1, CredentialsHold, PTL

(* A person's name in connected_by stands beside that person's consent: a  *)
(* refresh that lands late brings its own name, never somebody else's      *)
(* (store.save_token).                                                     *)
THEOREM NamesAreTheirs == DriveAuthSpec => []AttributedTruly
<1>1. CredentialInv => AttributedTruly
  BY DEF CredentialInv, NameInv, AttributedTruly
<1> QED
  BY <1>1, CredentialsHold, PTL
=============================================================================
