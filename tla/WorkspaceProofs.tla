-------------------------- MODULE WorkspaceProofs --------------------------
(***************************************************************************)
(* Proofs about Workspace: types, and what holds of roles, invitations,    *)
(* the API key and the dashboard however the requests overlap.             *)
(***************************************************************************)
EXTENDS Workspace, TLAPS

Member == [role : Roles \union {"none"}, row : Nat]
Invitation == [state : {"absent", "open", "accepted", "expired"},
               role : Roles \union {"none"}, for : Users \union {Nothing}]

LEMMA IdleRow == IdleRequest \in RequestRow /\ IdleRequest.pc = "idle"
BY DEF IdleRequest, RequestRow, KeyRow, DashboardRow, NoKey, NoDashboard

(* What a request's own row is after each kind of step.                    *)
LEMMA Rows ==
  ASSUME TypeOK, NEW q \in Requests
  PROVE  /\ Done(q) => /\ req' \in [Requests -> RequestRow] /\ req'[q] = IdleRequest
                       /\ \A p \in Requests \ {q} : req'[p] = req[p]
         /\ \A row \in RequestRow : Hold(q, row) =>
              /\ req' \in [Requests -> RequestRow] /\ req'[q] = row
              /\ \A p \in Requests \ {q} : req'[p] = req[p]
BY IdleRow DEF TypeOK, Done, Hold

(* Those who change members or invite were admins when they were checked,  *)
(* and what they ask for is a role.                                        *)
Entitled ==
  /\ \A q \in Requests : req[q].pc # "idle" =>
       /\ req[q].op \in MemberOps \union {"invite"} => req[q].held \in {"Admin", "Owner"}
       /\ req[q].op \in {"role", "invite"} => req[q].role \in Roles
  /\ \A i \in Invites : invite[i].state = "open" => invite[i].role \in Roles

LEMMA InitType == Init => TypeOK
<1> SUFFICES ASSUME Init
             PROVE  TypeOK
  OBVIOUS
<1>1. member \in [Users -> Member]
  BY DEF Init, Member, Roles
<1>2. invite \in [Invites -> Invitation]
  BY DEF Init, Invitation, NoInvitation
<1>3. key \in KeyRow /\ dashboard \in DashboardRow
  BY DEF Init, KeyRow, DashboardRow, NoKey, NoDashboard
<1>4. /\ req \in [Requests -> RequestRow]
      /\ \A q \in Requests : req[q].pc = "idle"
  BY IdleRow DEF Init
<1>5. spent \in 0..MaxRequests /\ made \in Nat
  BY WorkspaceConstants DEF Init
<1>6. /\ grantor \in [Users \union Invites -> Roles] /\ uses \in [Invites -> Nat]
      /\ overlapped \subseteq Invites /\ steppedDown \subseteq Users
      /\ belated \subseteq Requests /\ replaced \subseteq Nat /\ crossed \in BOOLEAN
  BY DEF Init, Roles
<1> QED
  BY <1>1, <1>2, <1>3, <1>4, <1>5, <1>6 DEF TypeOK, Member, Invitation, At

LEMMA TypeStep == TypeOK /\ Entitled /\ [Next]_vars => TypeOK'
<1> SUFFICES ASSUME TypeOK, Entitled, [Next]_vars
             PROVE  TypeOK'
  OBVIOUS
<1> USE DEF people, keys, board
<1>a. /\ member \in [Users -> Member] /\ invite \in [Invites -> Invitation]
      /\ req \in [Requests -> RequestRow]
  BY DEF TypeOK, Member, Invitation
(* A step that ends its request, or leaves the requests alone.             *)
<1>b. ASSUME NEW q \in Requests, Done(q),
             member' \in [Users -> Member], invite' \in [Invites -> Invitation],
             key' \in KeyRow, dashboard' \in DashboardRow,
             made' \in Nat, spent' \in 0..MaxRequests,
             grantor' \in [Users \union Invites -> Roles], uses' \in [Invites -> Nat],
             overlapped' \subseteq Invites, steppedDown' \subseteq Users,
             belated' \subseteq Requests,
             replaced' \subseteq Nat, crossed' \in BOOLEAN
      PROVE  TypeOK'
  <2>1. /\ req' \in [Requests -> RequestRow] /\ req'[q].pc = "idle"
        /\ \A p \in Requests \ {q} : req'[p] = req[p]
    BY <1>b, Rows, IdleRow
  <2> QED  BY <1>b, <2>1 DEF TypeOK, Member, Invitation, At
(* A step that changes the row of its request.                             *)
<1>c. ASSUME NEW q \in Requests, NEW row \in RequestRow, Hold(q, row),
             UNCHANGED <<member, invite, key, dashboard, spent, grantor, uses,
                         steppedDown, belated, replaced>>,
             req[q].pc # "idle", row.op = req[q].op, row.by = req[q].by,
             row.on = req[q].on, row.op = "accept" => row.role # "none",
             made' \in Nat, overlapped' \subseteq Invites, crossed' \in BOOLEAN
      PROVE  TypeOK'
  <2>1. /\ req' \in [Requests -> RequestRow] /\ req'[q] = row
        /\ \A p \in Requests \ {q} : req'[p] = req[p]
    BY <1>c, Rows
  <2>2. \A p \in Requests :
          /\ req'[p].pc # "idle" => /\ req'[p].op \in Ops /\ req'[p].by \in Users
                                    /\ req'[p].on \in Targets(req'[p].op)
          /\ req'[p].op = "accept" /\ req'[p].pc = "fetched" => req'[p].role # "none"
    BY <1>c, <2>1 DEF TypeOK, At
  <2> QED  BY <1>c, <2>1, <2>2 DEF TypeOK, At
<1>1. ASSUME NEW q \in Requests, NEW u \in Users, NEW op \in Ops,
             NEW on \in Targets(op), NEW role \in Roles \union {"none"},
             Begin(q, u, op, on, role)
      PROVE  TypeOK'
  <2> DEFINE row == [IdleRequest EXCEPT !.pc = "begun", !.op = op, !.by = u,
                      !.held = member[u].role, !.on = on, !.role = role]
  <2>1. /\ on \in Users \union Invites \union {Nothing} /\ op \in AllOps
        /\ member[u].role \in Roles \union {"none"}
    BY <1>a, WorkspaceConstants DEF Targets, AllOps, MemberOps, Member
  <2>2. /\ row \in RequestRow /\ row.pc = "begun" /\ row.op = op /\ row.by = u
        /\ row.on = on
    BY <2>1, IdleRow DEF IdleRequest, RequestRow
  <2>3. req' = [req EXCEPT ![q] = row] /\ spent' \in 0..MaxRequests
    BY <1>1, WorkspaceConstants DEF Begin, TypeOK
  <2> HIDE DEF row
  <2>4. /\ req' \in [Requests -> RequestRow] /\ req'[q] = row
        /\ \A p \in Requests \ {q} : req'[p] = req[p]
    BY <1>a, <2>2, <2>3
  <2>5. UNCHANGED <<people, keys, board, made>>
    BY <1>1 DEF Begin
  <2> QED  BY <2>2, <2>3, <2>4, <2>5 DEF TypeOK, At
<1>2. ASSUME NEW q \in Requests, End(q) PROVE TypeOK'
  BY <1>2, <1>a, <1>b DEF End, Done, TypeOK
<1>3. ASSUME NEW q \in Requests, FetchMember(q) PROVE TypeOK'
  <2> DEFINE row == [req[q] EXCEPT !.pc = "fetched", !.row = member[req[q].on].row]
  <2>1. req[q].on \in Users /\ req[q].op # "accept" /\ req[q].pc # "idle"
    BY <1>3 DEF FetchMember, At, TypeOK, Targets, MemberOps
  <2>2. /\ row \in RequestRow /\ row.op = req[q].op /\ row.by = req[q].by
        /\ row.on = req[q].on
    BY <1>a, <2>1 DEF RequestRow, Member
  <2>3. Hold(q, row) /\ UNCHANGED <<people, keys, board, made, spent>>
    BY <1>3 DEF FetchMember
  <2> HIDE DEF row
  <2> QED  BY <1>c, <2>1, <2>2, <2>3 DEF TypeOK
<1>4. ASSUME NEW q \in Requests, SaveRole(q) PROVE TypeOK'
  <2>1. /\ req[q].on \in Users /\ req[q].role \in Roles \union {"none"}
        /\ req[q].held \in Roles \union {"none"}
    BY <1>4, <1>a DEF SaveRole, At, TypeOK, Targets, MemberOps, RequestRow
  <2>2. member' \in [Users -> Member]
    BY <1>4, <1>a, <2>1 DEF SaveRole, Member
  <2>3. req[q].held \in Roles
    BY <1>4 DEF Entitled, SaveRole, At, MemberOps, Roles
  <2>4. grantor' \in [Users \union Invites -> Roles]
    BY <1>4, <2>1, <2>3 DEF SaveRole, TypeOK
  <2> QED  BY <1>4, <1>a, <1>b, <2>2, <2>4 DEF SaveRole, TypeOK
<1>5. ASSUME NEW q \in Requests, DeleteMember(q) PROVE TypeOK'
  <2>1. req[q].on \in Users
    BY <1>5 DEF DeleteMember, At, TypeOK, Targets, MemberOps
  <2>2. member' \in [Users -> Member]
    BY <1>5, <1>a, <2>1 DEF DeleteMember, Member
  <2> QED  BY <1>5, <1>a, <1>b, <2>2 DEF DeleteMember, TypeOK
<1>6. ASSUME NEW q \in Requests, NEW for \in Users, CreateInvitation(q, for)
      PROVE  TypeOK'
  <2>1. req[q].on \in Invites /\ req[q].role \in Roles /\ req[q].held \in Roles
    BY <1>6 DEF CreateInvitation, At, TypeOK, Targets, MemberOps, Entitled, Roles
  <2>2. invite' \in [Invites -> Invitation]
    BY <1>6, <1>a, <2>1 DEF CreateInvitation, Invitation
  <2>3. grantor' \in [Users \union Invites -> Roles]
    BY <1>6, <2>1 DEF CreateInvitation, TypeOK
  <2> QED  BY <1>6, <1>a, <1>b, <2>2, <2>3 DEF CreateInvitation, TypeOK
<1>7. ASSUME NEW q \in Requests, FindInvitation(q) PROVE TypeOK'
  <2> DEFINE row == [req[q] EXCEPT !.pc = "fetched", !.role = invite[req[q].on].role]
  <2>1. /\ req[q].on \in Invites /\ req[q].pc # "idle" /\ req[q].op = "accept"
        /\ invite[req[q].on].role \in Roles
    BY <1>7 DEF FindInvitation, At, TypeOK, Targets, MemberOps, Entitled
  <2>2. /\ row \in RequestRow /\ row.op = req[q].op /\ row.by = req[q].by
        /\ row.on = req[q].on /\ row.role # "none"
    BY <1>a, <2>1, ZenonT(40) DEF RequestRow, Roles
  <2>3. /\ Hold(q, row) /\ overlapped' \subseteq Invites
        /\ UNCHANGED <<member, invite, grantor, uses, steppedDown, belated, keys,
                       board, made, spent>>
    BY <1>7, <2>1 DEF FindInvitation, TypeOK
  <2> HIDE DEF row
  <2> QED  BY <1>c, <2>1, <2>2, <2>3 DEF TypeOK
<1>8. ASSUME NEW q \in Requests, Accept(q) PROVE TypeOK'
  <2>1. req[q].on \in Invites /\ req[q].by \in Users /\ req[q].role \in Roles
    BY <1>8, <1>a DEF Accept, At, TypeOK, Targets, MemberOps, RequestRow
  <2>2. member' \in [Users -> Member]
    BY <1>8, <1>a, <2>1 DEF Accept, Member
  <2>3. invite' \in [Invites -> Invitation]
    BY <1>8, <1>a, <2>1 DEF Accept, Invitation
  <2>4. grantor' \in [Users \union Invites -> Roles] /\ uses' \in [Invites -> Nat]
    BY <1>8, <2>1 DEF Accept, TypeOK
  <2>5. steppedDown' \subseteq Users /\ belated' \subseteq Requests
    BY <1>8, <2>1 DEF Accept, NoteOwner, Changing, TypeOK
  <2> QED  BY <1>8, <1>b, <2>2, <2>3, <2>4, <2>5 DEF Accept, TypeOK
<1>9. ASSUME NEW q \in Requests, CreateKey(q) PROVE TypeOK'
  <2>1. key' \in KeyRow /\ made' \in Nat
    BY <1>9 DEF CreateKey, KeyRow, TypeOK
  <2> QED  BY <1>9, <1>a, <1>b, <2>1 DEF CreateKey, TypeOK
<1>10. ASSUME NEW q \in Requests, FetchKey(q) PROVE TypeOK'
  <2> DEFINE row == [req[q] EXCEPT !.pc = "fetched", !.key =
                       IF req[q].op = "rotate" THEN [secret |-> made + 1, revoked |-> FALSE]
                       ELSE [key EXCEPT !.revoked = TRUE]]
  <2>1. /\ req[q].pc # "idle" /\ req[q].op # "accept"
        /\ Hold(q, row) /\ made' \in Nat
        /\ UNCHANGED <<people, keys, board, spent>>
    BY <1>10 DEF FetchKey, At, TypeOK
  <2>2. /\ [secret |-> made + 1, revoked |-> FALSE] \in KeyRow
        /\ [key EXCEPT !.revoked = TRUE] \in KeyRow
    <3>1. key \in KeyRow /\ made + 1 \in Nat
      BY DEF TypeOK
    <3> QED  BY <3>1 DEF KeyRow
  <2>3. /\ row \in RequestRow /\ row.op = req[q].op /\ row.by = req[q].by
        /\ row.on = req[q].on
    BY <1>a, <2>2 DEF RequestRow
  <2> HIDE DEF row
  <2> QED  BY <1>c, <2>1, <2>3 DEF TypeOK
<1>11. ASSUME NEW q \in Requests, SaveKey(q) PROVE TypeOK'
  <2>1. req[q].key \in KeyRow /\ key \in KeyRow
    BY <1>a DEF RequestRow, TypeOK
  <2>2. key' \in KeyRow
    BY <1>11, <2>1 DEF SaveKey, KeyRow
  <2>3. replaced' \subseteq Nat
    BY <1>11, <2>1 DEF SaveKey, KeyRow, TypeOK
  <2> QED  BY <1>11, <1>a, <1>b, <2>2, <2>3 DEF SaveKey, TypeOK
<1>12. ASSUME NEW q \in Requests, NEW public \in BOOLEAN, CreateDashboard(q, public)
       PROVE  TypeOK'
  <2>1. dashboard' \in DashboardRow
    BY <1>12 DEF CreateDashboard, WithToken, NeedsToken, DashboardRow, TypeOK
  <2>2. made' \in Nat
    BY <1>12 DEF CreateDashboard, TypeOK
  <2> QED  BY <1>12, <1>a, <1>b, <2>1, <2>2 DEF CreateDashboard, TypeOK
<1>13. ASSUME NEW q \in Requests, FetchDashboard(q) PROVE TypeOK'
  <2> DEFINE row == [req[q] EXCEPT !.pc = "fetched",
                                   !.dashboard = Changed(req[q].op, dashboard)]
  <2>1. /\ req[q].pc # "idle" /\ req[q].op # "accept"
        /\ Hold(q, row) /\ crossed' \in BOOLEAN
        /\ UNCHANGED <<people, keys, dashboard, made, spent>>
    BY <1>13 DEF FetchDashboard, DashboardOps, TypeOK
  <2>2. Changed(req[q].op, dashboard) \in DashboardRow
    BY DEF TypeOK, Changed, DashboardRow
  <2>3. /\ row \in RequestRow /\ row.op = req[q].op /\ row.by = req[q].by
        /\ row.on = req[q].on
    BY <1>a, <2>2 DEF RequestRow
  <2> HIDE DEF row
  <2> QED  BY <1>c, <2>1, <2>3 DEF TypeOK
<1>14. ASSUME NEW q \in Requests, SaveDashboard(q) PROVE TypeOK'
  <2>1. req[q].dashboard \in DashboardRow /\ dashboard \in DashboardRow /\ made \in Nat
    BY <1>a DEF RequestRow, TypeOK
  <2>2. WithToken(req[q].dashboard) \in DashboardRow
    BY <2>1 DEF WithToken, DashboardRow
  <2>3. dashboard' \in DashboardRow
    BY <1>14, <2>1, <2>2 DEF SaveDashboard, DashboardRow
  <2>4. made' \in Nat
    BY <1>14, <2>1 DEF SaveDashboard
  <2> QED  BY <1>14, <1>a, <1>b, <2>3, <2>4 DEF SaveDashboard, TypeOK
<1>15. ASSUME NEW i \in Invites, Expire(i) PROVE TypeOK'
  <2>1. invite' \in [Invites -> Invitation]
    BY <1>15, <1>a DEF Expire, Invitation
  <2> QED  BY <1>15, <2>1 DEF Expire, TypeOK, Invitation, At
<1>16. CASE UNCHANGED vars
  BY <1>16 DEF vars, TypeOK, At
<1>17. ASSUME NEW q \in Requests, NEW u \in Users, NEW op \in Ops,
              NEW on \in Targets(op),
              NEW role \in IF op \in {"role", "invite"} THEN Roles ELSE {"none"},
              Begin(q, u, op, on, role)
       PROVE  TypeOK'
  BY <1>1, <1>17
<1> QED
  BY <1>2, <1>3, <1>4, <1>5, <1>6, <1>7, <1>8, <1>9, <1>10, <1>11, <1>12, <1>13,
     <1>14, <1>15, <1>16, <1>17 DEF Next, RequestStep

(* What requests hold about roles is settled when they are checked.        *)
LEMMA EntitledStep == TypeOK /\ Entitled /\ [Next]_vars => Entitled'
<1> SUFFICES ASSUME TypeOK, Entitled, [Next]_vars
             PROVE  Entitled'
  OBVIOUS
<1> USE DEF people, keys, board
<1>a. req \in [Requests -> RequestRow] /\ invite \in [Invites -> Invitation]
  BY DEF TypeOK, Invitation
<1>b. ASSUME NEW q \in Requests, Done(q), invite' = invite PROVE Entitled'
  BY <1>b, Rows, IdleRow DEF Entitled
<1>c. ASSUME NEW q \in Requests, NEW row \in RequestRow, Hold(q, row), invite' = invite,
             req[q].pc # "idle", row.op = req[q].op, row.held = req[q].held,
             row.op # "accept" => row.role = req[q].role
      PROVE  Entitled'
  <2>1. /\ req'[q] = row /\ \A p \in Requests \ {q} : req'[p] = req[p]
    BY <1>c, Rows
  <2> QED  BY <1>c, <2>1 DEF Entitled, MemberOps
<1>1. ASSUME NEW q \in Requests, NEW u \in Users, NEW op \in Ops,
             NEW on \in Targets(op),
             NEW role \in IF op \in {"role", "invite"} THEN Roles ELSE {"none"},
             Begin(q, u, op, on, role)
      PROVE  Entitled'
  <2> DEFINE row == [IdleRequest EXCEPT !.pc = "begun", !.op = op, !.by = u,
                      !.held = member[u].role, !.on = on, !.role = role]
  <2>1. row.op = op /\ row.held = member[u].role /\ row.role = role
    BY DEF IdleRequest
  <2>2. req' = [req EXCEPT ![q] = row] /\ invite' = invite
    BY <1>1 DEF Begin
  <2> HIDE DEF row
  <2>3. req'[q] = row /\ \A p \in Requests \ {q} : req'[p] = req[p]
    BY <1>a, <2>2
  <2>4. ASSUME op \in MemberOps \union {"invite"} PROVE member[u].role \in {"Admin", "Owner"}
    <3>1. Minimum(op) = "Admin"
      BY <2>4 DEF Minimum, MemberOps, DashboardOps
    <3>2. Rank[member[u].role] >= Rank["Admin"] /\ member[u].role \in Roles \union {"none"}
      BY <1>1, <2>4, <3>1 DEF Begin, Permitted, TypeOK, MemberOps
    <3>3. /\ Rank["none"] = 0 /\ Rank["Viewer"] = 10 /\ Rank["Analyst"] = 20
          /\ Rank["Admin"] = 30
      BY DEF Rank, Roles
    <3> QED  BY <3>2, <3>3 DEF Roles
  <2> QED  BY <2>1, <2>2, <2>3, <2>4 DEF Entitled
<1>2. ASSUME NEW q \in Requests,
             \/ End(q) \/ SaveRole(q) \/ DeleteMember(q) \/ CreateKey(q) \/ SaveKey(q)
             \/ (\E public \in BOOLEAN : CreateDashboard(q, public)) \/ SaveDashboard(q)
      PROVE  Entitled'
  BY <1>2, <1>b DEF End, Done, SaveRole, DeleteMember, CreateKey, SaveKey,
     CreateDashboard, SaveDashboard
<1>3. ASSUME NEW q \in Requests, FetchMember(q) PROVE Entitled'
  <2> DEFINE row == [req[q] EXCEPT !.pc = "fetched", !.row = member[req[q].on].row]
  <2>1. /\ req[q].on \in Users /\ req[q].pc # "idle"
        /\ member[req[q].on].row \in Nat
    BY <1>3 DEF FetchMember, At, TypeOK, Targets, MemberOps
  <2>2. /\ row \in RequestRow /\ row.op = req[q].op /\ row.held = req[q].held
        /\ row.role = req[q].role
    BY <1>a, <2>1 DEF RequestRow
  <2>3. Hold(q, row) /\ invite' = invite
    BY <1>3 DEF FetchMember
  <2> HIDE DEF row
  <2> QED  BY <1>c, <2>1, <2>2, <2>3
<1>4. ASSUME NEW q \in Requests, NEW for \in Users, CreateInvitation(q, for)
      PROVE  Entitled'
  <2>1. /\ req[q].role \in Roles /\ Done(q)
        /\ invite' = [invite EXCEPT ![req[q].on] =
                        [state |-> "open", role |-> req[q].role, for |-> for]]
    BY <1>4 DEF CreateInvitation, At, Entitled
  <2>2. \A i \in Invites : invite'[i].state = "open" => invite'[i].role \in Roles
    BY <1>a, <2>1 DEF Entitled
  <2> QED  BY <2>1, <2>2, Rows, IdleRow DEF Entitled
<1>5. ASSUME NEW q \in Requests, FindInvitation(q) PROVE Entitled'
  <2> DEFINE row == [req[q] EXCEPT !.pc = "fetched", !.role = invite[req[q].on].role]
  <2>1. /\ req[q].on \in Invites /\ req[q].pc # "idle" /\ req[q].op = "accept"
    BY <1>5 DEF FindInvitation, At, TypeOK, Targets, MemberOps
  <2>2. /\ row \in RequestRow /\ row.op = req[q].op /\ row.held = req[q].held
    BY <1>a, <2>1 DEF RequestRow, Invitation
  <2>3. Hold(q, row) /\ invite' = invite
    BY <1>5 DEF FindInvitation
  <2> HIDE DEF row
  <2> QED  BY <1>c, <2>1, <2>2, <2>3
<1>6. ASSUME NEW q \in Requests, Accept(q) PROVE Entitled'
  <2>1. /\ Done(q) /\ req[q].on \in Invites
        /\ invite' = [invite EXCEPT ![req[q].on] = [@ EXCEPT !.state = "accepted"]]
    BY <1>6 DEF Accept, At, TypeOK, Targets, MemberOps
  <2>2. \A i \in Invites : invite'[i].state = "open" => invite'[i].role \in Roles
    BY <1>a, <2>1 DEF Entitled, Invitation
  <2> QED  BY <2>1, <2>2, Rows, IdleRow DEF Entitled
<1>7. ASSUME NEW q \in Requests, FetchKey(q) \/ FetchDashboard(q) PROVE Entitled'
  <2>1. /\ req'[q].op = req[q].op /\ req'[q].held = req[q].held
        /\ req'[q].role = req[q].role /\ req[q].pc # "idle"
        /\ \A p \in Requests \ {q} : req'[p] = req[p]
    BY <1>7, <1>a, ZenonT(40) DEF FetchKey, FetchDashboard, Hold, At, RequestRow
  <2>2. invite' = invite
    BY <1>7 DEF FetchKey, FetchDashboard
  <2> QED  BY <2>1, <2>2 DEF Entitled
<1>8. ASSUME NEW i \in Invites, Expire(i) PROVE Entitled'
  <2>1. \A j \in Invites : invite'[j].state = "open" => invite'[j].role \in Roles
    BY <1>8, <1>a DEF Expire, Entitled, Invitation
  <2> QED  BY <1>8, <2>1 DEF Expire, Entitled
<1>9. CASE UNCHANGED vars
  BY <1>9 DEF vars, Entitled
<1> QED
  BY <1>1, <1>2, <1>3, <1>4, <1>5, <1>6, <1>7, <1>8, <1>9 DEF Next, RequestStep

LEMMA Entitlement == Spec => [](TypeOK /\ Entitled)
<1>1. Init => Entitled
  BY IdleRow DEF Init, NoInvitation, Entitled
<1> QED
  BY <1>1, InitType, TypeStep, EntitledStep, PTL DEF Spec

(* The model is type correct; in particular a role is only ever given by   *)
(* someone who has one, and an invitation taken up names a role.           *)
THEOREM WorkspaceTypeCorrect == Spec => []TypeOK
BY Entitlement, PTL

-----------------------------------------------------------------------------
(* What the steps do to the rows of the requests.                          *)

Others(q) == \A p \in Requests \ {q} : req'[p] = req[p]
Same(q)   == /\ req'[q].op = req[q].op /\ req'[q].by = req[q].by
             /\ req'[q].on = req[q].on /\ req'[q].held = req[q].held
             /\ req'[q].pc = "fetched" /\ req[q].pc = "begun"

LEMMA BeginShape ==
  ASSUME TypeOK, NEW q \in Requests, NEW u, NEW op, NEW on, NEW role,
         Begin(q, u, op, on, role)
  PROVE  req'[q].pc = "begun" /\ Others(q)
BY DEF Begin, Permitted, TypeOK, IdleRequest, Others

LEMMA DoneShape ==
  ASSUME TypeOK, NEW q \in Requests, Done(q)
  PROVE  req'[q].pc = "idle" /\ Others(q)
BY Rows, IdleRow DEF Others

LEMMA FetchShapes ==
  ASSUME TypeOK, NEW q \in Requests
  PROVE  /\ FetchMember(q) => /\ Others(q) /\ Same(q) /\ req'[q].role = req[q].role
                              /\ req'[q].row = member[req[q].on].row
         /\ FindInvitation(q) => /\ Others(q) /\ Same(q)
                                 /\ req'[q].role = invite[req[q].on].role
         /\ FetchKey(q) => /\ Others(q) /\ Same(q)
                           /\ req'[q].key = IF req[q].op = "rotate"
                                            THEN [secret |-> made + 1, revoked |-> FALSE]
                                            ELSE [key EXCEPT !.revoked = TRUE]
         /\ FetchDashboard(q) => /\ Others(q) /\ Same(q)
                                 /\ req'[q].dashboard = Changed(req[q].op, dashboard)
<1>1. req \in [Requests -> RequestRow]
  BY DEF TypeOK
<1>2. ASSUME FetchMember(q)
      PROVE  /\ Others(q) /\ Same(q) /\ req'[q].role = req[q].role
             /\ req'[q].row = member[req[q].on].row
  BY <1>1, <1>2 DEF FetchMember, Hold, Others, Same, At, RequestRow
<1>3. ASSUME FindInvitation(q)
      PROVE  Others(q) /\ Same(q) /\ req'[q].role = invite[req[q].on].role
  BY <1>1, <1>3 DEF FindInvitation, Hold, Others, Same, At, RequestRow
<1>4. ASSUME FetchKey(q)
      PROVE  /\ Others(q) /\ Same(q)
             /\ req'[q].key = IF req[q].op = "rotate"
                              THEN [secret |-> made + 1, revoked |-> FALSE]
                              ELSE [key EXCEPT !.revoked = TRUE]
  BY <1>1, <1>4 DEF FetchKey, Hold, Others, Same, At, RequestRow
<1>5. ASSUME FetchDashboard(q)
      PROVE  Others(q) /\ Same(q) /\ req'[q].dashboard = Changed(req[q].op, dashboard)
  BY <1>1, <1>5 DEF FetchDashboard, Hold, Others, Same, RequestRow
<1> QED
  BY <1>2, <1>3, <1>4, <1>5

-----------------------------------------------------------------------------
(* Owners.                                                                 *)

(* Until the founder steps down, the founder is an owner, and no request   *)
(* has read the founder's membership in order to change it.                *)
FounderStays ==
  Founder \notin steppedDown =>
    /\ member[Founder].role = "Owner"
    /\ \A q \in Requests :
         req[q].pc = "fetched" /\ req[q].op \in MemberOps => req[q].on # Founder

LEMMA FounderStep == TypeOK /\ FounderStays /\ [Next]_vars => FounderStays'
<1> SUFFICES ASSUME TypeOK, FounderStays, [Next]_vars
             PROVE  FounderStays'
  OBVIOUS
<1> USE DEF FounderStays
<1>a. ASSUME NEW q \in Requests, Others(q), req'[q].pc # "fetched",
             UNCHANGED <<member, steppedDown>>
      PROVE  FounderStays'
  BY <1>a DEF Others
<1>1. ASSUME NEW q \in Requests, NEW u, NEW op, NEW on, NEW role,
             Begin(q, u, op, on, role)
      PROVE  FounderStays'
  BY <1>1, <1>a, BeginShape DEF Begin, people
<1>2. ASSUME NEW q \in Requests,
             \/ End(q) \/ (\E for \in Users : CreateInvitation(q, for)) \/ CreateKey(q)
             \/ SaveKey(q) \/ (\E public \in BOOLEAN : CreateDashboard(q, public))
             \/ SaveDashboard(q)
      PROVE  FounderStays'
  <2>1. Done(q) /\ UNCHANGED <<member, steppedDown>>
    BY <1>2 DEF End, Done, CreateInvitation, CreateKey, SaveKey, CreateDashboard,
       SaveDashboard, people
  <2> QED  BY <1>a, <2>1, DoneShape
<1>3. ASSUME NEW q \in Requests, FetchMember(q) PROVE FounderStays'
  <2>1. /\ Others(q) /\ Same(q) /\ member[req[q].on].role # "Owner"
        /\ UNCHANGED <<member, steppedDown>>
    BY <1>3, FetchShapes DEF FetchMember, people
  <2> QED  BY <2>1 DEF Others, Same
<1>4. ASSUME NEW q \in Requests, SaveRole(q) \/ DeleteMember(q) PROVE FounderStays'
  <2>1. /\ Done(q) /\ req[q].pc = "fetched" /\ req[q].op \in MemberOps
        /\ steppedDown' = steppedDown
        /\ \A u \in Users \ {req[q].on} : member'[u] = member[u]
    BY <1>4 DEF SaveRole, DeleteMember, At, MemberOps, TypeOK
  <2>2. Founder \in Users
    BY WorkspaceConstants
  <2> QED  BY <2>1, <2>2, DoneShape DEF Others
<1>5. ASSUME NEW q \in Requests, FindInvitation(q) \/ FetchKey(q) \/ FetchDashboard(q)
      PROVE  FounderStays'
  <2>1. /\ Others(q) /\ Same(q) /\ req[q].op \notin MemberOps
        /\ UNCHANGED <<member, steppedDown>>
    BY <1>5, FetchShapes DEF FindInvitation, FetchKey, FetchDashboard, people, At,
       MemberOps, DashboardOps
  <2> QED  BY <2>1 DEF Others, Same
<1>6. ASSUME NEW q \in Requests, Accept(q) PROVE FounderStays'
  <2>1. /\ Done(q) /\ req[q].by \in Users /\ Founder \in Users
        /\ member' = [member EXCEPT ![req[q].by] = [@ EXCEPT !.role = req[q].role]]
        /\ steppedDown' = IF member[req[q].by].role = "Owner" /\ req[q].role # "Owner"
                          THEN steppedDown \union {req[q].by} ELSE steppedDown
    BY <1>6, WorkspaceConstants DEF Accept, NoteOwner, At, TypeOK
  <2>2. CASE Founder \in steppedDown'
    BY <2>2
  <2>3. CASE Founder \notin steppedDown'
    <3>1. /\ Founder \notin steppedDown
          /\ req[q].by = Founder /\ member[Founder].role = "Owner"
               => req[q].role = "Owner"
      BY <2>1, <2>3
    <3>2. member'[Founder].role = "Owner"
      BY <2>1, <3>1 DEF TypeOK
    <3> QED  BY <2>1, <3>1, <3>2, DoneShape DEF Others
  <2> QED  BY <2>2, <2>3
<1>7. ASSUME NEW i \in Invites, Expire(i) PROVE FounderStays'
  BY <1>7 DEF Expire
<1>8. CASE UNCHANGED vars
  BY <1>8 DEF vars
<1> QED
  BY <1>1, <1>2, <1>3, <1>4, <1>5, <1>6, <1>7, <1>8 DEF Next, RequestStep

(* Nobody but the founder ends the founder's ownership, in every           *)
(* interleaving of PATCH, DELETE and acceptance: the handlers of           *)
(* organizations/views.py refuse an owner when they fetch the membership,  *)
(* and the founder's is an owner's from the start.                         *)
THEOREM FounderRemains ==
  Spec => [](member[Founder].role # "Owner" => Founder \in steppedDown)
<1>1. Init => FounderStays
  BY WorkspaceConstants, IdleRow DEF Init, FounderStays
<1>2. FounderStays => (member[Founder].role # "Owner" => Founder \in steppedDown)
  BY DEF FounderStays
<1> QED
  BY <1>1, <1>2, Entitlement, FounderStep, PTL DEF Spec

(* A request that has an owner's membership in hand fetched it before they *)
(* became one, and none makes an owner.                                    *)
OwnersInHand ==
  \A q \in Requests : req[q].op \in MemberOps /\ req[q].pc = "fetched" =>
    /\ req[q].op = "role" => req[q].role # "Owner"
    /\ member[req[q].on].role = "Owner" => q \in belated

(* The action of OwnersKeepTheirRole.                                      *)
OwnersKept ==
  \A u \in Users : member[u].role = "Owner" /\ member'[u].role # "Owner" =>
    \/ \E q \in Requests : /\ At(q, "accept", "fetched") /\ req[q].by = u
                           /\ req'[q].pc = "idle"
    \/ \E q \in belated \ belated' : req[q].on = u

LEMMA OwnersStep ==
  TypeOK /\ OwnersInHand /\ [Next]_vars => OwnersInHand' /\ OwnersKept
<1> SUFFICES ASSUME TypeOK, OwnersInHand, [Next]_vars
             PROVE  OwnersInHand' /\ OwnersKept
  OBVIOUS
<1> DEFINE Goal == OwnersInHand' /\ OwnersKept
<1>a. ASSUME NEW q \in Requests, Others(q),
             req'[q].op \in MemberOps => req'[q].pc # "fetched",
             member' = member, belated \ {q} \subseteq belated'
      PROVE  Goal
  BY <1>a DEF Others, OwnersInHand, OwnersKept
<1>1. ASSUME NEW q \in Requests, NEW u, NEW op, NEW on, NEW role,
             Begin(q, u, op, on, role)
      PROVE  Goal
  BY <1>1, <1>a, BeginShape DEF Begin, people
<1>2. ASSUME NEW q \in Requests,
             \/ End(q) \/ (\E for \in Users : CreateInvitation(q, for)) \/ CreateKey(q)
             \/ SaveKey(q) \/ (\E public \in BOOLEAN : CreateDashboard(q, public))
             \/ SaveDashboard(q)
      PROVE  Goal
  <2>1. Done(q) /\ member' = member /\ belated \ {q} \subseteq belated'
    BY <1>2 DEF End, Done, CreateInvitation, CreateKey, SaveKey, CreateDashboard,
       SaveDashboard, people
  <2> QED  BY <1>a, <2>1, DoneShape
<1>3. ASSUME NEW q \in Requests, FetchMember(q) PROVE Goal
  <2>1. /\ Others(q) /\ Same(q) /\ member[req[q].on].role # "Owner"
        /\ req[q].op = "role" => req'[q].role # "Owner"
        /\ UNCHANGED <<member, belated>>
    BY <1>3, FetchShapes DEF FetchMember, people
  <2> QED  BY <2>1 DEF Others, Same, OwnersInHand, OwnersKept
<1>4. ASSUME NEW q \in Requests, SaveRole(q) \/ DeleteMember(q) PROVE Goal
  <2>1. /\ Done(q) /\ req[q].pc = "fetched" /\ req[q].op \in MemberOps
        /\ belated' = belated \ {q} /\ req[q].on \in Users
        /\ \A u \in Users \ {req[q].on} : member'[u] = member[u]
    BY <1>4 DEF SaveRole, DeleteMember, At, MemberOps, TypeOK, Targets
  <2>2. member'[req[q].on].role # "Owner"
    BY <1>4, <2>1 DEF SaveRole, DeleteMember, At, OwnersInHand, TypeOK
  <2>3. Others(q) /\ req'[q].pc = "idle"
    BY <2>1, DoneShape
  <2>4. \A p \in Requests : req[p].op \in MemberOps /\ req[p].pc = "fetched"
                             => req[p].on \in Users
    BY DEF TypeOK, Targets, MemberOps
  <2>5. OwnersInHand'
    BY <2>1, <2>2, <2>3, <2>4 DEF Others, OwnersInHand
  <2>6. OwnersKept
    BY <2>1, <2>2 DEF OwnersInHand, OwnersKept
  <2> QED  BY <2>5, <2>6
<1>5. ASSUME NEW q \in Requests, FindInvitation(q) \/ FetchKey(q) \/ FetchDashboard(q)
      PROVE  Goal
  <2>1. /\ Others(q) /\ Same(q) /\ req[q].op \notin MemberOps
        /\ UNCHANGED <<member, belated>>
    BY <1>5, FetchShapes DEF FindInvitation, FetchKey, FetchDashboard, people, At,
       MemberOps, DashboardOps
  <2> QED  BY <1>a, <2>1 DEF Same
<1>6. ASSUME NEW q \in Requests, Accept(q) PROVE Goal
  <2> DEFINE u == req[q].by
  <2>1. /\ Done(q) /\ u \in Users /\ At(q, "accept", "fetched")
        /\ member' = [member EXCEPT ![u] = [@ EXCEPT !.role = req[q].role]]
        /\ belated' = IF member[u].role # "Owner" /\ req[q].role = "Owner"
                      THEN belated \union Changing(u) ELSE belated
    BY <1>6 DEF Accept, NoteOwner, At, TypeOK
  <2> HIDE DEF u
  <2>2. /\ \A v \in Users \ {u} : member'[v] = member[v]
        /\ member'[u].role = req[q].role
    BY <2>1 DEF TypeOK
  <2>3. Others(q) /\ req'[q].pc = "idle"
    BY <2>1, DoneShape
  <2>4. ASSUME NEW p \in Requests, req'[p].op \in MemberOps, req'[p].pc = "fetched"
        PROVE  /\ req'[p].op = "role" => req'[p].role # "Owner"
               /\ member'[req'[p].on].role = "Owner" => p \in belated'
    <3>1. req'[p] = req[p] /\ req[p].on \in Users
      BY <2>3, <2>4 DEF Others, TypeOK, Targets, MemberOps
    <3>2. CASE req[p].on = u
      BY <2>1, <2>2, <2>4, <3>1, <3>2 DEF OwnersInHand, Changing
    <3>3. CASE req[p].on # u
      BY <2>1, <2>2, <2>4, <3>1, <3>3 DEF OwnersInHand
    <3> QED  BY <3>2, <3>3
  <2>5. OwnersKept
    BY <2>1, <2>2, <2>3 DEF OwnersKept, u
  <2> QED  BY <2>4, <2>5 DEF OwnersInHand
<1>7. ASSUME NEW i \in Invites, Expire(i) PROVE Goal
  BY <1>7 DEF Expire, OwnersInHand, OwnersKept
<1>8. CASE UNCHANGED vars
  BY <1>8 DEF vars, OwnersInHand, OwnersKept
<1> QED
  BY <1>1, <1>2, <1>3, <1>4, <1>5, <1>6, <1>7, <1>8 DEF Next, RequestStep

(* An owner stops being one by accepting a lower invitation, or through a  *)
(* change of role or a removal that was under way with the membership when *)
(* its user became an owner, and in no other way, however the requests     *)
(* overlap.  Such a late request may take the last owner away.             *)
THEOREM OwnersLoseItLateOnly == Spec => OwnersKeepTheirRole
<1>1. Init => OwnersInHand
  BY IdleRow DEF Init, OwnersInHand
<1>2. Spec => [][OwnersKept]_vars
  BY <1>1, Entitlement, OwnersStep, PTL DEF Spec
<1> QED
  BY <1>2 DEF OwnersKeepTheirRole, OwnersKept
-----------------------------------------------------------------------------
(* The dashboard.                                                          *)

(* A public dashboard has a link, whatever saves of whole rows overlap:    *)
(* Dashboard.save() looks at the row that it is about to write.            *)
THEOREM PublicDashboardsHaveLinks == Spec => []PublicHasToken
<1>1. Init => PublicHasToken
  BY DEF Init, PublicHasToken, NoDashboard
<1>2. TypeOK /\ PublicHasToken /\ [Next]_vars => PublicHasToken'
  <2> SUFFICES ASSUME TypeOK, PublicHasToken, [Next]_vars
               PROVE  PublicHasToken'
    OBVIOUS
  <2>a. made \in Nat /\ made + 1 # 0
    BY DEF TypeOK
  <2>b. ASSUME NEW row \in DashboardRow
        PROVE  WithToken(row).public => WithToken(row).token # 0
    BY <2>a, <2>b DEF WithToken, NeedsToken, DashboardRow
  <2>1. ASSUME NEW q \in Requests, NEW public \in BOOLEAN, CreateDashboard(q, public)
        PROVE  PublicHasToken'
    <3>1. [life |-> "alive", public |-> public, token |-> 0] \in DashboardRow
      BY DEF DashboardRow
    <3> QED  BY <2>1, <2>b, <3>1 DEF CreateDashboard, PublicHasToken
  <2>2. ASSUME NEW q \in Requests, SaveDashboard(q) PROVE PublicHasToken'
    <3>1. req[q].dashboard \in DashboardRow
      BY DEF TypeOK, RequestRow
    <3> QED  BY <2>2, <2>b, <3>1 DEF SaveDashboard, DashboardFields, PublicHasToken
  <2>3. CASE UNCHANGED dashboard
    BY <2>3 DEF PublicHasToken
  <2> QED
    BY <2>1, <2>2, <2>3 DEF Next, RequestStep, Begin, End, FetchMember, SaveRole,
       DeleteMember, CreateInvitation, FindInvitation, Accept, CreateKey, FetchKey,
       SaveKey, FetchDashboard, Expire, board, vars
<1> QED
  BY <1>1, <1>2, Entitlement, PTL DEF Spec

-----------------------------------------------------------------------------
(* The API key.                                                            *)

Rotating(q) == At(q, "rotate", "fetched")

(* The secrets in use, in hand and replaced are all made, and different.   *)
SecretsApart ==
  /\ key.secret \notin replaced /\ key.secret <= made
  /\ \A s \in replaced : s <= made
  /\ \A q \in Requests : Rotating(q) =>
       /\ req[q].key.secret \notin replaced \union {key.secret}
       /\ req[q].key.secret <= made
       /\ \A p \in Requests \ {q} : Rotating(p) => req[p].key.secret # req[q].key.secret

LEMMA SecretStep == TypeOK /\ SecretsApart /\ [Next]_vars => SecretsApart'
<1> SUFFICES ASSUME TypeOK, SecretsApart, [Next]_vars
             PROVE  SecretsApart'
  OBVIOUS
<1>a. /\ made \in Nat /\ key.secret \in Nat /\ replaced \subseteq Nat
      /\ \A q \in Requests : req[q].key.secret \in Nat
  BY DEF TypeOK, KeyRow, RequestRow
(* No key was made, replaced or taken in hand.                             *)
<1>b. ASSUME NEW q \in Requests, Others(q), ~ Rotating(q)', UNCHANGED <<keys, made>>
      PROVE  SecretsApart'
  BY <1>b DEF Others, SecretsApart, Rotating, At, keys
<1>1. ASSUME NEW q \in Requests, NEW u, NEW op, NEW on, NEW role,
             Begin(q, u, op, on, role)
      PROVE  SecretsApart'
  BY <1>1, <1>b, BeginShape DEF Begin, Rotating, At
<1>2. ASSUME NEW q \in Requests,
             \/ End(q) \/ SaveRole(q) \/ DeleteMember(q) \/ Accept(q)
             \/ \E for \in Users : CreateInvitation(q, for)
      PROVE  SecretsApart'
  <2>1. Done(q) /\ UNCHANGED <<keys, made>>
    BY <1>2 DEF End, Done, SaveRole, DeleteMember, Accept, CreateInvitation
  <2> QED  BY <1>b, <2>1, DoneShape DEF Rotating, At
<1>3. ASSUME NEW q \in Requests, FetchMember(q) \/ FindInvitation(q)
      PROVE  SecretsApart'
  <2>1. Others(q) /\ Same(q) /\ UNCHANGED <<keys, made>> /\ req[q].op # "rotate"
    BY <1>3, FetchShapes DEF FetchMember, FindInvitation, At
  <2> QED  BY <1>b, <2>1 DEF Same, Rotating, At
(* A secret is made that was never seen before.                            *)
<1>c. ASSUME NEW s \in replaced \union {key.secret} PROVE s # made + 1 /\ s <= made + 1
  BY <1>a, <1>c DEF SecretsApart
<1>d. ASSUME NEW q \in Requests, Rotating(q)
      PROVE  req[q].key.secret # made + 1 /\ req[q].key.secret <= made + 1
  BY <1>a, <1>d DEF SecretsApart
<1>4. ASSUME NEW q \in Requests, CreateKey(q) PROVE SecretsApart'
  <2>1. /\ Others(q) /\ req'[q].pc = "idle" /\ key'.secret = made + 1
        /\ made' = made + 1 /\ replaced' = replaced
    BY <1>4, DoneShape DEF CreateKey
  <2>2. ASSUME NEW p \in Requests, Rotating(p)'
        PROVE  p # q /\ req'[p] = req[p] /\ Rotating(p)
    BY <2>1, <2>2 DEF Others, Rotating, At
  <2>3. key'.secret \notin replaced' /\ key'.secret <= made'
    BY <1>a, <1>c, <2>1
  <2>4. \A s \in replaced' : s <= made'
    BY <1>c, <2>1
  <2>5. ASSUME NEW p \in Requests, Rotating(p)'
        PROVE  /\ req'[p].key.secret \notin replaced' \union {key'.secret}
               /\ req'[p].key.secret <= made'
    BY <1>d, <2>1, <2>2, <2>5 DEF SecretsApart
  <2>6. ASSUME NEW p \in Requests, NEW r \in Requests \ {p}, Rotating(p)', Rotating(r)'
        PROVE  req'[r].key.secret # req'[p].key.secret
    BY <2>2, <2>6 DEF SecretsApart
  <2> QED  BY <2>3, <2>4, <2>5, <2>6 DEF SecretsApart
<1>5. ASSUME NEW q \in Requests, FetchKey(q), req[q].op = "rotate" PROVE SecretsApart'
  <2>1. /\ Others(q) /\ req'[q].key.secret = made + 1 /\ made' = made + 1
        /\ UNCHANGED <<key, replaced>>
    <3>1. Others(q) /\ req'[q].key = [secret |-> made + 1, revoked |-> FALSE]
      BY <1>5, FetchShapes
    <3>2. made' = made + 1 /\ UNCHANGED <<key, replaced>>
      BY <1>5 DEF FetchKey, keys
    <3> QED  BY <3>1, <3>2
  <2>2. ASSUME NEW p \in Requests \ {q}, Rotating(p)'
        PROVE  req'[p] = req[p] /\ Rotating(p)
    BY <2>1, <2>2 DEF Others, Rotating, At
  <2>3. key'.secret \notin replaced' /\ key'.secret <= made'
    BY <1>c, <2>1 DEF SecretsApart
  <2>4. \A s \in replaced' : s <= made'
    BY <1>c, <2>1
  <2>5. /\ req'[q].key.secret \notin replaced' \union {key'.secret}
        /\ req'[q].key.secret <= made'
    BY <1>a, <1>c, <2>1
  <2>6. ASSUME NEW p \in Requests \ {q}, Rotating(p)'
        PROVE  /\ req'[p].key.secret \notin replaced' \union {key'.secret}
               /\ req'[p].key.secret <= made' /\ req'[p].key.secret # req'[q].key.secret
    BY <1>d, <2>1, <2>2, <2>6 DEF SecretsApart
  <2>7. ASSUME NEW p \in Requests \ {q}, NEW r \in Requests \ {p, q},
               Rotating(p)', Rotating(r)'
        PROVE  req'[r].key.secret # req'[p].key.secret
    BY <2>2, <2>7 DEF SecretsApart
  <2> QED  BY <2>3, <2>4, <2>5, <2>6, <2>7 DEF SecretsApart
<1>6. ASSUME NEW q \in Requests, FetchKey(q), req[q].op # "rotate" PROVE SecretsApart'
  <2>1. Others(q) /\ Same(q) /\ UNCHANGED <<keys, made>>
    BY <1>6, FetchShapes DEF FetchKey
  <2> QED  BY <1>b, <1>6, <2>1 DEF Same, Rotating, At
<1>7. ASSUME NEW q \in Requests, SaveKey(q), ~ Rotating(q) PROVE SecretsApart'
  <2>1. /\ Done(q) /\ req[q].op # "rotate" /\ made' = made
        /\ key'.secret = key.secret /\ replaced' = replaced
    BY <1>7 DEF SaveKey, KeyFields, Rotating, At
  <2> QED  BY <2>1, DoneShape DEF SecretsApart, Rotating, At, Others
<1>8. ASSUME NEW q \in Requests, SaveKey(q), Rotating(q) PROVE SecretsApart'
  <2>1. /\ Done(q) /\ made' = made /\ key'.secret = req[q].key.secret
        /\ replaced' = replaced \union {key.secret}
    <3>1. req[q].key.secret # key.secret
      BY <1>8 DEF SecretsApart
    <3> QED  BY <1>8, <3>1 DEF SaveKey, KeyFields, Rotating, At
  <2>2. ASSUME NEW p \in Requests, Rotating(p)'
        PROVE  p # q /\ req'[p] = req[p] /\ Rotating(p)
    BY <2>1, <2>2, DoneShape DEF Others, Rotating, At
  <2>3. key'.secret \notin replaced' /\ key'.secret <= made'
    BY <1>8, <2>1 DEF SecretsApart
  <2>4. \A s \in replaced' : s <= made'
    BY <2>1 DEF SecretsApart
  <2>5. ASSUME NEW p \in Requests, Rotating(p)'
        PROVE  /\ req'[p].key.secret \notin replaced' \union {key'.secret}
               /\ req'[p].key.secret <= made'
    BY <1>8, <2>1, <2>2, <2>5 DEF SecretsApart
  <2>6. ASSUME NEW p \in Requests, NEW r \in Requests \ {p}, Rotating(p)', Rotating(r)'
        PROVE  req'[r].key.secret # req'[p].key.secret
    BY <2>2, <2>6 DEF SecretsApart
  <2> QED  BY <2>3, <2>4, <2>5, <2>6 DEF SecretsApart
<1>9. ASSUME NEW q \in Requests,
             \/ \E public \in BOOLEAN : CreateDashboard(q, public)
             \/ SaveDashboard(q) \/ FetchDashboard(q)
      PROVE  SecretsApart'
  <2>1. /\ Others(q) /\ ~ Rotating(q)' /\ UNCHANGED keys
        /\ made' \in Nat /\ made <= made'
    <3>1. UNCHANGED keys /\ made' \in {made, made + 1}
      BY <1>9 DEF CreateDashboard, SaveDashboard, FetchDashboard
    <3>2. ASSUME FetchDashboard(q) PROVE Others(q) /\ ~ Rotating(q)'
      <4>1. Others(q) /\ Same(q) /\ req[q].op # "rotate"
        BY <3>2, FetchShapes DEF FetchDashboard, DashboardOps
      <4> QED  BY <4>1 DEF Same, Rotating, At
    <3>3. ASSUME Done(q) PROVE Others(q) /\ ~ Rotating(q)'
      BY <3>3, DoneShape DEF Rotating, At
    <3>4. Done(q) \/ FetchDashboard(q)
      BY <1>9 DEF CreateDashboard, SaveDashboard
    <3> QED  BY <1>a, <3>1, <3>2, <3>3, <3>4
  <2>2. \A n \in Nat : n <= made => n <= made'
    BY <1>a, <2>1
  <2>3. ASSUME NEW p \in Requests, Rotating(p)'
        PROVE  p # q /\ req'[p] = req[p] /\ Rotating(p)
    BY <2>1, <2>3 DEF Others, Rotating, At
  <2>4. key'.secret \notin replaced' /\ key'.secret <= made'
    BY <1>a, <2>1, <2>2 DEF SecretsApart, keys
  <2>5. \A s \in replaced' : s <= made'
    BY <1>a, <2>1, <2>2 DEF SecretsApart, keys
  <2>6. ASSUME NEW p \in Requests, Rotating(p)'
        PROVE  /\ req'[p].key.secret \notin replaced' \union {key'.secret}
               /\ req'[p].key.secret <= made'
    BY <1>a, <2>1, <2>2, <2>3, <2>6 DEF SecretsApart, keys
  <2>7. ASSUME NEW p \in Requests, NEW r \in Requests \ {p}, Rotating(p)', Rotating(r)'
        PROVE  req'[r].key.secret # req'[p].key.secret
    BY <2>3, <2>7 DEF SecretsApart
  <2> QED  BY <2>4, <2>5, <2>6, <2>7 DEF SecretsApart
<1>10. ASSUME NEW i \in Invites, Expire(i) PROVE SecretsApart'
  BY <1>10 DEF Expire, SecretsApart, Rotating, At, keys
<1>11. CASE UNCHANGED vars
  BY <1>11 DEF vars, SecretsApart, Rotating, At
<1> QED
  BY <1>1, <1>2, <1>3, <1>4, <1>5, <1>6, <1>7, <1>8, <1>9, <1>10, <1>11
  DEF Next, RequestStep

(* A secret that was rotated away never opens the API again: revoke()      *)
(* leaves the hash alone, and every rotate() makes a secret of its own     *)
(* before it saves, in whatever order overlapping requests save.           *)
THEOREM ReplacedSecretsStayDead == Spec => []SecretsNeverReturn
<1>1. Init => SecretsApart
  BY IdleRow DEF Init, SecretsApart, NoKey, Rotating, At
<1>2. SecretsApart => SecretsNeverReturn
  BY DEF SecretsApart, SecretsNeverReturn
<1> QED
  BY <1>1, <1>2, Entitlement, SecretStep, PTL DEF Spec

-----------------------------------------------------------------------------
(* Invitations.                                                            *)

(* A request that has found invitation i open and is about to accept it.   *)
Accepting(q, i) == At(q, "accept", "fetched") /\ req[q].on = i

(* An open invitation is unused; while no two acceptances have overlapped, *)
(* one that has been used is in nobody's hands any more.                   *)
UsedOnce ==
  \A i \in Invites :
    /\ invite[i].state \in {"absent", "open"} => uses[i] = 0
    /\ i \notin overlapped =>
         /\ uses[i] \in {0, 1}
         /\ \A q \in Requests : Accepting(q, i) =>
              uses[i] = 0 /\ \A p \in Requests : Accepting(p, i) => p = q

LEMMA UseStep == TypeOK /\ UsedOnce /\ [Next]_vars => UsedOnce'
<1> SUFFICES ASSUME TypeOK, UsedOnce, [Next]_vars
             PROVE  UsedOnce'
  OBVIOUS
<1>a. /\ invite \in [Invites -> Invitation] /\ uses \in [Invites -> Nat]
      /\ \A q \in Requests : req[q].pc # "idle" => req[q].on \in Targets(req[q].op)
  BY DEF TypeOK, Invitation
(* Nobody uses or takes in hand an invitation.                             *)
<1>b. ASSUME NEW q \in Requests, Others(q), ~ At(q, "accept", "fetched")',
             UNCHANGED <<uses, overlapped>>,
             \A i \in Invites : \/ invite'[i] = invite[i]
                                \/ invite[i].state \in {"absent", "open"}
      PROVE  UsedOnce'
  <2>1. ASSUME NEW p \in Requests, NEW i \in Invites, Accepting(p, i)'
        PROVE  Accepting(p, i)
    BY <1>b, <2>1 DEF Others, Accepting, At
  <2> QED  BY <1>b, <2>1 DEF UsedOnce
<1>1. ASSUME NEW q \in Requests, NEW u, NEW op, NEW on, NEW role,
             Begin(q, u, op, on, role)
      PROVE  UsedOnce'
  BY <1>1, <1>b, BeginShape DEF Begin, At, people
<1>2. ASSUME NEW q \in Requests,
             \/ End(q) \/ SaveRole(q) \/ DeleteMember(q) \/ CreateKey(q) \/ SaveKey(q)
             \/ (\E public \in BOOLEAN : CreateDashboard(q, public)) \/ SaveDashboard(q)
      PROVE  UsedOnce'
  <2>1. Done(q) /\ UNCHANGED <<invite, uses, overlapped>>
    BY <1>2 DEF End, Done, SaveRole, DeleteMember, CreateKey, SaveKey, CreateDashboard,
       SaveDashboard, people
  <2> QED  BY <1>b, <2>1, DoneShape DEF At
<1>3. ASSUME NEW q \in Requests, NEW for \in Users, CreateInvitation(q, for)
      PROVE  UsedOnce'
  <2>1. /\ Done(q) /\ UNCHANGED <<uses, overlapped>>
        /\ \A i \in Invites : \/ invite'[i] = invite[i]
                              \/ invite[i].state \in {"absent", "open"}
    BY <1>3, <1>a DEF CreateInvitation
  <2> QED  BY <1>b, <2>1, DoneShape DEF At
<1>4. ASSUME NEW q \in Requests, FetchMember(q) \/ FetchKey(q) \/ FetchDashboard(q)
      PROVE  UsedOnce'
  <2>1. /\ Others(q) /\ Same(q) /\ UNCHANGED <<invite, uses, overlapped>>
        /\ req[q].op # "accept"
    BY <1>4, FetchShapes DEF FetchMember, FetchKey, FetchDashboard, At, people,
       DashboardOps
  <2> QED  BY <1>b, <2>1 DEF Same, At
<1>5. ASSUME NEW q \in Requests, FindInvitation(q) PROVE UsedOnce'
  <2>1. /\ Others(q) /\ Same(q) /\ UNCHANGED <<invite, uses>>
        /\ req[q].on \in Invites /\ uses[req[q].on] = 0
    BY <1>5, <1>a, FetchShapes DEF FindInvitation, At, Targets, MemberOps, UsedOnce
  <2>2. /\ overlapped \subseteq overlapped'
        /\ (\E p \in Requests \ {q} : Accepting(p, req[q].on)) => req[q].on \in overlapped'
    BY <1>5 DEF FindInvitation, Accepting
  <2>3. ASSUME NEW p \in Requests \ {q}, NEW i \in Invites, Accepting(p, i)'
        PROVE  Accepting(p, i)
    BY <2>1, <2>3 DEF Others, Accepting, At
  <2>4. ASSUME NEW i \in Invites, Accepting(q, i)' PROVE i = req[q].on
    BY <2>1, <2>4 DEF Same, Accepting
  <2> QED  BY <2>1, <2>2, <2>3, <2>4 DEF UsedOnce
<1>6. ASSUME NEW q \in Requests, Accept(q) PROVE UsedOnce'
  <2>1. PICK j \in Invites : j = req[q].on /\ Accepting(q, j)
    BY <1>6, <1>a DEF Accept, At, Targets, MemberOps, Accepting
  <2>2. /\ Others(q) /\ req'[q].pc = "idle" /\ overlapped' = overlapped
        /\ invite'[j].state = "accepted" /\ uses'[j] = uses[j] + 1
        /\ \A i \in Invites \ {j} : invite'[i] = invite[i] /\ uses'[i] = uses[i]
    BY <1>6, <1>a, <2>1, DoneShape DEF Accept, Invitation
  <2>3. ASSUME NEW p \in Requests, NEW i \in Invites, Accepting(p, i)'
        PROVE  p # q /\ Accepting(p, i)
    BY <2>2, <2>3 DEF Others, Accepting, At
  <2>4. j \notin overlapped => uses'[j] = 1 /\ \A p \in Requests : ~ Accepting(p, j)'
    BY <2>1, <2>2, <2>3 DEF UsedOnce
  <2> QED  BY <2>2, <2>3, <2>4 DEF UsedOnce
<1>7. ASSUME NEW i \in Invites, Expire(i) PROVE UsedOnce'
  <2>1. /\ UNCHANGED <<req, uses, overlapped>>
        /\ \A k \in Invites : \/ invite'[k] = invite[k]
                              \/ invite[k].state \in {"absent", "open"}
    BY <1>7, <1>a DEF Expire
  <2> QED  BY <2>1 DEF UsedOnce, Accepting, At
<1>8. CASE UNCHANGED vars
  BY <1>8 DEF vars, UsedOnce, Accepting, At
<1> QED
  BY <1>1, <1>2, <1>3, <1>4, <1>5, <1>6, <1>7, <1>8 DEF Next, RequestStep

(* An invitation is used twice only if two acceptances had it in hand at   *)
(* once: accepted_at keeps later ones away, but is read without a lock.    *)
THEOREM InvitationsAreUsedOnce == Spec => []AcceptedOnce
<1>1. Init => UsedOnce
  BY IdleRow DEF Init, UsedOnce, Accepting, At
<1>2. TypeOK /\ UsedOnce => AcceptedOnce
  BY DEF TypeOK, UsedOnce, AcceptedOnce
<1> QED
  BY <1>1, <1>2, Entitlement, UseStep, PTL DEF Spec

(* What a role needs of whoever gave it.                                   *)
Given(role, by) == by \in {"Admin", "Owner"} /\ (role \in {"Admin", "Owner"} => by = "Owner")

(* Roles, and those that invitations offer, are given by who may give      *)
(* them; a request in the middle carries a role of that kind.              *)
RolesGiven ==
  /\ \A u \in Users : Given(member[u].role, grantor[u])
  /\ \A i \in Invites : Given(invite[i].role, grantor[i])
  /\ \A q \in Requests :
       /\ At(q, "role", "fetched") => Given(req[q].role, req[q].held)
       /\ At(q, "accept", "fetched") =>
            /\ req[q].role = invite[req[q].on].role
            /\ invite[req[q].on].state # "absent"

LEMMA GivenStep == TypeOK /\ Entitled /\ RolesGiven /\ [Next]_vars => RolesGiven'
<1> SUFFICES ASSUME TypeOK, Entitled, RolesGiven, [Next]_vars
             PROVE  RolesGiven'
  OBVIOUS
<1>a. /\ invite \in [Invites -> Invitation] /\ member \in [Users -> Member]
      /\ grantor \in [Users \union Invites -> Roles] /\ Users \intersect Invites = {}
      /\ \A q \in Requests : req[q].pc # "idle" => req[q].on \in Targets(req[q].op)
  BY WorkspaceConstants DEF TypeOK, Invitation, Member
(* A step that ends its request, or begins one.                            *)
<1>b. ASSUME NEW q \in Requests, Others(q), req'[q].pc # "fetched",
             \A u \in Users : Given(member'[u].role, grantor'[u]),
             \A i \in Invites : /\ Given(invite'[i].role, grantor'[i])
                                /\ invite[i].state # "absent" =>
                                     /\ invite'[i].state # "absent"
                                     /\ invite'[i].role = invite[i].role
      PROVE  RolesGiven'
  <2>1. ASSUME NEW p \in Requests, NEW op, At(p, op, "fetched")'
        PROVE  req'[p] = req[p] /\ At(p, op, "fetched")
    BY <1>b, <2>1 DEF Others, At
  <2>2. ASSUME NEW p \in Requests, At(p, "accept", "fetched")
        PROVE  req[p].on \in Invites
    BY <1>a, <2>2 DEF At, Targets, MemberOps
  <2>3. ASSUME NEW p \in Requests, At(p, "accept", "fetched")'
        PROVE  /\ req'[p].role = invite'[req'[p].on].role
               /\ invite'[req'[p].on].state # "absent"
    <3>1. req'[p] = req[p] /\ At(p, "accept", "fetched")
      BY <2>1, <2>3
    <3>2. /\ req[p].on \in Invites /\ req[p].role = invite[req[p].on].role
          /\ invite[req[p].on].state # "absent"
      BY <2>2, <3>1 DEF RolesGiven
    <3> QED  BY <1>b, <3>1, <3>2
  <2>4. ASSUME NEW p \in Requests, At(p, "role", "fetched")'
        PROVE  Given(req'[p].role, req'[p].held)
    <3>1. req'[p] = req[p] /\ At(p, "role", "fetched")
      BY <2>1, <2>4
    <3> QED  BY <3>1 DEF RolesGiven
  <2> QED  BY <1>b, <2>3, <2>4 DEF RolesGiven, At
<1>c. /\ \A u \in Users : Given(member[u].role, grantor[u])
      /\ \A i \in Invites : Given(invite[i].role, grantor[i])
  BY DEF RolesGiven
<1>1. ASSUME NEW q \in Requests, NEW u, NEW op, NEW on, NEW role,
             Begin(q, u, op, on, role)
      PROVE  RolesGiven'
  <2>1. /\ Others(q) /\ req'[q].pc # "fetched"
        /\ UNCHANGED <<member, invite, grantor>>
    BY <1>1, BeginShape DEF Begin, people
  <2> QED  BY <1>b, <1>c, <2>1
<1>2. ASSUME NEW q \in Requests,
             \/ End(q) \/ CreateKey(q) \/ SaveKey(q) \/ SaveDashboard(q)
             \/ \E public \in BOOLEAN : CreateDashboard(q, public)
      PROVE  RolesGiven'
  <2>1. Done(q) /\ UNCHANGED <<member, invite, grantor>>
    BY <1>2 DEF End, Done, CreateKey, SaveKey, CreateDashboard, SaveDashboard, people
  <2>2. Others(q) /\ req'[q].pc # "fetched"
    BY <2>1, DoneShape
  <2> QED  BY <1>b, <1>c, <2>1, <2>2
<1>3. ASSUME NEW q \in Requests, SaveRole(q) PROVE RolesGiven'
  <2> DEFINE v == req[q].on
  <2>1. v \in Users /\ Given(req[q].role, req[q].held)
    BY <1>3, <1>a DEF SaveRole, At, Targets, MemberOps, RolesGiven
  <2>2. /\ Others(q) /\ req'[q].pc # "fetched" /\ invite' = invite
        /\ member'[v].role = req[q].role /\ grantor'[v] = req[q].held
        /\ \A u \in Users \ {v} : member'[u] = member[u] /\ grantor'[u] = grantor[u]
        /\ \A i \in Invites : grantor'[i] = grantor[i]
    BY <1>3, <1>a, <2>1, DoneShape DEF SaveRole, Member
  <2> HIDE DEF v
  <2> QED  BY <1>b, <1>c, <2>1, <2>2
<1>4. ASSUME NEW q \in Requests, DeleteMember(q) PROVE RolesGiven'
  <2> DEFINE v == req[q].on
  <2>1. v \in Users
    BY <1>4, <1>a DEF DeleteMember, At, Targets, MemberOps
  <2>2. /\ Others(q) /\ req'[q].pc # "fetched" /\ UNCHANGED <<invite, grantor>>
        /\ member'[v].role = "none"
        /\ \A u \in Users \ {v} : member'[u] = member[u]
    BY <1>4, <1>a, <2>1, DoneShape DEF DeleteMember, Member
  <2>3. Given("none", grantor[v])
    BY <1>c, <2>1 DEF Given
  <2> HIDE DEF v
  <2> QED  BY <1>b, <1>c, <2>1, <2>2, <2>3
<1>5. ASSUME NEW q \in Requests, NEW for \in Users, CreateInvitation(q, for)
      PROVE  RolesGiven'
  <2> DEFINE j == req[q].on
  <2>1. /\ j \in Invites /\ invite[j].state = "absent"
        /\ req[q].held \in {"Admin", "Owner"} /\ MayAssign(req[q].held, req[q].role)
    BY <1>5, <1>a DEF CreateInvitation, At, Targets, MemberOps, Entitled
  <2>2. Given(req[q].role, req[q].held)
    BY <2>1 DEF Given, MayAssign
  <2>3. /\ Others(q) /\ req'[q].pc # "fetched" /\ member' = member
        /\ invite'[j].role = req[q].role /\ grantor'[j] = req[q].held
        /\ \A i \in Invites \ {j} : invite'[i] = invite[i] /\ grantor'[i] = grantor[i]
        /\ \A u \in Users : grantor'[u] = grantor[u]
    BY <1>5, <1>a, <2>1, DoneShape DEF CreateInvitation
  <2> HIDE DEF j
  <2> QED  BY <1>b, <1>c, <2>1, <2>2, <2>3
<1>6. ASSUME NEW i \in Invites, Expire(i) PROVE RolesGiven'
  <2>1. /\ UNCHANGED <<member, grantor, req>>
        /\ \A j \in Invites : /\ invite'[j].role = invite[j].role
                              /\ invite[j].state # "absent" => invite'[j].state # "absent"
    BY <1>6, <1>a DEF Expire, Invitation
  <2>2. \A p \in Requests : At(p, "accept", "fetched") => req[p].on \in Invites
    BY <1>a DEF At, Targets, MemberOps
  <2> QED  BY <2>1, <2>2 DEF RolesGiven, At
<1>d. ASSUME NEW q \in Requests, Others(q), UNCHANGED <<member, invite, grantor>>,
             At(q, "role", "fetched")' => Given(req'[q].role, req'[q].held),
             At(q, "accept", "fetched")' => /\ req'[q].role = invite[req'[q].on].role
                                            /\ invite[req'[q].on].state # "absent"
      PROVE  RolesGiven'
  BY <1>d DEF RolesGiven, Others, At
<1>7. ASSUME NEW q \in Requests, FetchMember(q) PROVE RolesGiven'
  <2>1. /\ Others(q) /\ Same(q) /\ req'[q].role = req[q].role
        /\ UNCHANGED <<member, invite, grantor>> /\ req[q].op # "accept"
        /\ req[q].op = "role" => MayAssign(req[q].held, req[q].role)
    BY <1>7, FetchShapes DEF FetchMember, people, At
  <2>2. req[q].op = "role" => Given(req[q].role, req[q].held)
    BY <2>1 DEF Entitled, Same, MemberOps, Given, MayAssign
  <2> QED  BY <1>d, <2>1, <2>2 DEF Same, At
<1>8. ASSUME NEW q \in Requests, FindInvitation(q) PROVE RolesGiven'
  <2>1. /\ Others(q) /\ Same(q) /\ req'[q].role = invite[req[q].on].role
        /\ UNCHANGED <<member, invite, grantor>> /\ req[q].op = "accept"
        /\ invite[req[q].on].state = "open"
    BY <1>8, FetchShapes DEF FindInvitation, At
  <2> QED  BY <1>d, <2>1 DEF Same, At
<1>9. ASSUME NEW q \in Requests, FetchKey(q) \/ FetchDashboard(q) PROVE RolesGiven'
  <2>1. /\ Others(q) /\ Same(q) /\ UNCHANGED <<member, invite, grantor>>
        /\ req[q].op \notin {"role", "accept"}
    BY <1>9, FetchShapes DEF FetchKey, FetchDashboard, At, people, DashboardOps
  <2> QED  BY <1>d, <2>1 DEF Same, At
<1>10. ASSUME NEW q \in Requests, Accept(q) PROVE RolesGiven'
  <2> DEFINE v == req[q].by
  <2>1. /\ v \in Users /\ req[q].on \in Invites
        /\ req[q].role = invite[req[q].on].role
    BY <1>10, <1>a DEF Accept, At, Targets, MemberOps, RolesGiven, TypeOK
  <2>2. /\ Others(q) /\ req'[q].pc # "fetched"
        /\ member'[v].role = req[q].role /\ grantor'[v] = grantor[req[q].on]
        /\ \A u \in Users \ {v} : member'[u] = member[u] /\ grantor'[u] = grantor[u]
        /\ \A i \in Invites : /\ invite'[i].role = invite[i].role
                              /\ grantor'[i] = grantor[i]
                              /\ invite[i].state # "absent" => invite'[i].state # "absent"
    BY <1>10, <1>a, <2>1, DoneShape DEF Accept, Member, Invitation
  <2>3. Given(req[q].role, grantor[req[q].on])
    BY <1>c, <2>1
  <2> HIDE DEF v
  <2> QED  BY <1>b, <1>c, <2>1, <2>2, <2>3
<1>11. CASE UNCHANGED vars
  BY <1>11 DEF vars, RolesGiven, At
<1> QED
  BY <1>1, <1>2, <1>3, <1>4, <1>5, <1>6, <1>7, <1>8, <1>9, <1>10, <1>11
  DEF Next, RequestStep

(* However requests overlap, admins and owners are made by owners only,    *)
(* directly or by an invitation of theirs.                                 *)
THEOREM RolesComeFromAbove == Spec => []RolesAreGranted
<1>1. Init => RolesGiven
  BY IdleRow DEF Init, RolesGiven, Given, At
<1>2. RolesGiven => RolesAreGranted
  BY DEF RolesGiven, Given, RolesAreGranted
<1> QED
  BY <1>1, <1>2, Entitlement, GivenStep, PTL DEF Spec

-----------------------------------------------------------------------------
(* The dashboard's link, and its deletion.                                 *)

HasRow(q) == req[q].op \in DashboardOps /\ req[q].pc = "fetched"

(* While requests have had the row one at a time, the one that has it has  *)
(* it as it is, except for what it means to change.                        *)
RowsFresh ==
  /\ dashboard.life = "absent" => dashboard.token = 0
  /\ \A q \in Requests : HasRow(q) =>
       /\ dashboard.life # "absent" /\ req[q].dashboard.life # "absent"
       /\ ~ crossed =>
            /\ dashboard.life = "alive" /\ req[q].dashboard.token = dashboard.token
            /\ \A p \in Requests : HasRow(p) => p = q

LinkStays == ~ crossed' =>
               /\ dashboard.life = "deleted" => dashboard'.life = "deleted"
               /\ dashboard.token # 0 => dashboard'.token = dashboard.token

LEMMA LinkStep == TypeOK /\ RowsFresh /\ [Next]_vars => RowsFresh' /\ LinkStays
<1> SUFFICES ASSUME TypeOK, RowsFresh, [Next]_vars
             PROVE  RowsFresh' /\ LinkStays
  OBVIOUS
<1>a. /\ dashboard \in DashboardRow /\ made \in Nat
      /\ \A q \in Requests : req[q].dashboard \in DashboardRow
  BY DEF TypeOK, RequestRow
<1>b. ASSUME NEW q \in Requests, Others(q), ~ HasRow(q)', UNCHANGED board
      PROVE  RowsFresh' /\ LinkStays
  BY <1>b DEF Others, RowsFresh, HasRow, LinkStays, board
<1>1. ASSUME NEW q \in Requests, NEW u, NEW op, NEW on, NEW role,
             Begin(q, u, op, on, role)
      PROVE  RowsFresh' /\ LinkStays
  BY <1>1, <1>b, BeginShape DEF Begin, HasRow
<1>2. ASSUME NEW q \in Requests,
             \/ End(q) \/ SaveRole(q) \/ DeleteMember(q) \/ Accept(q)
             \/ (\E for \in Users : CreateInvitation(q, for)) \/ CreateKey(q) \/ SaveKey(q)
      PROVE  RowsFresh' /\ LinkStays
  <2>1. Done(q) /\ UNCHANGED board
    BY <1>2 DEF End, Done, SaveRole, DeleteMember, Accept, CreateInvitation, CreateKey,
       SaveKey
  <2> QED  BY <1>b, <2>1, DoneShape DEF HasRow
<1>3. ASSUME NEW q \in Requests, FetchMember(q) \/ FindInvitation(q) \/ FetchKey(q)
      PROVE  RowsFresh' /\ LinkStays
  <2>1. Others(q) /\ Same(q) /\ UNCHANGED board /\ req[q].op \notin DashboardOps
    BY <1>3, FetchShapes DEF FetchMember, FindInvitation, FetchKey, At, DashboardOps
  <2> QED  BY <1>b, <2>1 DEF Same, HasRow
<1>4. ASSUME NEW q \in Requests, NEW public \in BOOLEAN, CreateDashboard(q, public)
      PROVE  RowsFresh' /\ LinkStays
  <2>1. /\ Others(q) /\ req'[q].pc = "idle" /\ dashboard.life = "absent"
        /\ dashboard' = WithToken([life |-> "alive", public |-> public, token |-> 0])
    BY <1>4, DoneShape DEF CreateDashboard
  <2>2. dashboard'.life = "alive"
    BY <2>1 DEF WithToken
  <2>3. \A p \in Requests : ~ HasRow(p)'
    BY <2>1 DEF RowsFresh, HasRow, Others
  <2> QED  BY <2>1, <2>2, <2>3 DEF RowsFresh, LinkStays
<1>5. ASSUME NEW q \in Requests, FetchDashboard(q) PROVE RowsFresh' /\ LinkStays
  <2>1. /\ Others(q) /\ Same(q) /\ req'[q].dashboard = Changed(req[q].op, dashboard)
        /\ dashboard' = dashboard /\ dashboard.life = "alive"
        /\ crossed' = (crossed \/ \E p \in Requests \ {q} : HasRow(p))
    BY <1>5, FetchShapes DEF FetchDashboard, HasRow
  <2>2. req'[q].dashboard.token = dashboard.token /\ req'[q].dashboard.life # "absent"
    BY <1>a, <2>1 DEF Changed, DashboardRow
  <2>3. ASSUME NEW p \in Requests \ {q}, HasRow(p)' PROVE HasRow(p) /\ crossed'
    BY <2>1, <2>3 DEF Others, HasRow
  <2>4. \A p \in Requests \ {q} : req'[p] = req[p]
    BY <2>1 DEF Others
  <2> QED  BY <2>1, <2>2, <2>3, <2>4 DEF RowsFresh, LinkStays
<1>6. ASSUME NEW q \in Requests, SaveDashboard(q) PROVE RowsFresh' /\ LinkStays
  <2>1. /\ Others(q) /\ req'[q].pc = "idle" /\ HasRow(q) /\ crossed' = crossed
    BY <1>6, DoneShape DEF SaveDashboard, HasRow
  <2> DEFINE row == req[q].dashboard
  <2>2. /\ WithToken(row).life = row.life
        /\ row.token # 0 => WithToken(row).token = row.token
    BY <1>a DEF WithToken, NeedsToken, DashboardRow
  <2>3. /\ dashboard'.life = WithToken(row).life
        /\ dashboard'.token \in {dashboard.token, WithToken(row).token}
    BY <1>6 DEF SaveDashboard, DashboardFields
  <2>4. row.life # "absent" /\ (~ crossed => dashboard.life = "alive" /\ row.token = dashboard.token)
    BY <2>1 DEF RowsFresh
  <2>5. ASSUME NEW p \in Requests, HasRow(p)' PROVE p # q /\ HasRow(p) /\ req'[p] = req[p]
    BY <2>1, <2>5 DEF Others, HasRow
  <2> HIDE DEF row
  <2>6. dashboard'.life # "absent" /\ LinkStays
    BY <2>1, <2>2, <2>3, <2>4 DEF LinkStays
  <2> QED  BY <2>1, <2>5, <2>6 DEF RowsFresh
<1>7. ASSUME NEW i \in Invites, Expire(i) PROVE RowsFresh' /\ LinkStays
  BY <1>7 DEF Expire, board, RowsFresh, HasRow, LinkStays
<1>8. CASE UNCHANGED vars
  BY <1>8 DEF vars, RowsFresh, HasRow, LinkStays
<1> QED
  BY <1>1, <1>2, <1>3, <1>4, <1>5, <1>6, <1>7, <1>8 DEF Next, RequestStep

(* Only overlapping requests for the same dashboard can change its link or *)
(* undo its deletion (DashboardDetailView.patch saves every column): one   *)
(* at a time they cannot, whatever they ask for.                           *)
THEOREM OneAtATimeKeepsTheLink == Spec => LinkAndDeletionStay
<1>1. Init => RowsFresh
  BY IdleRow DEF Init, RowsFresh, HasRow, NoDashboard
<1>2. Spec => [][LinkStays]_vars
  BY <1>1, Entitlement, LinkStep, PTL DEF Spec
<1> QED
  BY <1>2 DEF LinkAndDeletionStay, LinkStays



-----------------------------------------------------------------------------
(* Requests one at a time.                                                 *)

LEMMA NothingOverlaps ==
  ASSUME \A p, q \in Requests : p = q
  PROVE  Spec => [](overlapped = {} /\ ~ crossed)
<1>1. Init => overlapped = {} /\ ~ crossed
  BY DEF Init
<1>2. overlapped = {} /\ ~ crossed /\ [Next]_vars => (overlapped = {} /\ ~ crossed)'
  <2> SUFFICES ASSUME overlapped = {}, ~ crossed, [Next]_vars
               PROVE  overlapped' = {} /\ ~ crossed'
    OBVIOUS
  <2>1. \A q \in Requests : Requests \ {q} = {}
    OBVIOUS
  <2>2. ASSUME NEW q \in Requests, RequestStep(q) PROVE overlapped' = {} /\ ~ crossed'
    <3>1. CASE FindInvitation(q)
      <4>1. ~ \E p \in Requests \ {q} : At(p, "accept", "fetched") /\ req[p].on = req[q].on
        BY <2>1
      <4> QED  BY <3>1, <4>1 DEF FindInvitation, board
    <3>2. CASE FetchDashboard(q)
      BY <2>1, <3>2 DEF FetchDashboard, people
    <3>3. CASE FetchMember(q) \/ SaveRole(q) \/ DeleteMember(q) \/ Accept(q)
      BY <3>3 DEF FetchMember, SaveRole, DeleteMember, Accept, people, board
    <3>4. CASE CreateKey(q) \/ FetchKey(q) \/ SaveKey(q) \/ End(q)
      BY <3>4 DEF CreateKey, FetchKey, SaveKey, End, people, board
    <3>5. ASSUME NEW for \in Users, CreateInvitation(q, for)
          PROVE  overlapped' = {} /\ ~ crossed'
      BY <3>5 DEF CreateInvitation, board
    <3>6. ASSUME NEW public \in BOOLEAN, CreateDashboard(q, public)
          PROVE  overlapped' = {} /\ ~ crossed'
      <4>1. UNCHANGED people /\ crossed' = crossed
        BY <3>6 DEF CreateDashboard
      <4> QED  BY <4>1 DEF people
    <3>7. CASE SaveDashboard(q)
      <4>1. UNCHANGED people /\ crossed' = crossed
        BY <3>7 DEF SaveDashboard
      <4> QED  BY <4>1 DEF people
    <3> QED
      BY <2>2, <3>1, <3>2, <3>3, <3>4, <3>5, <3>6, <3>7 DEF RequestStep
  <2>3. ASSUME NEW q \in Requests, NEW u, NEW op, NEW on, NEW role,
               Begin(q, u, op, on, role)
        PROVE  overlapped' = {} /\ ~ crossed'
    BY <2>3 DEF Begin, people, board
  <2> QED  BY <2>2, <2>3 DEF Next, Expire, vars, board
<1> QED  BY <1>1, <1>2, PTL DEF Spec

(* A server that handles one request at a time accepts an invitation at    *)
(* most once, and keeps a dashboard's link and deletion whatever is asked  *)
(* of it: every exception that AcceptedOnce and LinkAndDeletionStay allow  *)
(* for takes two requests that hold the same row (organizations/           *)
(* serializers.py:79-99, dashboards/models.py:23).                         *)
THEOREM OneRequestAtATime ==
  ASSUME \A p, q \in Requests : p = q
  PROVE  /\ Spec => [](\A i \in Invites : uses[i] \in {0, 1})
         /\ Spec => [][/\ dashboard.life = "deleted" => dashboard'.life = "deleted"
                       /\ dashboard.token # 0 => dashboard'.token = dashboard.token]_vars
<1>1. Init => UsedOnce /\ RowsFresh
  BY IdleRow DEF Init, UsedOnce, Accepting, At, RowsFresh, HasRow, NoDashboard
<1>2. UsedOnce /\ overlapped = {} => \A i \in Invites : uses[i] \in {0, 1}
  BY DEF UsedOnce
<1>3. Spec => [](\A i \in Invites : uses[i] \in {0, 1})
  BY <1>1, <1>2, NothingOverlaps, Entitlement, UseStep, PTL DEF Spec
<1>4. LinkStays /\ (~ crossed)' =>
        /\ dashboard.life = "deleted" => dashboard'.life = "deleted"
        /\ dashboard.token # 0 => dashboard'.token = dashboard.token
  BY DEF LinkStays
<1>5. Spec => [][/\ dashboard.life = "deleted" => dashboard'.life = "deleted"
                 /\ dashboard.token # 0 => dashboard'.token = dashboard.token]_vars
  BY <1>1, <1>4, NothingOverlaps, Entitlement, LinkStep, PTL DEF Spec
<1> QED  BY <1>3, <1>5
=============================================================================
