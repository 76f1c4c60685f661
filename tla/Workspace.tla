----------------------------- MODULE Workspace -----------------------------
(***************************************************************************)
(* What the members of one organization share: memberships and invitations *)
(* (organizations/), an API key (api_keys/) and a dashboard (dashboards/). *)
(* A request reads the role of its user, then the row it is about, and     *)
(* then saves columns of that row; requests overlap between these steps.   *)
(***************************************************************************)
EXTENDS Naturals, FiniteSets

CONSTANTS
  Users,        \* users that are, or may become, members
  Founder,      \* the user whose sign-up created the organization
  Invites,      \* invitations
  Requests,     \* request handlers that may run at the same time
  Ops,          \* the operations clients request, a subset of AllOps
  Nothing,      \* no operation, no user, no target
  MaxRequests   \* bound: requests in all

MemberOps    == {"role", "remove"}
KeyOps       == {"createKey", "rotate", "revoke"}
DashboardOps == {"createDashboard", "publish", "unpublish", "rename", "deleteDashboard"}
AllOps == MemberOps \union {"invite", "accept"} \union KeyOps \union DashboardOps

ASSUME WorkspaceConstants ==
  /\ Founder \in Users /\ Ops \subseteq AllOps /\ MaxRequests \in Nat
  /\ Nothing \notin Users \union Invites /\ Users \intersect Invites = {}

VARIABLES
  member,     \* memberships by user: the role, and which row of theirs it is
  invite,     \* invitations: state, role and the user they are for
  key,        \* the API key: the secret of its hash (0: no key yet), revoked?
  dashboard,  \* the dashboard: life, public?, token of its link (0: none)
  req,        \* handlers: pc, operation, user, role as read, target, the role
              \* asked for or offered, the membership, key, dashboard in memory
  made,       \* secrets and tokens made so far; each is new
  spent,      \* requests so far
  \* History variables.
  grantor,    \* by user and by invitation, the role of whoever gave the role
  uses,       \* by invitation, how often it was accepted
  overlapped, \* invitations that two acceptances had in hand at once
  steppedDown,  \* users who, being Owner, have accepted a lower invitation
  belated,    \* changes of role and removals that had someone's membership in
              \* hand when they became an Owner, and are still under way
  replaced,   \* secrets that a rotation has replaced
  crossed     \* have two requests had the dashboard's row in memory at once?

vars == <<member, invite, key, dashboard, req, made, spent,
          grantor, uses, overlapped, steppedDown, belated, replaced, crossed>>
people  == <<member, invite, grantor, uses, overlapped, steppedDown, belated>>
keys    == <<key, replaced>>
board   == <<dashboard, crossed>>

Roles == {"Viewer", "Analyst", "Admin", "Owner"}
Rank  == [r \in Roles \union {"none"} |->
            CASE r = "Owner" -> 40 [] r = "Admin" -> 30 [] r = "Analyst" -> 20
              [] r = "Viewer" -> 10 [] OTHER -> 0]

(* The least role that an operation needs; acceptance needs no membership. *)
Minimum(op) == IF op = "accept" THEN "none"
               ELSE IF op \in DashboardOps THEN "Analyst" ELSE "Admin"

(* The permission class of the view: the role of the membership suffices.  *)
Permitted(u, op) == Rank[member[u].role] >= Rank[Minimum(op)]

(* Mutant: admins may assign any role.                                     *)
AssignAny(held, role) == TRUE

(* Roles that a member may give: admins give the two lower ones only.      *)
MayAssign(held, role) == held = "Admin" => role \in {"Analyst", "Viewer"}

NoInvitation == [state |-> "absent", role |-> "none", for |-> Nothing]
NoKey       == [secret |-> 0, revoked |-> FALSE]
NoDashboard == [life |-> "absent", public |-> FALSE, token |-> 0]
IdleRequest == [pc |-> "idle", op |-> Nothing, by |-> Nothing, held |-> "none",
                on |-> Nothing, role |-> "none", row |-> 0, key |-> NoKey,
                dashboard |-> NoDashboard]

(* Some members have come in before; the founder is the owner.             *)
Init ==
  /\ member \in [Users -> [role : {"none", "Viewer", "Admin", "Owner"}, row : {0}]]
  /\ \A u \in Users : member[u].role = "Owner" <=> u = Founder
  /\ invite = [i \in Invites |-> NoInvitation]
  /\ key = NoKey /\ dashboard = NoDashboard
  /\ req = [q \in Requests |-> IdleRequest]
  /\ made = 0 /\ spent = 0
  /\ grantor = [x \in Users \union Invites |-> "Owner"]
  /\ uses = [i \in Invites |-> 0]
  /\ overlapped = {} /\ steppedDown = {} /\ belated = {}
  /\ replaced = {} /\ crossed = FALSE

At(q, op, pc) == req[q].op = op /\ req[q].pc = pc

-----------------------------------------------------------------------------
(* A request begins with the permission check, which reads the oldest      *)
(* membership of its user; it is taken to be the one of this organization. *)

Targets(op) == CASE op \in MemberOps -> Users
                 [] op \in {"invite", "accept"} -> Invites
                 [] OTHER -> {Nothing}

Begin(q, u, op, on, role) ==
  /\ req[q].pc = "idle" /\ spent < MaxRequests
  /\ Permitted(u, op)
  /\ req' = [req EXCEPT ![q] = [IdleRequest EXCEPT !.pc = "begun", !.op = op,
               !.by = u, !.held = member[u].role, !.on = on, !.role = role]]
  /\ spent' = spent + 1
  /\ UNCHANGED <<people, keys, board, made>>

(* A request ends: with a refusal, an error, or a process that dies.       *)
End(q) ==
  /\ req[q].pc # "idle"
  /\ req' = [req EXCEPT ![q] = IdleRequest]
  /\ belated' = belated \ {q}
  /\ UNCHANGED <<member, invite, grantor, uses, overlapped, steppedDown, keys,
                 board, made, spent>>

Done(q)      == req' = [req EXCEPT ![q] = IdleRequest]
Hold(q, row) == req' = [req EXCEPT ![q] = row]

-----------------------------------------------------------------------------
(* Memberships.                                                            *)

(* Mutant: the owner is not looked out for.                                *)
FetchAnyone(q) ==
  /\ At(q, "role", "begun") \/ At(q, "remove", "begun")
  /\ member[req[q].on].role # "none"
  /\ req[q].op = "role" =>
       req[q].role # "Owner" /\ MayAssign(req[q].held, req[q].role)
  /\ Hold(q, [req[q] EXCEPT !.pc = "fetched", !.row = member[req[q].on].row])
  /\ UNCHANGED <<people, keys, board, made, spent>>

FetchMember(q) ==
  /\ At(q, "role", "begun") \/ At(q, "remove", "begun")
  /\ member[req[q].on].role \notin {"none", "Owner"}
  /\ req[q].op = "role" =>
       req[q].role # "Owner" /\ MayAssign(req[q].held, req[q].role)
  /\ Hold(q, [req[q] EXCEPT !.pc = "fetched", !.row = member[req[q].on].row])
  /\ UNCHANGED <<people, keys, board, made, spent>>

(* The row that was fetched may be gone, and another one in its place.     *)
InPlace(q) == LET m == member[req[q].on] IN m.role # "none" /\ m.row = req[q].row

SaveRole(q) ==
  /\ At(q, "role", "fetched") /\ InPlace(q)
  /\ member' = [member EXCEPT ![req[q].on] = [@ EXCEPT !.role = req[q].role]]
  /\ grantor' = [grantor EXCEPT ![req[q].on] = req[q].held]
  /\ belated' = belated \ {q}
  /\ Done(q)
  /\ UNCHANGED <<invite, uses, overlapped, steppedDown, keys, board, made, spent>>

DeleteMember(q) ==
  /\ At(q, "remove", "fetched") /\ InPlace(q)
  /\ member' = [member EXCEPT ![req[q].on] = [role |-> "none", row |-> @.row + 1]]
  /\ belated' = belated \ {q}
  /\ Done(q)
  /\ UNCHANGED <<invite, grantor, uses, overlapped, steppedDown, keys, board,
                 made, spent>>

-----------------------------------------------------------------------------
(* Invitations.                                                            *)

CreateInvitation(q, for) ==
  /\ At(q, "invite", "begun") /\ invite[req[q].on].state = "absent"
  /\ MayAssign(req[q].held, req[q].role)
  /\ invite' = [invite EXCEPT ![req[q].on] =
                  [state |-> "open", role |-> req[q].role, for |-> for]]
  /\ grantor' = [grantor EXCEPT ![req[q].on] = req[q].held]
  /\ Done(q)
  /\ UNCHANGED <<member, uses, overlapped, steppedDown, belated, keys, board,
                 made, spent>>

(* Seven days have passed.                                                 *)
Expire(i) ==
  /\ invite[i].state = "open"
  /\ invite' = [invite EXCEPT ![i] = [@ EXCEPT !.state = "expired"]]
  /\ UNCHANGED <<member, grantor, uses, overlapped, steppedDown, belated, keys,
                 board, req, made, spent>>

FindInvitation(q) ==
  /\ At(q, "accept", "begun")
  /\ invite[req[q].on].state = "open" /\ invite[req[q].on].for = req[q].by
  /\ Hold(q, [req[q] EXCEPT !.pc = "fetched", !.role = invite[req[q].on].role])
  /\ overlapped' =
       IF \E p \in Requests \ {q} : At(p, "accept", "fetched") /\ req[p].on = req[q].on
       THEN overlapped \union {req[q].on} ELSE overlapped
  /\ UNCHANGED <<member, invite, grantor, uses, steppedDown, belated, keys,
                 board, made, spent>>

(* The changes of role and removals that have u's membership in hand.      *)
Changing(u) == {p \in Requests : /\ req[p].op \in MemberOps
                                 /\ req[p].pc = "fetched" /\ req[p].on = u}

(* Who steps down by the acceptance q, and what it comes in the way of.    *)
NoteOwner(q) ==
  LET u == req[q].by IN
  /\ steppedDown' = IF member[u].role = "Owner" /\ req[q].role # "Owner"
                    THEN steppedDown \union {u} ELSE steppedDown
  /\ belated' = IF member[u].role # "Owner" /\ req[q].role = "Owner"
                THEN belated \union Changing(u) ELSE belated

(* Mutant: accepted_at is not saved.                                       *)
AcceptOnly(q) ==
  /\ At(q, "accept", "fetched")
  /\ member' = [member EXCEPT ![req[q].by] = [@ EXCEPT !.role = req[q].role]]
  /\ grantor' = [grantor EXCEPT ![req[q].by] = grantor[req[q].on]]
  /\ uses' = [uses EXCEPT ![req[q].on] = @ + 1]
  /\ NoteOwner(q)
  /\ Done(q)
  /\ UNCHANGED <<invite, overlapped, keys, board, made, spent>>

(* One transaction: update_or_create of the membership, with the row       *)
(* locked, and accepted_at.                                                *)
Accept(q) ==
  /\ At(q, "accept", "fetched")
  /\ member' = [member EXCEPT ![req[q].by] = [@ EXCEPT !.role = req[q].role]]
  /\ invite' = [invite EXCEPT ![req[q].on] = [@ EXCEPT !.state = "accepted"]]
  /\ grantor' = [grantor EXCEPT ![req[q].by] = grantor[req[q].on]]
  /\ uses' = [uses EXCEPT ![req[q].on] = @ + 1]
  /\ NoteOwner(q)
  /\ Done(q)
  /\ UNCHANGED <<overlapped, keys, board, made, spent>>

-----------------------------------------------------------------------------
(* The API key.                                                            *)

CreateKey(q) ==
  /\ At(q, "createKey", "begun") /\ key = NoKey
  /\ made' = made + 1
  /\ key' = [secret |-> made + 1, revoked |-> FALSE]
  /\ Done(q)
  /\ UNCHANGED <<people, replaced, board, spent>>

(* rotate() makes its secret before it saves; revoke() sets revoked_at.    *)
FetchKey(q) ==
  /\ At(q, "rotate", "begun") \/ At(q, "revoke", "begun")
  /\ key # NoKey
  /\ made' = IF req[q].op = "rotate" THEN made + 1 ELSE made
  /\ Hold(q, [req[q] EXCEPT !.pc = "fetched", !.key =
       IF req[q].op = "rotate" THEN [secret |-> made + 1, revoked |-> FALSE]
       ELSE [key EXCEPT !.revoked = TRUE]])
  /\ UNCHANGED <<people, keys, board, spent>>

(* Mutant: update_fields is forgotten.                                     *)
AllKeyFields(op) == {"secret", "revoked"}

KeyFields(op) == IF op = "rotate" THEN {"secret", "revoked"} ELSE {"revoked"}

SaveKey(q) ==
  /\ At(q, "rotate", "fetched") \/ At(q, "revoke", "fetched")
  /\ key' = [f \in {"secret", "revoked"} |->
               IF f \in KeyFields(req[q].op) THEN req[q].key[f] ELSE key[f]]
  /\ replaced' = IF key'.secret # key.secret THEN replaced \union {key.secret}
                 ELSE replaced
  /\ Done(q)
  /\ UNCHANGED <<people, board, made, spent>>

-----------------------------------------------------------------------------
(* The dashboard.                                                          *)

(* Mutant: a public dashboard gets a new token with every save.            *)
AlwaysNeedsToken(row) == row.public

(* Dashboard.save(): a public dashboard without a token is given one.      *)
NeedsToken(row) == row.public /\ row.token = 0
WithToken(row)  == IF NeedsToken(row) THEN [row EXCEPT !.token = made + 1] ELSE row

CreateDashboard(q, public) ==
  /\ At(q, "createDashboard", "begun") /\ dashboard.life = "absent"
  /\ dashboard' = WithToken([life |-> "alive", public |-> public, token |-> 0])
  /\ made' = IF public THEN made + 1 ELSE made
  /\ Done(q)
  /\ UNCHANGED <<people, keys, crossed, spent>>

(* The row as the handler means to save it.                                *)
Changed(op, row) ==
  CASE op = "publish"         -> [row EXCEPT !.public = TRUE]
    [] op = "unpublish"       -> [row EXCEPT !.public = FALSE]
    [] op = "deleteDashboard" -> [row EXCEPT !.life = "deleted"]
    [] OTHER                  -> row

FetchDashboard(q) ==
  /\ req[q].op \in DashboardOps \ {"createDashboard"} /\ req[q].pc = "begun"
  /\ dashboard.life = "alive"
  /\ Hold(q, [req[q] EXCEPT !.pc = "fetched",
                            !.dashboard = Changed(req[q].op, dashboard)])
  /\ crossed' = (crossed \/ \E p \in Requests \ {q} :
                   req[p].op \in DashboardOps /\ req[p].pc = "fetched")
  /\ UNCHANGED <<people, keys, dashboard, made, spent>>

(* PATCH saves the whole row, delete() its own column.                     *)
DashboardFields(op) == IF op = "deleteDashboard" THEN {"life"}
                       ELSE {"life", "public", "token"}

SaveDashboard(q) ==
  /\ req[q].op \in DashboardOps \ {"createDashboard"} /\ req[q].pc = "fetched"
  /\ dashboard' = [f \in {"life", "public", "token"} |->
                     IF f \in DashboardFields(req[q].op)
                     THEN WithToken(req[q].dashboard)[f] ELSE dashboard[f]]
  /\ made' = IF NeedsToken(req[q].dashboard) THEN made + 1 ELSE made
  /\ Done(q)
  /\ UNCHANGED <<people, keys, crossed, spent>>

-----------------------------------------------------------------------------
RequestStep(q) ==
  \/ FetchMember(q) \/ SaveRole(q) \/ DeleteMember(q)
  \/ \E for \in Users : CreateInvitation(q, for)
  \/ FindInvitation(q) \/ Accept(q)
  \/ CreateKey(q) \/ FetchKey(q) \/ SaveKey(q)
  \/ \E public \in BOOLEAN : CreateDashboard(q, public)
  \/ FetchDashboard(q) \/ SaveDashboard(q)
  \/ End(q)

Next ==
  \/ \E q \in Requests, u \in Users, op \in Ops :
       \E on \in Targets(op), role \in IF op \in {"role", "invite"} THEN Roles ELSE {"none"} :
         Begin(q, u, op, on, role)
  \/ \E q \in Requests : RequestStep(q)
  \/ \E i \in Invites : Expire(i)

Spec == Init /\ [][Next]_vars

-----------------------------------------------------------------------------
(* Properties.                                                             *)

KeyRow       == [secret : Nat, revoked : BOOLEAN]
DashboardRow == [life : {"absent", "alive", "deleted"}, public : BOOLEAN, token : Nat]

RequestRow == [pc : {"idle", "begun", "fetched"}, op : AllOps \union {Nothing},
               by : Users \union {Nothing}, held : Roles \union {"none"},
               on : Users \union Invites \union {Nothing}, role : Roles \union {"none"},
               row : Nat, key : KeyRow, dashboard : DashboardRow]

TypeOK ==
  /\ member \in [Users -> [role : Roles \union {"none"}, row : Nat]]
  /\ invite \in [Invites -> [state : {"absent", "open", "accepted", "expired"},
                             role : Roles \union {"none"},
                             for : Users \union {Nothing}]]
  /\ key \in KeyRow /\ dashboard \in DashboardRow
  /\ req \in [Requests -> RequestRow]
  /\ \A q \in Requests :
       /\ req[q].pc # "idle" => /\ req[q].op \in Ops /\ req[q].by \in Users
                                /\ req[q].on \in Targets(req[q].op)
       /\ At(q, "accept", "fetched") => req[q].role # "none"
  /\ made \in Nat /\ spent \in 0..MaxRequests
  /\ grantor \in [Users \union Invites -> Roles]
  /\ uses \in [Invites -> Nat] /\ overlapped \subseteq Invites
  /\ steppedDown \subseteq Users /\ belated \subseteq Requests
  /\ replaced \subseteq Nat /\ crossed \in BOOLEAN

(* Whoever is an Admin or an Owner was made so, by a change of role or by  *)
(* an invitation accepted later, on the authority of an Owner, and others  *)
(* on that of an Admin or an Owner (organizations/views.py:64,             *)
(* organizations/serializers.py:55).                                       *)
RolesAreGranted ==
  \A u \in Users :
    /\ member[u].role \in {"Admin", "Owner"} => grantor[u] = "Owner"
    /\ member[u].role \in {"Analyst", "Viewer"} => grantor[u] \in {"Admin", "Owner"}

(* An Owner loses the role in two ways only: by accepting an invitation to *)
(* a lower one, or by a change of role or a removal that had fetched their *)
(* membership before they became an Owner: the saves at organizations/     *)
(* views.py:64 and 72 go by the checks at 56 and 70, and nothing holds the *)
(* row in between.  The second way takes away the last owner, too, if the  *)
(* one who invited them has stepped down meanwhile.                        *)
OwnersKeepTheirRole ==
  [][\A u \in Users : member[u].role = "Owner" /\ member'[u].role # "Owner" =>
       \/ \E q \in Requests : /\ At(q, "accept", "fetched") /\ req[q].by = u
                              /\ req'[q].pc = "idle"
       \/ \E q \in belated \ belated' : req[q].on = u]_vars

(* An invitation is used twice only by acceptances that overlap            *)
(* (InvitationAcceptSerializer.save reads it without a lock).              *)
AcceptedOnce == \A i \in Invites : uses[i] > 1 => i \in overlapped

(* A secret that a rotation has replaced is never that of the key again,   *)
(* although a revocation may save a row it fetched before the rotation.    *)
SecretsNeverReturn == key.secret \notin replaced

(* A public dashboard has a link, whatever saves overlap.                  *)
PublicHasToken == dashboard.public => dashboard.token # 0

(* Unless two requests had its row in memory at once, a deleted dashboard  *)
(* stays deleted, and its link is the same for good, unpublished or not.   *)
LinkAndDeletionStay ==
  [][~ crossed' =>
       /\ dashboard.life = "deleted" => dashboard'.life = "deleted"
       /\ dashboard.token # 0 => dashboard'.token = dashboard.token]_vars
=============================================================================
