------------------------------ MODULE Accounts ------------------------------
(***************************************************************************)
(* Accounts and sessions: sign-up, login, rotation of the refresh token,   *)
(* logout and the profile, as requests of one browser whose answers arrive *)
(* in any order or not at all, and the seeding of the demo tenant.  A step *)
(* is one committed transaction, or one statement where there is none.     *)
(* Browsers share no token.  Organization names all make the same slug,    *)
(* the demo tenant's; slug n is the one with the suffix -n, and 1 has none. *)
(***************************************************************************)
EXTENDS Integers, Sequences, FiniteSets

CONSTANTS
  Requests,    \* requests that may be under way at the same time
  Emails,      \* addresses, compared as email__iexact and lower() do
  DemoEmail,   \* the demo tenant's owner
  Dates,       \* days of the year on which the demo may be seeded
  Losses,      \* whether answers may be lost
  MaxInputs    \* bound: requests, lost answers and seedings in all

ASSUME AccountConstants ==
  /\ DemoEmail \in Emails /\ Dates \subseteq 0 .. 364
  /\ Losses \in BOOLEAN /\ MaxInputs \in Nat

VARIABLES
  account,   \* whose password each account has: "none" without an account
  org,       \* organizations, each with the owner's active membership
  token,     \* refresh tokens in the order they were issued; .login is the
             \* first token of the login they descend from
  cookie,    \* the browser's refresh token, 0 without one
  req,       \* the requests
  seed,      \* the seed_demo command
  mixed,     \* logins whose token two requests carried at the same time or
             \* whose answer was lost (a history variable)
  evicted,   \* owners whose organization a seeding deleted (a history variable)
  budget     \* inputs that may still happen

vars == <<account, org, token, cookie, req, seed, mixed, evicted, budget>>

Idle == [pc |-> "idle", op |-> "none", email |-> DemoEmail, slug |-> 0, tok |-> 0,
         new |-> 0, kept |-> "none", alone |-> TRUE]

Init ==
  /\ account = [e \in Emails |-> "none"] /\ org = {}
  /\ token = <<>> /\ cookie = 0
  /\ req = [r \in Requests |-> Idle]
  /\ seed = [pc |-> "idle", found |-> {}, date |-> 0, alone |-> TRUE]
  /\ mixed = {} /\ evicted = {} /\ budget = MaxInputs

Spend == budget > 0 /\ budget' = budget - 1

UnderWay(op) == {r \in Requests : req[r].pc # "idle" /\ req[r].op = op}
Seeding      == seed.pc = "read"
Taken        == {o.slug : o \in org}
HasTenant(e) == \E o \in org : o.owner = e

(* A new refresh token; 0 starts a login.                                  *)
Issue(login) ==
  Append(token, [live |-> TRUE, login |-> IF login = 0 THEN Len(token) + 1 ELSE login])

Blacklisted(t) == [token EXCEPT ![t].live = FALSE]

-----------------------------------------------------------------------------
(* Requests: the browser sends its cookie with each.                       *)

Carrying(t) ==
  {r \in Requests : req[r].tok # 0 /\ t # 0 /\ token[req[r].tok].login = token[t].login}

Send(r, op, e, pc) ==
  /\ req[r].pc = "idle"
  /\ Spend
  /\ LET tok == IF op \in {"refresh", "logout"} THEN cookie ELSE 0 IN
     /\ req' = [s \in Requests |->
          IF s = r THEN [Idle EXCEPT !.pc = pc, !.op = op, !.email = e, !.tok = tok,
                           !.alone = UnderWay("signup") = {} /\ ~ Seeding]
          ELSE IF op = "signup" /\ s \in UnderWay("signup")
               THEN [req[s] EXCEPT !.alone = FALSE] ELSE req[s]]
     /\ mixed' = IF Carrying(tok) = {} THEN mixed ELSE mixed \union {token[tok].login}
  /\ seed' = IF Seeding /\ op \in {"signup", "me"} THEN [seed EXCEPT !.alone = FALSE]
             ELSE seed
  /\ UNCHANGED <<account, org, token, cookie, evicted>>

SendSignup(r, e) == Send(r, "signup", e, "validate")
SendLogin(r, e)  == Send(r, "login", e, "check")
SendRefresh(r)   == Send(r, "refresh", DemoEmail, "check")
SendLogout(r)    == Send(r, "logout", DemoEmail, "check")
SendMe(r, e)     == HasTenant(e) /\ Send(r, "me", e, "fetch")

Goto(r, pc) == req' = [req EXCEPT ![r].pc = pc]

(* The answer carries a cookie when .new is not 0.                         *)
AnswerWith(r, new) == req' = [req EXCEPT ![r].pc = "answer", ![r].new = new]

(* Mutant: the address is not looked up.                                   *)
ValidateNothing(r) ==
  /\ req[r].pc = "validate"
  /\ Goto(r, "slug")
  /\ UNCHANGED <<account, org, token, cookie, seed, mixed, evicted, budget>>

(* validate_email runs before the transaction of create().                 *)
ValidateEmail(r) ==
  /\ req[r].pc = "validate"
  /\ Goto(r, IF account[req[r].email] = "none" THEN "slug" ELSE "answer")
  /\ UNCHANGED <<account, org, token, cookie, seed, mixed, evicted, budget>>

(* The loop over the suffixes.  A slug that was taken when the loop passed *)
(* it is taken still: a seeding that deletes one takes it again.           *)
FindSlug(r) ==
  /\ req[r].pc = "slug"
  /\ \E n \in 1 .. Cardinality(org) + 1 :
       /\ n \notin Taken /\ 1 .. n - 1 \subseteq Taken
       /\ req' = [req EXCEPT ![r].pc = "create", ![r].slug = n]
  /\ UNCHANGED <<account, org, token, cookie, seed, mixed, evicted, budget>>

(* The transaction: account, preferences, organization, membership, two    *)
(* channels and a token.                                                   *)
CreateTenant(r) ==
  /\ req[r].pc = "create"
  /\ account[req[r].email] = "none" /\ req[r].slug \notin Taken
  /\ account' = [account EXCEPT ![req[r].email] = "own"]
  /\ org' = org \union {[slug |-> req[r].slug, owner |-> req[r].email]}
  /\ token' = Issue(0)
  /\ AnswerWith(r, Len(token) + 1)
  /\ UNCHANGED <<cookie, seed, mixed, evicted, budget>>

(* A unique constraint raises IntegrityError: everything is rolled back    *)
(* and the client gets an error 500.                                       *)
RejectTenant(r) ==
  /\ req[r].pc = "create"
  /\ account[req[r].email] # "none" \/ req[r].slug \in Taken
  /\ req' = [req EXCEPT ![r].pc = "error"]
  /\ UNCHANGED <<account, org, token, cookie, seed, mixed, evicted, budget>>

(* A wrong password, or an account without an active membership, is        *)
(* refused.                                                                *)
CheckLogin(r) ==
  /\ req[r].pc = "check" /\ req[r].op = "login"
  /\ \/ /\ account[req[r].email] # "none" /\ HasTenant(req[r].email)
        /\ token' = Issue(0) /\ AnswerWith(r, Len(token) + 1)
     \/ /\ Goto(r, "answer") /\ UNCHANGED token
  /\ UNCHANGED <<account, org, cookie, seed, mixed, evicted, budget>>

(* TokenRefreshSerializer looks the token up in the blacklist ...          *)
CheckToken(r) ==
  /\ req[r].pc = "check" /\ req[r].op \in {"refresh", "logout"}
  /\ Goto(r, IF req[r].tok # 0 /\ token[req[r].tok].live THEN "blacklist" ELSE "answer")
  /\ UNCHANGED <<account, org, token, cookie, seed, mixed, evicted, budget>>

(* Mutant: rotation without BLACKLIST_AFTER_ROTATION.                      *)
RotateOnly(r) ==
  /\ req[r].pc = "blacklist" /\ req[r].op = "refresh"
  /\ token' = Issue(token[req[r].tok].login)
  /\ AnswerWith(r, Len(token) + 1)
  /\ UNCHANGED <<account, org, cookie, seed, mixed, evicted, budget>>

(* ... and puts it there when it makes the next one.                       *)
Rotate(r) ==
  /\ req[r].pc = "blacklist" /\ req[r].op = "refresh"
  /\ token' = Append(Blacklisted(req[r].tok),
                     [live |-> TRUE, login |-> token[req[r].tok].login])
  /\ AnswerWith(r, Len(token) + 1)
  /\ UNCHANGED <<account, org, cookie, seed, mixed, evicted, budget>>

Logout(r) ==
  /\ req[r].pc = "blacklist" /\ req[r].op = "logout"
  /\ token' = Blacklisted(req[r].tok)
  /\ Goto(r, "answer")
  /\ UNCHANGED <<account, org, cookie, seed, mixed, evicted, budget>>

(* The request is authenticated with the whole account ...                 *)
FetchMe(r) ==
  /\ req[r].pc = "fetch"
  /\ req' = [req EXCEPT ![r].pc = "save", ![r].kept = account[req[r].email]]
  /\ UNCHANGED <<account, org, token, cookie, seed, mixed, evicted, budget>>

(* ... and PATCH saves every column of it.                                 *)
SaveMe(r) ==
  /\ req[r].pc = "save"
  /\ account' = [account EXCEPT ![req[r].email] = req[r].kept]
  /\ Goto(r, "answer")
  /\ UNCHANGED <<org, token, cookie, seed, mixed, evicted, budget>>

(* Mutant: the cookie keeps the token of the login, rotated or not.        *)
AnswerOld(r) ==
  /\ req[r].pc = "answer"
  /\ cookie' = IF req[r].op = "logout" THEN 0
               ELSE IF req[r].new # 0 THEN token[req[r].new].login ELSE cookie
  /\ req' = [req EXCEPT ![r] = Idle]
  /\ UNCHANGED <<account, org, token, seed, mixed, evicted, budget>>

(* set_refresh_cookie and clear_refresh_cookie, when the answer arrives.   *)
Answer(r) ==
  /\ req[r].pc = "answer"
  /\ cookie' = IF req[r].op = "logout" THEN 0
               ELSE IF req[r].new # 0 THEN req[r].new ELSE cookie
  /\ req' = [req EXCEPT ![r] = Idle]
  /\ UNCHANGED <<account, org, token, seed, mixed, evicted, budget>>

AnswerError(r) ==
  /\ req[r].pc = "error"
  /\ req' = [req EXCEPT ![r] = Idle]
  /\ UNCHANGED <<account, org, token, cookie, seed, mixed, evicted, budget>>

(* The connection breaks, or the server dies between two steps.            *)
LoseAnswer(r) ==
  /\ Losses /\ req[r].pc # "idle"
  /\ Spend
  /\ mixed' = IF req[r].tok = 0 THEN mixed ELSE mixed \union {token[req[r].tok].login}
  /\ req' = [req EXCEPT ![r] = Idle]
  /\ UNCHANGED <<account, org, token, cookie, seed, evicted>>

RequestStep(r) ==
  \/ ValidateEmail(r) \/ FindSlug(r) \/ CreateTenant(r) \/ RejectTenant(r)
  \/ CheckLogin(r) \/ CheckToken(r) \/ Rotate(r) \/ Logout(r) \/ FetchMe(r) \/ SaveMe(r)
  \/ Answer(r) \/ AnswerError(r)

-----------------------------------------------------------------------------
(* The demo tenant, in one transaction.                                    *)

MonthStart == <<0, 31, 59, 90, 120, 151, 181, 212, 243, 273, 304, 334>>

(* The month of a day of a year of 365 days, or of the year before.        *)
Month(day) == Cardinality({m \in 1 .. 12 : MonthStart[m] <= day % 365})

(* Invoice numbers name the month, of today and of every thirtieth day     *)
(* before; the organization's must differ.                                 *)
InvoicesClash(day) ==
  \E j, k \in 0 .. 3 : j # k /\ Month(day - 30 * j) = Month(day - 30 * k)

StartSeed(day) ==
  /\ ~ Seeding /\ Spend
  /\ seed' = [pc |-> "read", found |-> {o \in org : o.slug = 1}, date |-> day,
              alone |-> UnderWay("signup") \union UnderWay("me") = {}]
  /\ req' = [r \in Requests |-> IF r \in UnderWay("signup")
                                THEN [req[r] EXCEPT !.alone = FALSE] ELSE req[r]]
  /\ UNCHANGED <<account, org, token, cookie, mixed, evicted>>

Blocked == InvoicesClash(seed.date) \/ (\E o \in org \ seed.found : o.slug = 1)

(* Mutant: get_or_create instead of update_or_create.                      *)
CommitSeedOnce ==
  /\ Seeding /\ ~ Blocked
  /\ account' = [account EXCEPT ![DemoEmail] = IF @ = "none" THEN "demo" ELSE @]
  /\ org' = (org \ seed.found) \union {[slug |-> 1, owner |-> DemoEmail]}
  /\ evicted' = evicted \union {o.owner : o \in seed.found}
  /\ seed' = [seed EXCEPT !.pc = "done", !.found = {}]
  /\ UNCHANGED <<token, cookie, req, mixed, budget>>

(* What was found with the slug is deleted with all that belongs to it,    *)
(* the owner's account is created or given the demo's password.            *)
CommitSeed ==
  /\ Seeding /\ ~ Blocked
  /\ account' = [account EXCEPT ![DemoEmail] = "demo"]
  /\ org' = (org \ seed.found) \union {[slug |-> 1, owner |-> DemoEmail]}
  /\ evicted' = evicted \union {o.owner : o \in seed.found}
  /\ seed' = [seed EXCEPT !.pc = "done", !.found = {}]
  /\ UNCHANGED <<token, cookie, req, mixed, budget>>

AbortSeed ==
  /\ Seeding /\ Blocked
  /\ seed' = [seed EXCEPT !.pc = "failed", !.found = {}]
  /\ UNCHANGED <<account, org, token, cookie, req, mixed, evicted, budget>>

-----------------------------------------------------------------------------
Next ==
  \/ \E r \in Requests :
       \/ RequestStep(r) \/ SendRefresh(r) \/ SendLogout(r) \/ LoseAnswer(r)
       \/ \E e \in Emails : SendSignup(r, e) \/ SendLogin(r, e) \/ SendMe(r, e)
  \/ \E day \in Dates : StartSeed(day)
  \/ CommitSeed \/ AbortSeed

Spec == Init /\ [][Next]_vars

-----------------------------------------------------------------------------
(* Properties.                                                             *)

Request == [pc : {"idle", "validate", "slug", "create", "check", "blacklist", "fetch",
                  "save", "answer", "error"},
            op : {"none", "signup", "login", "refresh", "logout", "me"},
            email : Emails, slug : Nat, tok : Nat, new : Nat,
            kept : {"none", "own", "demo"}, alone : BOOLEAN]

TypeOK ==
  /\ account \in [Emails -> {"none", "own", "demo"}]
  /\ org \subseteq [slug : Nat \ {0}, owner : Emails] /\ IsFiniteSet(org)
  /\ token \in Seq([live : BOOLEAN, login : Nat])
  /\ \A t \in DOMAIN token : token[t].login \in DOMAIN token
  /\ cookie \in 0 .. Len(token)
  /\ req \in [Requests -> Request]
  /\ \A r \in Requests : /\ req[r].tok \in 0 .. Len(token)
                         /\ req[r].new \in 0 .. Len(token)
                         /\ req[r].pc = "blacklist" => req[r].tok # 0
                         /\ req[r].pc = "idle" => req[r] = Idle
  /\ seed \in [pc : {"idle", "read", "done", "failed"}, found : SUBSET org,
               date : 0 .. 364, alone : BOOLEAN]
  /\ mixed \subseteq DOMAIN token /\ evicted \subseteq Emails
  /\ budget \in 0 .. MaxInputs

(* The address and the slug are looked up before the rows are inserted,    *)
(* and the unique constraints alone decide: a sign-up ends in an error 500 *)
(* only when another sign-up or a seeding overlapped it, and two accounts  *)
(* never share an organization's slug.                                     *)
SignupFailsOnlyByOverlap ==
  /\ \A r \in Requests : req[r].pc = "error" => ~ req[r].alone
  /\ \A o, p \in org : o.slug = p.slug => o = p

(* A login has one refresh token that works, and none once a logout was    *)
(* answered, unless two requests carried its token at the same time (both  *)
(* find it outside the blacklist) or an answer of it was lost (LogoutView  *)
(* ignores the TokenError of the token the browser then still has).        *)
OneSessionPerLogin ==
  /\ \A i, j \in DOMAIN token :
       i # j /\ token[i].live /\ token[j].live /\ token[i].login = token[j].login
       => token[i].login \in mixed
  /\ \A r \in Requests, i \in DOMAIN token :
       /\ req[r].pc = "answer" /\ req[r].op = "logout" /\ req[r].tok # 0
       /\ token[i].live /\ token[i].login = token[req[r].tok].login
       => token[i].login \in mixed

(* The cookie of a browser that waits for no answer still works, however   *)
(* late the answers of other logins came, except as above.                 *)
CookieWorks ==
  cookie # 0 /\ (\A r \in Requests : req[r].pc = "idle") =>
    token[cookie].live \/ token[cookie].login \in mixed

(* The command seeds "an idempotent demo tenant" (help of seed_demo.py:23; *)
(* tests/test_backend.py:435-447 call it twice, on any day): a seeding     *)
(* that no sign-up and no profile overlaps never fails.                    *)
SeedingWorks == seed.pc = "failed" => ~ seed.alone

(* Every account keeps an organization to log in to, except the owners     *)
(* whose organization had the demo's slug when the demo was seeded.  A     *)
(* seeding on its own works, and the demo's owner can then log in with its *)
(* password whatever comes after it, unless a profile that was fetched     *)
(* before is saved then.                                                   *)
SeedingKeepsTenants ==
  /\ \A e \in Emails : account[e] # "none" => e \in evicted \/ HasTenant(e)
  /\ SeedingWorks
  /\ seed.pc = "done" /\ seed.alone =>
       account[DemoEmail] = "demo" /\ [slug |-> 1, owner |-> DemoEmail] \in org
=============================================================================
