---------------------------- MODULE AccountProofs ----------------------------
(***************************************************************************)
(* Proofs about Accounts, for any number of requests, addresses, tokens,   *)
(* organizations and seedings.                                             *)
(***************************************************************************)
EXTENDS Accounts, FiniteSetTheorems, SequenceTheorems, TLAPS

TokenRow == [live : BOOLEAN, login : Nat]

LEMMA Tokens ==
  ASSUME TypeOK
  PROVE  /\ token \in Seq(TokenRow) /\ DOMAIN token = 1 .. Len(token) /\ Len(token) \in Nat
         /\ \A t \in DOMAIN token : token[t] \in TokenRow /\ token[t].login \in DOMAIN token
<1>1. token \in Seq(TokenRow)
  BY DEF TypeOK, TokenRow
<1>2. DOMAIN token = 1 .. Len(token) /\ Len(token) \in Nat /\ token \in [1 .. Len(token) -> TokenRow]
  BY <1>1, LenProperties
<1> QED  BY <1>1, <1>2 DEF TypeOK

LEMMA Spent == ASSUME TypeOK, Spend PROVE budget' \in 0 .. MaxInputs
BY AccountConstants DEF TypeOK, Spend

LEMMA Appended ==
  ASSUME NEW S, NEW s \in Seq(S), NEW x \in S
  PROVE  /\ Append(s, x) \in Seq(S) /\ Len(Append(s, x)) = Len(s) + 1
         /\ \A i \in 1 .. Len(s) : Append(s, x)[i] = s[i]
         /\ Append(s, x)[Len(s) + 1] = x
BY AppendProperties

(* What the three steps do that change the tokens.                         *)
Grown(s, login) ==
  LET n == Len(token) + 1 IN
  /\ s \in Seq(TokenRow) /\ Len(s) = n /\ DOMAIN s = DOMAIN token \union {n}
  /\ n \notin DOMAIN token /\ n \in Nat /\ n # 0
  /\ s[n].live /\ s[n].login = login
  /\ \A t \in DOMAIN token : s[t].login = token[t].login

LEMMA Issued ==
  ASSUME TypeOK
  PROVE  Grown(Issue(0), Len(token) + 1) /\ \A t \in DOMAIN token : Issue(0)[t] = token[t]
<1> DEFINE n == Len(token) + 1
           row == [live |-> TRUE, login |-> n]
<1>1. Issue(0) = Append(token, row)
  BY DEF Issue
<1>2. row \in TokenRow /\ row.live /\ row.login = n /\ n \in Nat
  BY Tokens DEF TokenRow
<1> HIDE DEF row
<1>3. /\ Issue(0) \in Seq(TokenRow) /\ Len(Issue(0)) = n
      /\ \A t \in 1 .. Len(token) : Issue(0)[t] = token[t]
      /\ Issue(0)[n] = row
  BY <1>1, <1>2, Tokens, AppendProperties
<1>4. DOMAIN Issue(0) = 1 .. n
  BY <1>3, LenProperties
<1>5. 1 .. n = 1 .. Len(token) \union {n} /\ n \notin 1 .. Len(token) /\ n # 0
  BY Tokens
<1> QED  BY <1>2, <1>3, <1>4, <1>5, Tokens DEF Grown

LEMMA Listed ==
  ASSUME TypeOK, NEW t \in DOMAIN token
  PROVE  /\ Blacklisted(t) \in Seq(TokenRow) /\ Len(Blacklisted(t)) = Len(token)
         /\ DOMAIN Blacklisted(t) = DOMAIN token
         /\ ~ Blacklisted(t)[t].live /\ Blacklisted(t)[t].login = token[t].login
         /\ \A i \in DOMAIN token : i # t => Blacklisted(t)[i] = token[i]
<1> DEFINE row == [token[t] EXCEPT !.live = FALSE]
<1>1. row \in TokenRow /\ ~ row.live /\ row.login = token[t].login
  BY Tokens DEF TokenRow
<1>2. Blacklisted(t) = [token EXCEPT ![t] = row]
  BY DEF Blacklisted
<1> HIDE DEF row
<1>3. t \in 1 .. Len(token) /\ token \in Seq(TokenRow) /\ DOMAIN token = 1 .. Len(token)
  BY Tokens
<1>4. /\ Blacklisted(t) \in Seq(TokenRow) /\ Len(Blacklisted(t)) = Len(token)
  BY <1>1, <1>2, <1>3, ExceptSeq
<1>5. \A i \in DOMAIN token : Blacklisted(t)[i] = IF i = t THEN row ELSE token[i]
  BY <1>2
<1>6. DOMAIN Blacklisted(t) = DOMAIN token
  BY <1>2
<1> QED  BY <1>1, <1>4, <1>5, <1>6

LEMMA Rotated ==
  ASSUME TypeOK, NEW t \in DOMAIN token,
         NEW s, s = Append(Blacklisted(t), [live |-> TRUE, login |-> token[t].login])
  PROVE  Grown(s, token[t].login) /\ ~ s[t].live
         /\ \A i \in DOMAIN token : i # t => s[i] = token[i]
<1> DEFINE n == Len(token) + 1
           row == [live |-> TRUE, login |-> token[t].login]
           b == Blacklisted(t)
<1>1. row \in TokenRow /\ row.live /\ row.login = token[t].login
  BY Tokens DEF TokenRow
<1>2. /\ b \in Seq(TokenRow) /\ Len(b) = Len(token) /\ DOMAIN b = DOMAIN token
      /\ ~ b[t].live /\ b[t].login = token[t].login
      /\ \A i \in DOMAIN token : i # t => b[i] = token[i]
  BY Listed
<1> HIDE DEF row, b
<1>3. s = Append(b, row)
  BY DEF row, b
<1>4. /\ s \in Seq(TokenRow) /\ Len(s) = n
      /\ \A i \in 1 .. Len(token) : s[i] = b[i]
      /\ s[n] = row
  <2>1. b \in Seq(TokenRow) /\ row \in TokenRow
    BY <1>1, <1>2
  <2>2. /\ Append(b, row) \in Seq(TokenRow) /\ Len(Append(b, row)) = Len(b) + 1
        /\ \A i \in 1 .. Len(b) : Append(b, row)[i] = b[i]
        /\ Append(b, row)[Len(b) + 1] = row
    BY <2>1, Appended
  <2> QED  BY <1>2, <1>3, <2>2
<1>5. DOMAIN s = 1 .. n
  BY <1>4, LenProperties
<1>6. Len(token) \in Nat /\ DOMAIN token = 1 .. Len(token)
  BY Tokens
<1>7. /\ 1 .. n = 1 .. Len(token) \union {n} /\ n \notin 1 .. Len(token)
      /\ n # 0 /\ n \in Nat
  BY <1>6
<1> QED  BY <1>1, <1>2, <1>4, <1>5, <1>6, <1>7 DEF Grown

-----------------------------------------------------------------------------
(* What kinds of requests are at which point of their way.                 *)
Fits(x) ==
  /\ x.pc \in {"validate", "slug", "create", "error"} => x.op = "signup"
  /\ x.pc \in {"fetch", "save"} => x.op = "me"
  /\ x.pc = "blacklist" => x.op \in {"refresh", "logout"} /\ x.tok # 0
  /\ x.op \notin {"refresh", "logout"} => x.tok = 0
  /\ x.new # 0 => x.pc = "answer" /\ x.op \in {"signup", "login", "refresh"}
  /\ x.op = "refresh" /\ x.new # 0 => x.tok # 0
  /\ x.pc = "create" => x.slug # 0
  /\ x.pc = "idle" => x = Idle

RequestsFit == \A r \in Requests : Fits(req[r])

(* A request on its way: what it is does not change until it is answered.  *)
Advanced(r, x) ==
  /\ x.op = req[r].op /\ x.email = req[r].email /\ x.tok = req[r].tok
  /\ x.alone = req[r].alone /\ x.pc # "idle" /\ req[r].pc # "idle"

(* The tokens change as the answer tells, or a logout blacklists one.      *)
TokenStep(r, x) ==
  \/ x.new = 0 /\ (token' = token \/ (Logout(r) /\ x.pc = "answer"))
  \/ /\ x.new = Len(token) + 1
     /\ \/ token' = Issue(0) /\ x.op \in {"signup", "login"}
        \/ Rotate(r)

LEMMA IdleTyped == Idle \in Request /\ Fits(Idle) /\ Idle.tok = 0 /\ Idle.new = 0
                   /\ Idle.pc = "idle" /\ Idle.op = "none"
BY AccountConstants DEF Idle, Request, Fits

LEMMA Steps ==
  ASSUME TypeOK, RequestsFit, NEW r \in Requests, RequestStep(r)
  PROVE  \E x \in Request :
           /\ req' = [req EXCEPT ![r] = x] /\ Fits(x)
           /\ \/ Advanced(r, x)
              \/ x = Idle /\ (Answer(r) \/ AnswerError(r))
           /\ TokenStep(r, x)
<1>1. req[r] \in Request /\ DOMAIN req = Requests /\ Fits(req[r]) /\ Len(token) + 1 \in Nat
  BY Tokens DEF TypeOK, RequestsFit
<1>2. CASE ValidateEmail(r) \/ RejectTenant(r) \/ Logout(r) \/ CheckToken(r) \/ SaveMe(r)
  <2>1. PICK pc \in {"slug", "answer", "error", "blacklist"} :
          /\ req' = [req EXCEPT ![r].pc = pc]
          /\ pc = "slug" => req[r].op = "signup"
          /\ pc = "error" => req[r].op = "signup"
          /\ pc = "blacklist" => req[r].op \in {"refresh", "logout"} /\ req[r].tok # 0
    BY <1>1, <1>2 DEF ValidateEmail, RejectTenant, Logout, CheckToken, SaveMe, Goto, Fits
  <2> DEFINE x == [req[r] EXCEPT !.pc = pc]
  <2>2. req' = [req EXCEPT ![r] = x]
    BY <1>1, <2>1
  <2>3. req[r].pc \notin {"idle", "answer"} /\ req[r].new = 0
    BY <1>1, <1>2 DEF ValidateEmail, RejectTenant, Logout, CheckToken, SaveMe, Fits
  <2>4. x \in Request /\ Advanced(r, x) /\ x.new = 0 /\ x.pc = pc
    BY <1>1, <2>1, <2>3 DEF Request, Advanced
  <2>5. Fits(x)
    BY <1>1, <2>1, <2>4 DEF Fits, Advanced
  <2>6. TokenStep(r, x)
    <3>1. CASE Logout(r)
      <4>1. req'[r].pc = "answer" /\ req'[r] = x
        BY <1>1, <2>2, <3>1 DEF Logout, Goto, TypeOK, Request
      <4> QED  BY <2>4, <3>1, <4>1 DEF TokenStep
    <3>2. CASE ~ Logout(r)
      BY <1>2, <2>4, <3>2 DEF ValidateEmail, RejectTenant, CheckToken, SaveMe, TokenStep
    <3> QED  BY <3>1, <3>2
  <2> HIDE DEF x
  <2> QED  BY <2>2, <2>4, <2>5, <2>6
<1>3. CASE FindSlug(r)
  <2>1. PICK n \in 1 .. Cardinality(org) + 1 :
          req' = [req EXCEPT ![r].pc = "create", ![r].slug = n]
    BY <1>3 DEF FindSlug
  <2>2. n \in Nat /\ n # 0
    BY <2>1, FS_CardinalityType DEF TypeOK
  <2> DEFINE x == [req[r] EXCEPT !.pc = "create", !.slug = n]
  <2>3. req' = [req EXCEPT ![r] = x]
    BY <1>1, <2>1
  <2>4. req[r].pc = "slug" /\ req[r].new = 0 /\ req[r].op = "signup"
    BY <1>1, <1>3 DEF FindSlug, Fits
  <2>5. x \in Request /\ Advanced(r, x) /\ x.new = 0 /\ x.pc = "create" /\ x.slug = n
    BY <1>1, <2>2, <2>4 DEF Request, Advanced
  <2>6. Fits(x)
    BY <1>1, <2>2, <2>4, <2>5 DEF Fits, Advanced
  <2>7. TokenStep(r, x)
    BY <1>3, <2>5 DEF FindSlug, TokenStep
  <2> HIDE DEF x
  <2> QED  BY <2>3, <2>5, <2>6, <2>7
<1>4. CASE FetchMe(r)
  <2> DEFINE x == [req[r] EXCEPT !.pc = "save", !.kept = account[req[r].email]]
  <2>1. req' = [req EXCEPT ![r] = x] /\ req[r].pc = "fetch" /\ req[r].new = 0
    BY <1>1, <1>4 DEF FetchMe, Fits
  <2>2. account[req[r].email] \in {"none", "own", "demo"}
    BY <1>1 DEF TypeOK, Request
  <2>3. x \in Request /\ Advanced(r, x) /\ x.new = 0 /\ x.pc = "save"
    BY <1>1, <2>1, <2>2 DEF Request, Advanced
  <2>4. Fits(x)
    BY <1>1, <2>1, <2>3 DEF Fits, Advanced
  <2>5. TokenStep(r, x)
    BY <1>4, <2>3 DEF FetchMe, TokenStep
  <2> HIDE DEF x
  <2> QED  BY <2>1, <2>3, <2>4, <2>5
<1>5. CASE CreateTenant(r) \/ CheckLogin(r) \/ Rotate(r)
  <2>0. /\ req[r].new = 0 /\ req[r].op \in {"signup", "login", "refresh"}
        /\ req[r].op = "refresh" => req[r].tok # 0
    BY <1>1, <1>5 DEF CreateTenant, CheckLogin, Rotate, Fits
  <2>1. PICK new \in {0, Len(token) + 1} :
          /\ req' = [req EXCEPT ![r].pc = "answer", ![r].new = new]
          /\ \/ new = 0 /\ token' = token
             \/ /\ new = Len(token) + 1
                /\ \/ token' = Issue(0) /\ req[r].op \in {"signup", "login"}
                   \/ Rotate(r)
    <3>1. CASE CreateTenant(r) \/ Rotate(r)
      BY <1>1, <3>1 DEF CreateTenant, Rotate, AnswerWith, Fits
    <3>2. CASE CheckLogin(r) /\ AnswerWith(r, Len(token) + 1) /\ token' = Issue(0)
      BY <3>2 DEF CheckLogin, AnswerWith
    <3>3. CASE CheckLogin(r) /\ Goto(r, "answer") /\ UNCHANGED token
      <4>1. [req[r] EXCEPT !.pc = "answer"] = [req[r] EXCEPT !.pc = "answer", !.new = 0]
        BY <1>1, <2>0 DEF Request
      <4>2. req' = [req EXCEPT ![r].pc = "answer", ![r].new = 0]
        BY <1>1, <3>3, <4>1 DEF Goto
      <4> QED  BY <3>3, <4>2
    <3> QED  BY <1>5, <3>1, <3>2, <3>3 DEF CheckLogin
  <2> DEFINE x == [req[r] EXCEPT !.pc = "answer", !.new = new]
  <2>2. req' = [req EXCEPT ![r] = x] /\ req[r].pc # "idle"
    BY <1>1, <1>5, <2>1 DEF CreateTenant, CheckLogin, Rotate
  <2>3. x \in Request /\ Advanced(r, x) /\ x.new = new /\ x.pc = "answer"
    BY <1>1, <2>1, <2>2 DEF Request, Advanced
  <2>4. Fits(x)
    BY <1>1, <2>0, <2>3 DEF Fits, Advanced
  <2>5. TokenStep(r, x)
    BY <2>1, <2>3 DEF TokenStep, Advanced
  <2> HIDE DEF x
  <2> QED  BY <2>2, <2>3, <2>4, <2>5
<1>6. CASE Answer(r) \/ AnswerError(r)
  BY <1>1, <1>6, IdleTyped DEF Answer, AnswerError, TokenStep
<1> QED  BY <1>2, <1>3, <1>4, <1>5, <1>6 DEF RequestStep

(* A request changes, and what is there only grows.                        *)
LEMMA RequestTyped ==
  ASSUME TypeOK, RequestsFit, NEW r \in Requests, NEW x \in Request, Fits(x),
         req' = [req EXCEPT ![r] = x],
         token' \in Seq(TokenRow), DOMAIN token \subseteq DOMAIN token',
         \A t \in DOMAIN token' : token'[t].login \in DOMAIN token',
         account' \in [Emails -> {"none", "own", "demo"}],
         org' \subseteq [slug : Nat \ {0}, owner : Emails], IsFiniteSet(org'),
         org \subseteq org', cookie' \in 0 .. Len(token'),
         mixed' \subseteq DOMAIN token', budget' \in 0 .. MaxInputs,
         UNCHANGED <<seed, evicted>>,
         x.tok \in 0 .. Len(token), x.new \in 0 .. Len(token')
  PROVE  TypeOK' /\ RequestsFit'
<1>1. /\ req' \in [Requests -> Request]
      /\ \A s \in Requests : req'[s] = IF s = r THEN x ELSE req[s]
  BY DEF TypeOK
<1>2. DOMAIN token' = 1 .. Len(token') /\ Len(token') \in Nat
  BY LenProperties
<1>3. Len(token) <= Len(token')
  BY <1>2, Tokens
<1>4. \A s \in Requests : /\ req'[s].tok \in 0 .. Len(token')
                          /\ req'[s].new \in 0 .. Len(token')
                          /\ req'[s].pc = "blacklist" => req'[s].tok # 0
                          /\ req'[s].pc = "idle" => req'[s] = Idle
  <2> TAKE s \in Requests
  <2>1. CASE s = r
    BY <1>1, <1>2, <1>3, <2>1, Tokens DEF Fits
  <2>2. CASE s # r
    <3>1. req'[s] = req[s] /\ req[s].tok \in 0 .. Len(token) /\ req[s].new \in 0 .. Len(token)
      BY <1>1, <2>2 DEF TypeOK
    <3> QED  BY <1>2, <1>3, <3>1, Tokens DEF TypeOK
  <2> QED  BY <2>1, <2>2
<1>5. RequestsFit'
  <2> SUFFICES ASSUME NEW s \in Requests PROVE Fits(req'[s])
    BY DEF RequestsFit, Fits
  <2>1. CASE s = r  BY <1>1, <2>1
  <2>2. CASE s # r  BY <1>1, <2>2 DEF RequestsFit
  <2> QED  BY <2>1, <2>2
<1>6. seed' \in [pc : {"idle", "read", "done", "failed"}, found : SUBSET org',
                 date : 0 .. 364, alone : BOOLEAN]
  <2>1. seed \in [pc : {"idle", "read", "done", "failed"}, found : SUBSET org,
                  date : 0 .. 364, alone : BOOLEAN]
    BY DEF TypeOK
  <2>2. SUBSET org \subseteq SUBSET org'
    OBVIOUS
  <2> QED  BY <2>1, <2>2
<1> QED  BY <1>1, <1>4, <1>5, <1>6 DEF TypeOK, TokenRow

(* What the tokens are after a request's step.                             *)
LEMMA TokensTyped ==
  ASSUME TypeOK, RequestsFit, NEW r \in Requests, NEW x \in Request, TokenStep(r, x)
  PROVE  /\ token' \in Seq(TokenRow) /\ DOMAIN token \subseteq DOMAIN token'
         /\ DOMAIN token' = 1 .. Len(token') /\ Len(token') \in Nat
         /\ \A t \in DOMAIN token' : token'[t].login \in DOMAIN token'
         /\ \A t \in DOMAIN token : token'[t].login = token[t].login
         /\ x.new \in 0 .. Len(token')
<1>1. CASE token' = token /\ x.new = 0
  BY <1>1, Tokens
<1>2. CASE Logout(r) /\ x.new = 0
  <2>1. req[r].tok \in DOMAIN token /\ token' = Blacklisted(req[r].tok)
    <3>1. req[r].tok \in 0 .. Len(token) /\ req[r].tok # 0
      BY <1>2 DEF Logout, TypeOK
    <3> QED  BY <1>2, <3>1, Tokens DEF Logout
  <2>2. PICK t \in DOMAIN token : t = req[r].tok
    BY <2>1
  <2>3. /\ token' \in Seq(TokenRow) /\ Len(token') = Len(token)
        /\ DOMAIN token' = DOMAIN token
        /\ \A i \in DOMAIN token : token'[i].login = token[i].login
    BY <2>1, <2>2, Listed
  <2> QED  BY <1>2, <2>3, Tokens
<1>3. CASE x.new = Len(token) + 1 /\ (token' = Issue(0) \/ Rotate(r))
  <2>1. \E login \in DOMAIN token' : Grown(token', login)
    <3>1. CASE token' = Issue(0)
      BY <3>1, Issued DEF Grown
    <3>2. CASE Rotate(r)
      <4>1. /\ req[r].tok \in DOMAIN token
            /\ token' = Append(Blacklisted(req[r].tok),
                               [live |-> TRUE, login |-> token[req[r].tok].login])
        <5>1. req[r].tok \in 0 .. Len(token) /\ req[r].tok # 0
          BY <3>2 DEF Rotate, TypeOK
        <5> QED  BY <3>2, <5>1, Tokens DEF Rotate
      <4>2. Grown(token', token[req[r].tok].login) /\ token[req[r].tok].login \in DOMAIN token
        BY <4>1, Rotated, Tokens
      <4> QED  BY <4>2 DEF Grown
    <3> QED  BY <1>3, <3>1, <3>2
  <2>2. PICK login \in DOMAIN token' : Grown(token', login)
    BY <2>1
  <2>3. token' \in Seq(TokenRow) /\ Len(token') = Len(token) + 1
    BY <2>2 DEF Grown
  <2>4. DOMAIN token' = 1 .. Len(token') /\ Len(token') \in Nat
    BY <2>3, LenProperties
  <2>5. \A t \in DOMAIN token : token[t].login \in DOMAIN token
    BY Tokens
  <2> QED  BY <1>3, <2>2, <2>3, <2>4, <2>5 DEF Grown
<1> QED  BY <1>1, <1>2, <1>3 DEF TokenStep

LEMMA StepTyped ==
  ASSUME TypeOK, RequestsFit, NEW r \in Requests, RequestStep(r)
  PROVE  TypeOK' /\ RequestsFit'
<1>1. PICK x \in Request :
        /\ req' = [req EXCEPT ![r] = x] /\ Fits(x)
        /\ \/ Advanced(r, x)
           \/ x = Idle /\ (Answer(r) \/ AnswerError(r))
        /\ TokenStep(r, x)
  BY Steps
<1>2. /\ token' \in Seq(TokenRow) /\ DOMAIN token \subseteq DOMAIN token'
      /\ DOMAIN token' = 1 .. Len(token') /\ Len(token') \in Nat
      /\ \A t \in DOMAIN token' : token'[t].login \in DOMAIN token'
      /\ x.new \in 0 .. Len(token')
  BY <1>1, TokensTyped
<1>3. x.tok \in 0 .. Len(token)
  BY <1>1, IdleTyped, Tokens DEF Advanced, TypeOK
<1>4. account' \in [Emails -> {"none", "own", "demo"}]
  <2>1. CASE SaveMe(r)
    <3>1. req[r].kept \in {"none", "own", "demo"}
      BY DEF TypeOK, Request
    <3> QED  BY <2>1, <3>1 DEF SaveMe, TypeOK
  <2>2. CASE CreateTenant(r)
    BY <2>2 DEF CreateTenant, TypeOK
  <2>3. CASE ~ SaveMe(r) /\ ~ CreateTenant(r)
    <3>1. account' = account
      BY <2>3 DEF RequestStep, ValidateEmail, FindSlug, RejectTenant, CheckLogin, CheckToken,
                  Rotate, Logout, FetchMe, Answer, AnswerError
    <3> QED  BY <3>1 DEF TypeOK
  <2> QED  BY <2>1, <2>2, <2>3
<1>5. /\ org' \subseteq [slug : Nat \ {0}, owner : Emails] /\ IsFiniteSet(org')
      /\ org \subseteq org'
  <2>1. CASE CreateTenant(r)
    <3>1. org' = org \union {[slug |-> req[r].slug, owner |-> req[r].email]}
      BY <2>1 DEF CreateTenant
    <3>2. [slug |-> req[r].slug, owner |-> req[r].email] \in [slug : Nat \ {0}, owner : Emails]
      <4>1. req[r] \in Request /\ req[r].slug # 0
        BY <2>1 DEF CreateTenant, TypeOK, RequestsFit, Fits
      <4> QED  BY <4>1 DEF Request
    <3>3. IsFiniteSet(org')
      BY <3>1, FS_AddElement DEF TypeOK
    <3> QED  BY <3>1, <3>2, <3>3 DEF TypeOK
  <2>2. CASE ~ CreateTenant(r)
    <3>1. org' = org
      BY <2>2 DEF RequestStep, ValidateEmail, FindSlug, RejectTenant, CheckLogin, CheckToken,
                  Rotate, Logout, FetchMe, SaveMe, Answer, AnswerError
    <3> QED  BY <3>1 DEF TypeOK
  <2> QED  BY <2>1, <2>2
<1>6. cookie' \in 0 .. Len(token')
  <2>1. CASE Answer(r)
    <3>1. token' = token /\ cookie' \in {0, req[r].new, cookie}
      BY <2>1 DEF Answer
    <3> QED  BY <3>1, Tokens DEF TypeOK
  <2>2. CASE ~ Answer(r)
    <3>1. cookie' = cookie
      BY <2>2 DEF RequestStep, ValidateEmail, FindSlug, RejectTenant, CheckLogin, CheckToken,
                  Rotate, Logout, FetchMe, SaveMe, CreateTenant, AnswerError
    <3> QED  BY <1>2, <3>1, Tokens DEF TypeOK
  <2> QED  BY <2>1, <2>2
<1>7. UNCHANGED <<seed, evicted, mixed, budget>>
  BY DEF RequestStep, ValidateEmail, FindSlug, RejectTenant, CheckLogin, CheckToken,
         Rotate, Logout, FetchMe, SaveMe, CreateTenant, Answer, AnswerError
<1>8. mixed' \subseteq DOMAIN token' /\ budget' \in 0 .. MaxInputs
  BY <1>2, <1>7 DEF TypeOK
<1> QED  BY <1>1, <1>2, <1>3, <1>4, <1>5, <1>6, <1>7, <1>8, RequestTyped

-----------------------------------------------------------------------------
(* The other steps leave tokens and cookie as they are.                    *)
OtherStep ==
  \/ \E r \in Requests :
       \/ SendRefresh(r) \/ SendLogout(r) \/ LoseAnswer(r)
       \/ \E e \in Emails : SendSignup(r, e) \/ SendLogin(r, e) \/ SendMe(r, e)
  \/ \E day \in Dates : StartSeed(day)
  \/ CommitSeed \/ AbortSeed

(* A request that is sent, and what it does to others.                     *)
Ops == {"signup", "login", "refresh", "logout", "me"}

FirstPc(op) == CASE op = "signup" -> "validate" [] op = "me" -> "fetch"
                 [] OTHER -> "check"

Sent(r, x) ==
  /\ x.op \in Ops /\ x.pc = FirstPc(x.op) /\ x.new = 0 /\ x.kept = "none"
  /\ x.tok = IF x.op \in {"refresh", "logout"} THEN cookie ELSE 0
  /\ x.alone = (UnderWay("signup") = {} /\ ~ Seeding)
  /\ req[r].pc = "idle" /\ UNCHANGED <<account, org, token, cookie, evicted>>
  /\ mixed' = IF Carrying(x.tok) = {} THEN mixed ELSE mixed \union {token[x.tok].login}
  /\ seed' = IF Seeding /\ x.op \in {"signup", "me"} THEN [seed EXCEPT !.alone = FALSE]
             ELSE seed
  /\ \A s \in Requests \ {r} :
       IF x.op = "signup" /\ s \in UnderWay("signup")
       THEN req'[s] = [req[s] EXCEPT !.alone = FALSE] ELSE req'[s] = req[s]

LEMMA SendShape ==
  ASSUME TypeOK, NEW r \in Requests, NEW op \in Ops, NEW e \in Emails,
         Send(r, op, e, FirstPc(op))
  PROVE  /\ req'[r] \in Request /\ Sent(r, req'[r]) /\ Fits(req'[r])
         /\ req' = [s \in Requests |-> req'[s]] /\ req'[r].email = e
         /\ budget' \in 0 .. MaxInputs
<1> DEFINE tok == IF op \in {"refresh", "logout"} THEN cookie ELSE 0
           alone == UnderWay("signup") = {} /\ ~ Seeding
           x == [Idle EXCEPT !.pc = FirstPc(op), !.op = op, !.email = e, !.tok = tok,
                             !.alone = alone]
<1>1. /\ tok \in 0 .. Len(token) /\ tok \in Nat
  BY Tokens DEF TypeOK
<1>2. alone \in BOOLEAN
  OBVIOUS
<1>3. FirstPc(op) \in {"validate", "fetch", "check"}
  BY DEF FirstPc
<1>4. /\ op \in {"refresh", "logout"} \/ tok = 0
  OBVIOUS
<1>5. /\ req' = [s \in Requests |->
           IF s = r THEN x
           ELSE IF op = "signup" /\ s \in UnderWay("signup")
                THEN [req[s] EXCEPT !.alone = FALSE] ELSE req[s]]
      /\ mixed' = IF Carrying(tok) = {} THEN mixed ELSE mixed \union {token[tok].login}
  BY DEF Send
<1> HIDE DEF tok, alone
<1>6. /\ x.pc = FirstPc(op) /\ x.op = op /\ x.email = e /\ x.tok = tok /\ x.alone = alone
      /\ x.new = 0 /\ x.kept = "none" /\ x.slug = 0
  BY DEF Idle
<1>7. x \in Request
  <2>1. /\ FirstPc(op) \in {"validate", "fetch", "check"} /\ op \in Ops /\ e \in Emails
        /\ tok \in Nat /\ alone \in BOOLEAN
    BY <1>1, <1>2, <1>3
  <2> QED  BY <2>1 DEF Idle, Request, Ops
<1>8. Fits(x)
  BY <1>4, <1>6, <1>3 DEF Fits, FirstPc, Ops
<1> HIDE DEF x
<1>9. req'[r] = x
  BY <1>5
<1>10. \A s \in Requests \ {r} :
         IF op = "signup" /\ s \in UnderWay("signup")
         THEN req'[s] = [req[s] EXCEPT !.alone = FALSE] ELSE req'[s] = req[s]
  BY <1>5
<1>11. Sent(r, x)
  BY <1>5, <1>6, <1>10 DEF Sent, Send, tok, alone
<1>12. budget' \in 0 .. MaxInputs
  BY Spent DEF Send
<1> QED  BY <1>5, <1>6, <1>7, <1>8, <1>9, <1>11, <1>12

LEMMA SendsShaped ==
  ASSUME NEW r \in Requests, NEW e \in Emails,
         \/ SendRefresh(r) \/ SendLogout(r)
         \/ SendSignup(r, e) \/ SendLogin(r, e) \/ SendMe(r, e)
  PROVE  \E op \in Ops : \E f \in Emails :
           /\ Send(r, op, f, FirstPc(op))
           /\ op = "me" => f = e /\ HasTenant(e)
BY AccountConstants DEF SendRefresh, SendLogout, SendSignup, SendLogin, SendMe, FirstPc, Ops

(* Requests change; tokens and cookie do not.                              *)
LEMMA QuietTyped ==
  ASSUME TypeOK, UNCHANGED <<token, cookie>>,
         req' = [s \in Requests |-> req'[s]],
         \A s \in Requests :
           /\ req'[s] \in Request /\ Fits(req'[s])
           /\ req'[s].tok \in 0 .. Len(token) /\ req'[s].new \in 0 .. Len(token),
         account' \in [Emails -> {"none", "own", "demo"}],
         org' \subseteq [slug : Nat \ {0}, owner : Emails], IsFiniteSet(org'),
         seed' \in [pc : {"idle", "read", "done", "failed"}, found : SUBSET org',
                    date : 0 .. 364, alone : BOOLEAN],
         mixed' \subseteq DOMAIN token, evicted' \subseteq Emails, budget' \in 0 .. MaxInputs
  PROVE  TypeOK' /\ RequestsFit'
<1>1. req' \in [Requests -> Request]
  OBVIOUS
<1>2. RequestsFit'
  BY DEF RequestsFit, Fits
<1>3. \A s \in Requests : /\ req'[s].pc = "blacklist" => req'[s].tok # 0
                          /\ req'[s].pc = "idle" => req'[s] = Idle
  BY DEF Fits
<1> QED  BY <1>1, <1>2, <1>3 DEF TypeOK

(* A sign-up learns that it is not alone.                                  *)
LEMMA Disturbed ==
  ASSUME TypeOK, RequestsFit, NEW s \in Requests, s \in UnderWay("signup"),
         NEW y, y = [req[s] EXCEPT !.alone = FALSE]
  PROVE  /\ y \in Request /\ Fits(y) /\ y.tok = req[s].tok /\ y.new = req[s].new
         /\ y.pc = req[s].pc /\ y.op = req[s].op /\ y.email = req[s].email
         /\ y.alone = FALSE /\ y.kept = req[s].kept /\ y.slug = req[s].slug
<1>1. req[s] \in Request /\ Fits(req[s]) /\ req[s].pc # "idle"
  BY DEF TypeOK, RequestsFit, UnderWay
<1>2. /\ y \in Request /\ y.tok = req[s].tok /\ y.new = req[s].new
      /\ y.pc = req[s].pc /\ y.op = req[s].op /\ y.email = req[s].email
      /\ y.alone = FALSE /\ y.kept = req[s].kept /\ y.slug = req[s].slug
  BY <1>1 DEF Request
<1> QED  BY <1>1, <1>2 DEF Fits

LEMMA OtherTyped ==
  ASSUME TypeOK, RequestsFit, OtherStep PROVE TypeOK' /\ RequestsFit'
<1>1. \A s \in Requests : /\ req[s] \in Request /\ Fits(req[s])
                          /\ req[s].tok \in 0 .. Len(token) /\ req[s].new \in 0 .. Len(token)
  BY DEF TypeOK, RequestsFit
<1>2. /\ req = [s \in Requests |-> req[s]]
      /\ account \in [Emails -> {"none", "own", "demo"}]
      /\ org \subseteq [slug : Nat \ {0}, owner : Emails] /\ IsFiniteSet(org)
      /\ seed \in [pc : {"idle", "read", "done", "failed"}, found : SUBSET org,
                   date : 0 .. 364, alone : BOOLEAN]
      /\ mixed \subseteq DOMAIN token /\ evicted \subseteq Emails /\ budget \in 0 .. MaxInputs
  BY DEF TypeOK
<1>3. ASSUME NEW r \in Requests, NEW op \in Ops, NEW e \in Emails, Send(r, op, e, FirstPc(op))
      PROVE  TypeOK' /\ RequestsFit'
  <2>1. /\ req'[r] \in Request /\ Sent(r, req'[r]) /\ Fits(req'[r])
        /\ req' = [s \in Requests |-> req'[s]]
        /\ budget' \in 0 .. MaxInputs
    BY <1>3, SendShape
  <2>2. req'[r].tok \in 0 .. Len(token) /\ req'[r].new \in 0 .. Len(token)
    BY <2>1, Tokens DEF Sent, TypeOK
  <2>3. ASSUME NEW s \in Requests \ {r}
        PROVE  /\ req'[s] \in Request /\ Fits(req'[s])
               /\ req'[s].tok \in 0 .. Len(token) /\ req'[s].new \in 0 .. Len(token)
    <3>1. CASE s \in UnderWay("signup") /\ op = "signup" /\ req'[s] = [req[s] EXCEPT !.alone = FALSE]
      <4>1. PICK y : y = req'[s]
        OBVIOUS
      <4>2. y \in Request /\ Fits(y) /\ y.tok = req[s].tok /\ y.new = req[s].new
        BY <3>1, <4>1, Disturbed
      <4> QED  BY <1>1, <4>1, <4>2
    <3>2. CASE req'[s] = req[s]
      BY <1>1, <3>2
    <3> QED  BY <1>3, <3>1, <3>2 DEF Send
  <2>4. seed' \in [pc : {"idle", "read", "done", "failed"}, found : SUBSET org,
                   date : 0 .. 364, alone : BOOLEAN]
    <3>1. seed' = seed \/ seed' = [seed EXCEPT !.alone = FALSE]
      BY <2>1 DEF Sent
    <3>2. [seed EXCEPT !.alone = FALSE] \in
            [pc : {"idle", "read", "done", "failed"}, found : SUBSET org,
             date : 0 .. 364, alone : BOOLEAN]
      BY <1>2
    <3> QED  BY <1>2, <3>1, <3>2
  <2>5. mixed' \subseteq DOMAIN token
    <3>1. CASE Carrying(req'[r].tok) = {}
      BY <1>2, <2>1, <3>1 DEF Sent
    <3>2. CASE Carrying(req'[r].tok) # {}
      <4>1. req'[r].tok \in DOMAIN token
        BY <2>2, <3>2, Tokens DEF Carrying
      <4> QED  BY <1>2, <2>1, <3>2, <4>1, Tokens DEF Sent
    <3> QED  BY <3>1, <3>2
  <2>6. UNCHANGED <<account, org, token, cookie, evicted>>
    BY <2>1 DEF Sent
  <2> QED  BY <1>2, <2>1, <2>2, <2>3, <2>4, <2>5, <2>6, QuietTyped
<1>4. ASSUME NEW r \in Requests, LoseAnswer(r) PROVE TypeOK' /\ RequestsFit'
  <2>1. /\ req' = [req EXCEPT ![r] = Idle]
        /\ UNCHANGED <<account, org, token, cookie, seed, evicted>>
    BY <1>4 DEF LoseAnswer
  <2>2. /\ req' = [s \in Requests |-> req'[s]]
        /\ \A s \in Requests : req'[s] = IF s = r THEN Idle ELSE req[s]
    BY <1>2, <2>1
  <2>3. \A s \in Requests : /\ req'[s] \in Request /\ Fits(req'[s])
                            /\ req'[s].tok \in 0 .. Len(token)
                            /\ req'[s].new \in 0 .. Len(token)
    BY <1>1, <2>2, IdleTyped, Tokens
  <2>4. mixed' \subseteq DOMAIN token
    <3>1. CASE req[r].tok = 0
      BY <1>2, <1>4, <3>1 DEF LoseAnswer
    <3>2. CASE req[r].tok # 0
      <4>1. req[r].tok \in DOMAIN token
        BY <1>1, <3>2, Tokens
      <4> QED  BY <1>2, <1>4, <3>2, <4>1, Tokens DEF LoseAnswer
    <3> QED  BY <3>1, <3>2
  <2>5. budget' \in 0 .. MaxInputs
    BY <1>4, Spent DEF LoseAnswer
  <2> QED  BY <1>2, <2>1, <2>2, <2>3, <2>4, <2>5, QuietTyped
<1>5. ASSUME NEW day \in Dates, StartSeed(day) PROVE TypeOK' /\ RequestsFit'
  <2>1. /\ UNCHANGED <<account, org, token, cookie, mixed, evicted>>
        /\ req' = [s \in Requests |-> IF s \in UnderWay("signup")
                                      THEN [req[s] EXCEPT !.alone = FALSE] ELSE req[s]]
    BY <1>5 DEF StartSeed
  <2>2. req' = [s \in Requests |-> req'[s]]
    BY <2>1
  <2>3. ASSUME NEW s \in Requests
        PROVE  /\ req'[s] \in Request /\ Fits(req'[s])
               /\ req'[s].tok \in 0 .. Len(token) /\ req'[s].new \in 0 .. Len(token)
    <3>1. CASE s \in UnderWay("signup")
      <4>1. req'[s] = [req[s] EXCEPT !.alone = FALSE]
        BY <2>1, <3>1
      <4> QED  BY <1>1, <3>1, <4>1, Disturbed
    <3>2. CASE s \notin UnderWay("signup")
      BY <1>1, <2>1, <3>2
    <3> QED  BY <3>1, <3>2
  <2>4. seed' \in [pc : {"idle", "read", "done", "failed"}, found : SUBSET org,
                   date : 0 .. 364, alone : BOOLEAN]
    <3>1. {o \in org : o.slug = 1} \in SUBSET org /\ day \in 0 .. 364
      BY AccountConstants
    <3>2. (UnderWay("signup") \union UnderWay("me") = {}) \in BOOLEAN
      OBVIOUS
    <3> QED  BY <1>5, <3>1, <3>2 DEF StartSeed
  <2>5. budget' \in 0 .. MaxInputs
    BY <1>5, Spent DEF StartSeed
  <2> QED  BY <1>2, <2>1, <2>2, <2>3, <2>4, <2>5, QuietTyped
<1>6. CASE CommitSeed \/ AbortSeed
  <2>1. UNCHANGED <<token, cookie, req, mixed, budget>>
    BY <1>6 DEF CommitSeed, AbortSeed
  <2>2. /\ account' \in [Emails -> {"none", "own", "demo"}]
    BY <1>2, <1>6 DEF CommitSeed, AbortSeed
  <2>3. org' \subseteq [slug : Nat \ {0}, owner : Emails] /\ IsFiniteSet(org')
    <3>1. CASE CommitSeed
      <4>1. org' = (org \ seed.found) \union {[slug |-> 1, owner |-> DemoEmail]}
        BY <3>1 DEF CommitSeed
      <4>2. [slug |-> 1, owner |-> DemoEmail] \in [slug : Nat \ {0}, owner : Emails]
        BY AccountConstants
      <4>3. IsFiniteSet(org \ seed.found)
        BY <1>2, FS_Subset
      <4>4. IsFiniteSet(org')
        BY <4>1, <4>3, FS_AddElement
      <4> QED  BY <1>2, <4>1, <4>2, <4>4
    <3>2. CASE AbortSeed
      BY <1>2, <3>2 DEF AbortSeed
    <3> QED  BY <1>6, <3>1, <3>2
  <2>4. seed' \in [pc : {"idle", "read", "done", "failed"}, found : SUBSET org',
                   date : 0 .. 364, alone : BOOLEAN]
    <3>1. PICK pc \in {"done", "failed"} : seed' = [seed EXCEPT !.pc = pc, !.found = {}]
      BY <1>6 DEF CommitSeed, AbortSeed
    <3>2. {} \in SUBSET org'
      OBVIOUS
    <3> QED  BY <1>2, <3>1, <3>2
  <2>5. evicted' \subseteq Emails
    <3>1. \A o \in seed.found : o.owner \in Emails
      BY <1>2
    <3> QED  BY <1>2, <1>6, <3>1 DEF CommitSeed, AbortSeed
  <2> QED  BY <1>1, <1>2, <2>1, <2>2, <2>3, <2>4, <2>5, QuietTyped
<1>7. \/ \E r \in Requests : LoseAnswer(r)
      \/ \E r \in Requests, op \in Ops, e \in Emails : Send(r, op, e, FirstPc(op))
      \/ (\E day \in Dates : StartSeed(day)) \/ CommitSeed \/ AbortSeed
  BY SendsShaped, AccountConstants DEF OtherStep
<1> QED  BY <1>3, <1>4, <1>5, <1>6, <1>7

LEMMA InitTyped == ASSUME Init PROVE TypeOK /\ RequestsFit
<1>1. token \in Seq(TokenRow) /\ DOMAIN token = {} /\ Len(token) = 0
  BY DEF Init
<1>2. org = {} /\ IsFiniteSet({})
  BY FS_EmptySet DEF Init
<1>3. \A r \in Requests : req[r] = Idle
  BY DEF Init
<1>4. /\ account \in [Emails -> {"none", "own", "demo"}] /\ cookie \in 0 .. Len(token)
      /\ budget \in 0 .. MaxInputs /\ mixed = {} /\ evicted = {}
  BY <1>1, AccountConstants DEF Init
<1>5. seed \in [pc : {"idle", "read", "done", "failed"}, found : SUBSET org,
               date : 0 .. 364, alone : BOOLEAN]
  BY <1>2 DEF Init
<1>6. req \in [Requests -> Request]
  BY IdleTyped DEF Init
<1>7. RequestsFit
  BY <1>3, IdleTyped DEF RequestsFit
<1>8. \A r \in Requests :
        /\ req[r].tok \in 0 .. Len(token) /\ req[r].new \in 0 .. Len(token)
        /\ req[r].pc = "blacklist" => req[r].tok # 0
  BY <1>1, <1>3, IdleTyped
<1>9. \A t \in DOMAIN token : token[t].login \in DOMAIN token
  BY <1>1
<1>10. \A r \in Requests : req[r].pc = "idle" => req[r] = Idle
  BY <1>3
<1> QED  BY <1>1, <1>2, <1>4, <1>5, <1>6, <1>7, <1>8, <1>9, <1>10 DEF TypeOK, TokenRow

LEMMA NextTyped ==
  ASSUME TypeOK, RequestsFit, [Next]_vars PROVE TypeOK' /\ RequestsFit'
<1>1. CASE OtherStep  BY <1>1, OtherTyped
<1>2. CASE \E r \in Requests : RequestStep(r)  BY <1>2, StepTyped
<1>3. CASE UNCHANGED vars
  BY <1>3 DEF vars, TypeOK, RequestsFit, Fits
<1> QED  BY <1>1, <1>2, <1>3 DEF Next, OtherStep

(* The state of accounts and sessions keeps its shape.                     *)
THEOREM AccountTypeCorrect == Spec => []TypeOK
<1>1. Init => TypeOK /\ RequestsFit
  BY InitTyped
<1>2. TypeOK /\ RequestsFit /\ [Next]_vars => (TypeOK /\ RequestsFit)'
  BY NextTyped
<1> QED  BY <1>1, <1>2, PTL DEF Spec

-----------------------------------------------------------------------------
(* Sign-ups.  A sign-up that nothing overlaps finds what it has read still *)
(* true when it inserts its rows ...                                       *)
SignupInv(r) ==
  r \in UnderWay("signup") /\ req[r].alone =>
    /\ ~ Seeding /\ \A s \in Requests \ {r} : s \notin UnderWay("signup")
    /\ req[r].pc \in {"slug", "create"} => account[req[r].email] = "none"
    /\ req[r].pc = "create" => req[r].slug \notin Taken
    /\ req[r].pc # "error"

(* ... as no profile that is saved takes an account away.                  *)
ProfileInv(r) ==
  r \in UnderWay("me") => /\ account[req[r].email] # "none"
                          /\ req[r].pc = "save" => req[r].kept # "none"

OwnersInv ==
  /\ \A o \in org : account[o.owner] # "none"
  /\ \A o, p \in org : o.slug = p.slug => o = p

TenantInv == OwnersInv /\ \A r \in Requests : SignupInv(r) /\ ProfileInv(r)

(* Which step leads where.                                                 *)
LEMMA Pcs ==
  ASSUME TypeOK, RequestsFit, NEW r \in Requests, RequestStep(r)
  PROVE  /\ req'[r].pc = "save" => FetchMe(r)
         /\ req'[r].pc = "create" => FindSlug(r)
         /\ req'[r].pc = "slug" => ValidateEmail(r)
         /\ req'[r].pc = "error" => RejectTenant(r)
         /\ req'[r].pc = "blacklist" => CheckToken(r)
         /\ req'[r].pc # "check"
         /\ req'[r].pc = "answer" /\ req'[r].op = "logout" => CheckToken(r) \/ Logout(r)
<1>1. req[r] \in Request /\ DOMAIN req = Requests /\ Fits(req[r])
  BY DEF TypeOK, RequestsFit
<1>2. CASE ValidateEmail(r)
  <2>1. req'[r].pc \in {"slug", "answer"} /\ req'[r].op = req[r].op
    BY <1>1, <1>2 DEF ValidateEmail, Goto, Request
  <2> QED  BY <1>1, <1>2, <2>1 DEF ValidateEmail, Fits
<1>3. CASE FindSlug(r) \/ FetchMe(r) \/ RejectTenant(r)
  BY <1>1, <1>3 DEF FindSlug, FetchMe, RejectTenant, Request
<1>4. CASE CreateTenant(r) \/ Rotate(r) \/ CheckLogin(r)
  <2>1. req[r].op # "logout"
    BY <1>1, <1>4 DEF CreateTenant, Rotate, CheckLogin, Fits
  <2>2. req'[r].pc = "answer" /\ req'[r].op = req[r].op
    <3>1. CASE CreateTenant(r) \/ Rotate(r)
      BY <1>1, <3>1 DEF CreateTenant, Rotate, AnswerWith, Request
    <3>2. CASE CheckLogin(r)
      BY <1>1, <3>2 DEF CheckLogin, AnswerWith, Goto, Request
    <3> QED  BY <1>4, <3>1, <3>2
  <2> QED  BY <2>1, <2>2
<1>5. CASE CheckToken(r) \/ Logout(r)
  <2>1. req'[r].pc \in {"blacklist", "answer"}
    BY <1>1, <1>5 DEF CheckToken, Logout, Goto, Request
  <2>2. req'[r].pc = "blacklist" => CheckToken(r)
    BY <1>1, <1>5 DEF Logout, Goto, Request
  <2> QED  BY <1>5, <2>1, <2>2
<1>6. CASE SaveMe(r)
  <2>1. req'[r].pc = "answer" /\ req'[r].op = "me"
    BY <1>1, <1>6 DEF SaveMe, Goto, Request, Fits
  <2> QED  BY <2>1
<1>7. CASE Answer(r) \/ AnswerError(r)
  BY <1>1, <1>7 DEF Answer, AnswerError, Idle
<1> QED  BY <1>2, <1>3, <1>4, <1>5, <1>6, <1>7 DEF RequestStep

LEMMA Touches ==
  ASSUME NEW r \in Requests, RequestStep(r)
  PROVE  /\ UNCHANGED <<seed, evicted, mixed, budget>>
         /\ SaveMe(r) \/ CreateTenant(r) \/ account' = account
         /\ CreateTenant(r) \/ org' = org
         /\ Answer(r) \/ cookie' = cookie
         /\ req[r].pc # "idle"
BY DEF RequestStep, ValidateEmail, FindSlug, RejectTenant, CheckLogin, CheckToken,
       Rotate, Logout, FetchMe, SaveMe, CreateTenant, Answer, AnswerError

(* An account, once there, stays.                                          *)
LEMMA AccountsStay ==
  ASSUME TypeOK, RequestsFit, NEW r \in Requests, ProfileInv(r), RequestStep(r)
  PROVE  \A e \in Emails : account[e] # "none" => account'[e] # "none"
<1>1. CASE SaveMe(r)
  <2>1. req[r].kept # "none"
    <3>1. Fits(req[r]) /\ req[r].pc = "save"
      BY <1>1 DEF SaveMe, RequestsFit
    <3> QED  BY <3>1 DEF Fits, ProfileInv, UnderWay
  <2> QED  BY <1>1, <2>1 DEF SaveMe, TypeOK
<1>2. CASE CreateTenant(r)
  BY <1>2 DEF CreateTenant, TypeOK
<1>3. CASE account' = account
  BY <1>3
<1> QED  BY <1>1, <1>2, <1>3, Touches

LEMMA OwnersStep ==
  ASSUME TypeOK, RequestsFit, OwnersInv, NEW r \in Requests, ProfileInv(r), RequestStep(r)
  PROVE  OwnersInv'
<1>1. \A o \in org : o.owner \in Emails
  BY DEF TypeOK
<1>2. \A o \in org : account'[o.owner] # "none"
  BY <1>1, AccountsStay DEF OwnersInv
<1>3. CASE org' = org
  BY <1>2, <1>3 DEF OwnersInv
<1>4. CASE CreateTenant(r)
  <2> DEFINE new == [slug |-> req[r].slug, owner |-> req[r].email]
  <2>1. org' = org \union {new} /\ new.slug \notin Taken
    BY <1>4 DEF CreateTenant
  <2>2. account'[new.owner] = "own"
    <3>1. req[r].email \in Emails
      BY DEF TypeOK, Request
    <3> QED  BY <1>4, <3>1 DEF CreateTenant, TypeOK
  <2>3. \A o \in org : o.slug # new.slug
    BY <2>1 DEF Taken
  <2> HIDE DEF new
  <2> QED  BY <1>2, <2>1, <2>2, <2>3 DEF OwnersInv
<1> QED  BY <1>3, <1>4, Touches

LEMMA TenantStep ==
  ASSUME TypeOK, RequestsFit, TenantInv, NEW r \in Requests, RequestStep(r)
  PROVE  TenantInv'
<1>1. PICK x \in Request :
        /\ req' = [req EXCEPT ![r] = x] /\ Fits(x)
        /\ Advanced(r, x) \/ x = Idle
  BY Steps
<1>2. /\ req'[r] = x /\ \A s \in Requests \ {r} : req'[s] = req[s]
  BY <1>1 DEF TypeOK
<1>3. UNCHANGED seed /\ req[r].pc # "idle"
  BY Touches
<1>4. \A e \in Emails : account[e] # "none" => account'[e] # "none"
  BY AccountsStay DEF TenantInv
<1>5. \A s \in Requests : req[s].email \in Emails
  BY DEF TypeOK, Request
<1>6. ASSUME NEW s \in Requests PROVE ProfileInv(s)'
  <2>1. CASE s # r
    BY <1>2, <1>4, <1>5, <2>1 DEF TenantInv, ProfileInv, UnderWay
  <2>2. CASE s = r /\ x = Idle
    BY <1>2, <2>2, IdleTyped DEF ProfileInv, UnderWay
  <2>3. CASE s = r /\ Advanced(r, x)
    <3> SUFFICES ASSUME x.op = "me"
                 PROVE  /\ account'[x.email] # "none"
                        /\ x.pc = "save" => x.kept # "none"
      BY <1>2, <2>3 DEF ProfileInv, UnderWay
    <3>1. account[req[r].email] # "none" /\ x.email = req[r].email
      BY <2>3 DEF Advanced, TenantInv, ProfileInv, UnderWay
    <3>2. x.pc = "save" => x.kept # "none"
      <4> SUFFICES ASSUME x.pc = "save" PROVE x.kept # "none"
        OBVIOUS
      <4>1. FetchMe(r)
        BY <1>2, Pcs
      <4>2. req[r] \in Request
        BY DEF TypeOK
      <4>3. req'[r].kept = account[req[r].email]
        BY <4>1, <4>2 DEF FetchMe, TypeOK, Request
      <4> QED  BY <1>2, <3>1, <4>3
    <3> QED  BY <1>4, <1>5, <3>1, <3>2
  <2> QED  BY <1>1, <2>1, <2>2, <2>3
<1>7. ASSUME NEW s \in Requests PROVE SignupInv(s)'
  <2>1. CASE s # r
    <3> SUFFICES ASSUME s \in UnderWay("signup"), req[s].alone PROVE SignupInv(s)'
      BY <1>2, <2>1 DEF SignupInv, UnderWay
    <3>1. SignupInv(s) /\ r \notin UnderWay("signup")
      BY <2>1 DEF TenantInv, SignupInv
    <3>2. req[r].op # "signup" /\ x.op # "signup"
      BY <1>1, <1>3, <3>1, IdleTyped DEF UnderWay, Advanced
    <3>3. org' = org /\ (account' = account \/ SaveMe(r))
      BY <3>2, Touches DEF CreateTenant, RequestsFit, Fits
    <3>4. account[req[s].email] = "none" => account'[req[s].email] = "none"
      <4>1. CASE SaveMe(r)
        <5>1. account[req[r].email] # "none"
          BY <4>1 DEF SaveMe, RequestsFit, Fits, TenantInv, ProfileInv, UnderWay
        <5> QED  BY <1>5, <4>1, <5>1 DEF SaveMe, TypeOK
      <4> QED  BY <3>3, <4>1
    <3>5. \A q \in Requests \ {s} : q \notin UnderWay("signup")'
      BY <1>2, <3>1, <3>2 DEF SignupInv, UnderWay
    <3> QED  BY <1>2, <1>3, <2>1, <3>1, <3>3, <3>4, <3>5
             DEF SignupInv, Seeding, Taken
  <2>2. CASE s = r /\ x = Idle
    BY <1>2, <2>2, IdleTyped DEF SignupInv, UnderWay
  <2>3. CASE s = r /\ Advanced(r, x)
    <3> SUFFICES ASSUME x.op = "signup", x.alone PROVE SignupInv(r)'
      BY <1>2, <2>3 DEF SignupInv, UnderWay
    <3>1. /\ SignupInv(r) /\ r \in UnderWay("signup") /\ req[r].alone /\ x.email = req[r].email
      BY <2>3 DEF TenantInv, Advanced, UnderWay
    <3>2. x.pc = "slug" => account'[x.email] = "none"
      <4> SUFFICES ASSUME x.pc = "slug" PROVE account'[x.email] = "none"
        OBVIOUS
      <4>1. ValidateEmail(r) /\ req'[r].pc = "slug"
        BY <1>2, Pcs
      <4>2. account[req[r].email] = "none" /\ account' = account
        BY <4>1 DEF ValidateEmail, Goto, TypeOK, Request
      <4> QED  BY <3>1, <4>2
    <3>3. x.pc = "create" => account'[x.email] = "none" /\ x.slug \notin Taken'
      <4> SUFFICES ASSUME x.pc = "create"
                   PROVE  account'[x.email] = "none" /\ x.slug \notin Taken'
        OBVIOUS
      <4>1. FindSlug(r)
        BY <1>2, Pcs
      <4>2. account[req[r].email] = "none" /\ UNCHANGED <<account, org>>
        BY <3>1, <4>1 DEF FindSlug, SignupInv
      <4>3. req'[r].slug \notin Taken
        <5>1. req[r] \in Request
          BY DEF TypeOK
        <5> QED  BY <4>1, <5>1 DEF FindSlug, TypeOK, Request
      <4> QED  BY <1>2, <3>1, <4>2, <4>3 DEF Taken
    <3>4. x.pc # "error"
      <4> SUFFICES ASSUME x.pc = "error" PROVE FALSE
        OBVIOUS
      <4>1. RejectTenant(r)
        BY <1>2, Pcs
      <4> QED  BY <3>1, <4>1 DEF RejectTenant, SignupInv
    <3>5. \A q \in Requests \ {r} : q \notin UnderWay("signup")'
      BY <1>2, <3>1 DEF SignupInv, UnderWay
    <3> QED  BY <1>2, <1>3, <3>1, <3>2, <3>3, <3>4, <3>5 DEF SignupInv, Seeding
  <2> QED  BY <1>1, <2>1, <2>2, <2>3
<1>8. OwnersInv'
  BY OwnersStep DEF TenantInv
<1> QED  BY <1>6, <1>7, <1>8 DEF TenantInv

(* Sending a request disturbs the sign-ups that are under way, if it is    *)
(* one itself.                                                             *)
LEMMA SendTenants ==
  ASSUME TypeOK, RequestsFit, TenantInv, NEW r \in Requests, NEW op \in Ops,
         NEW e \in Emails, Send(r, op, e, FirstPc(op)), op = "me" => HasTenant(e)
  PROVE  TenantInv'
<1> DEFINE x == req'[r]
<1>1. x \in Request /\ Sent(r, x) /\ x.email = e /\ x.op = op
  <2>1. x.op = op
    BY DEF Send, Idle, TypeOK
  <2> QED  BY <2>1, SendShape
<1>2. /\ UNCHANGED <<account, org>> /\ (Seeding' <=> Seeding)
      /\ x.pc = FirstPc(op) /\ x.kept = "none" /\ req[r].pc = "idle"
      /\ x.alone = (UnderWay("signup") = {} /\ ~ Seeding)
  <2>1. seed' = seed \/ seed' = [seed EXCEPT !.alone = FALSE]
    BY <1>1 DEF Sent
  <2>2. seed'.pc = seed.pc
    BY <2>1 DEF TypeOK
  <2> QED  BY <1>1, <2>2 DEF Sent, Seeding
<1>3. ASSUME NEW s \in Requests \ {r}
      PROVE  /\ req'[s] = req[s] \/ (op = "signup" /\ s \in UnderWay("signup"))
             /\ req'[s].pc = req[s].pc /\ req'[s].op = req[s].op
             /\ req'[s].email = req[s].email /\ req'[s].kept = req[s].kept
             /\ op = "signup" /\ s \in UnderWay("signup") => ~ req'[s].alone
  <2>1. CASE op = "signup" /\ s \in UnderWay("signup")
    <3>1. req'[s] = [req[s] EXCEPT !.alone = FALSE]
      BY <1>1, <2>1 DEF Sent
    <3> QED  BY <2>1, <3>1, Disturbed
  <2>2. CASE ~ (op = "signup" /\ s \in UnderWay("signup"))
    BY <1>1, <2>2 DEF Sent
  <2> QED  BY <2>1, <2>2
<1> HIDE DEF x
<1>4. req'[r] = x
  BY DEF x
<1>5. ASSUME NEW s \in Requests PROVE ProfileInv(s)'
  <2>1. CASE s = r
    <3>1. op = "me" => account[e] # "none"
      BY DEF HasTenant, TenantInv, OwnersInv
    <3> QED  BY <1>1, <1>2, <1>4, <2>1, <3>1 DEF ProfileInv, UnderWay, FirstPc
  <2>2. CASE s # r
    BY <1>2, <1>3, <2>2 DEF TenantInv, ProfileInv, UnderWay
  <2> QED  BY <2>1, <2>2
<1>6. ASSUME NEW s \in Requests PROVE SignupInv(s)'
  <2>1. CASE s = r
    <3>1. x.alone => \A q \in Requests \ {r} : q \notin UnderWay("signup")'
      BY <1>2, <1>3 DEF UnderWay
    <3>2. x.op = "signup" => x.pc = "validate"
      BY <1>1, <1>2 DEF FirstPc
    <3> QED  BY <1>2, <1>4, <2>1, <3>1, <3>2 DEF SignupInv, UnderWay
  <2>2. CASE s # r
    <3> SUFFICES ASSUME s \in UnderWay("signup")', req'[s].alone PROVE SignupInv(s)'
      BY DEF SignupInv
    <3>1. s \in UnderWay("signup")
      BY <1>3, <2>2 DEF UnderWay
    <3>2. op # "signup" /\ req'[s] = req[s]
      BY <1>3, <2>2, <3>1
    <3>3. SignupInv(s) /\ req[s].alone
      BY <3>2 DEF TenantInv
    <3>4. \A q \in Requests \ {s} : q \notin UnderWay("signup")'
      <4> TAKE q \in Requests \ {s}
      <4>1. CASE q = r
        BY <1>1, <1>4, <3>2, <4>1 DEF UnderWay
      <4>2. CASE q # r
        BY <1>3, <3>1, <3>3, <4>2 DEF UnderWay, SignupInv
      <4> QED  BY <4>1, <4>2
    <3> QED  BY <1>2, <3>1, <3>2, <3>3, <3>4 DEF SignupInv, Taken
  <2> QED  BY <2>1, <2>2
<1> QED  BY <1>2, <1>5, <1>6 DEF TenantInv, OwnersInv

LEMMA SeedTenants ==
  ASSUME TypeOK, RequestsFit, TenantInv,
         (\E day \in Dates : StartSeed(day)) \/ CommitSeed \/ AbortSeed
  PROVE  TenantInv'
<1>1. CASE \E day \in Dates : StartSeed(day)
  <2>1. /\ UNCHANGED <<account, org>>
        /\ \A s \in Requests : req'[s] = IF s \in UnderWay("signup")
                                         THEN [req[s] EXCEPT !.alone = FALSE] ELSE req[s]
    BY <1>1 DEF StartSeed
  <2>2. ASSUME NEW s \in Requests PROVE ProfileInv(s)' /\ SignupInv(s)'
    <3>1. CASE s \in UnderWay("signup")
      <4>1. req'[s].alone = FALSE /\ req'[s].op = req[s].op
        BY <2>1, <3>1, Disturbed
      <4> QED  BY <3>1, <4>1 DEF ProfileInv, SignupInv, UnderWay
    <3>2. CASE s \notin UnderWay("signup")
      BY <2>1, <3>2 DEF TenantInv, ProfileInv, SignupInv, UnderWay
    <3> QED  BY <3>1, <3>2
  <2> QED  BY <2>1, <2>2 DEF TenantInv, OwnersInv
<1>2. CASE CommitSeed
  <2> DEFINE demo == [slug |-> 1, owner |-> DemoEmail]
  <2>1. /\ Seeding /\ ~ Blocked /\ req' = req
        /\ account' = [account EXCEPT ![DemoEmail] = "demo"]
        /\ org' = (org \ seed.found) \union {demo}
    BY <1>2 DEF CommitSeed
  <2>2. \A e \in Emails : account'[e] = IF e = DemoEmail THEN "demo" ELSE account[e]
    BY <2>1 DEF TypeOK
  <2>3. \A s \in Requests : req[s].email \in Emails
    BY DEF TypeOK, Request
  <2>4. ASSUME NEW s \in Requests PROVE ProfileInv(s)' /\ SignupInv(s)'
    BY <2>1, <2>2, <2>3 DEF TenantInv, ProfileInv, SignupInv, UnderWay
  <2>5. OwnersInv'
    <3>1. \A o \in org : o.owner \in Emails
      BY DEF TypeOK
    <3>2. \A o \in org \ seed.found : o.slug # 1
      BY <2>1 DEF Blocked
    <3>3. demo.slug = 1 /\ demo.owner = DemoEmail
      OBVIOUS
    <3> HIDE DEF demo
    <3>4. \A o \in org' : account'[o.owner] # "none"
      BY <2>1, <2>2, <3>1, <3>3, AccountConstants DEF TenantInv, OwnersInv
    <3>5. \A o, p \in org' : o.slug = p.slug => o = p
      BY <2>1, <3>2, <3>3 DEF TenantInv, OwnersInv
    <3> QED  BY <3>4, <3>5 DEF OwnersInv
  <2> QED  BY <2>4, <2>5 DEF TenantInv
<1>3. CASE AbortSeed
  <2>1. UNCHANGED <<account, org, req>> /\ Seeding
    BY <1>3 DEF AbortSeed
  <2>2. ASSUME NEW s \in Requests PROVE ProfileInv(s)' /\ SignupInv(s)'
    BY <2>1 DEF TenantInv, ProfileInv, SignupInv, UnderWay
  <2> QED  BY <2>1, <2>2 DEF TenantInv, OwnersInv
<1> QED  BY <1>1, <1>2, <1>3

LEMMA LoseTenants ==
  ASSUME TypeOK, TenantInv, NEW r \in Requests, LoseAnswer(r) PROVE TenantInv'
<1>1. /\ UNCHANGED <<account, org, seed>>
      /\ \A s \in Requests : req'[s] = IF s = r THEN Idle ELSE req[s]
  BY DEF LoseAnswer, TypeOK
<1>2. \A s \in Requests : s \in UnderWay("signup")' => s # r /\ s \in UnderWay("signup")
  BY <1>1, IdleTyped DEF UnderWay
<1>3. ASSUME NEW s \in Requests PROVE ProfileInv(s)' /\ SignupInv(s)'
  <2>1. CASE s = r
    BY <1>1, <2>1, IdleTyped DEF ProfileInv, SignupInv, UnderWay
  <2>2. CASE s # r
    <3>1. ProfileInv(s)'
      BY <1>1, <2>2 DEF TenantInv, ProfileInv, UnderWay
    <3>2. SignupInv(s)'
      BY <1>1, <1>2, <2>2 DEF TenantInv, SignupInv, Seeding, Taken
    <3> QED  BY <3>1, <3>2
  <2> QED  BY <2>1, <2>2
<1> QED  BY <1>1, <1>3 DEF TenantInv, OwnersInv

LEMMA TenantNext ==
  ASSUME TypeOK, RequestsFit, TenantInv, [Next]_vars PROVE TenantInv'
<1>1. ASSUME NEW r \in Requests, NEW e \in Emails,
             \/ SendRefresh(r) \/ SendLogout(r)
             \/ SendSignup(r, e) \/ SendLogin(r, e) \/ SendMe(r, e)
      PROVE  TenantInv'
  <2>1. PICK op \in Ops, f \in Emails :
          Send(r, op, f, FirstPc(op)) /\ (op = "me" => HasTenant(f))
    BY <1>1, SendsShaped
  <2> QED  BY <2>1, SendTenants
<1>2. CASE UNCHANGED vars
  <2>1. UNCHANGED <<account, org, seed, req>>
    BY <1>2 DEF vars
  <2> QED  BY <2>1 DEF TenantInv, OwnersInv, SignupInv, ProfileInv, UnderWay, Seeding, Taken
<1> QED  BY <1>1, <1>2, TenantStep, SeedTenants, LoseTenants, AccountConstants DEF Next

LEMMA TenantInit == ASSUME Init PROVE TenantInv
BY IdleTyped DEF Init, TenantInv, OwnersInv, SignupInv, ProfileInv, UnderWay

(* A sign-up is turned down by a unique constraint only when another       *)
(* sign-up or a seeding overlapped it, and no two organizations share a    *)
(* slug (accounts/serializers.py:34 and :45).                              *)
THEOREM SignupsFailOnlyByOverlap == Spec => []SignupFailsOnlyByOverlap
<1>1. Init => TypeOK /\ RequestsFit /\ TenantInv
  BY InitTyped, TenantInit
<1>2. TypeOK /\ RequestsFit /\ TenantInv /\ [Next]_vars => (TypeOK /\ RequestsFit /\ TenantInv)'
  BY NextTyped, TenantNext
<1>3. RequestsFit /\ TenantInv => SignupFailsOnlyByOverlap
  BY DEF RequestsFit, Fits, TenantInv, OwnersInv, SignupInv, UnderWay, SignupFailsOnlyByOverlap
<1> QED  BY <1>1, <1>2, <1>3, PTL DEF Spec

-----------------------------------------------------------------------------
(* Sessions.  The tokens of a login that is not mixed up: one works ...    *)
L(t) == token[t].login

Sole ==
  \A i, j \in DOMAIN token :
    i # j /\ token[i].live /\ token[j].live /\ L(i) = L(j) => L(i) \in mixed

(* ... one request carries it, finds it working and leaves none behind ... *)
CarrierInv(r) ==
  req[r].tok # 0 =>
    /\ \A s \in Requests \ {r} :
         req[s].tok # 0 /\ L(req[s].tok) = L(req[r].tok) => L(req[r].tok) \in mixed
    /\ req[r].pc \in {"check", "blacklist"} /\ L(req[r].tok) \notin mixed =>
         token[req[r].tok].live
    /\ req[r].pc = "answer" /\ req[r].op = "logout" =>
         \A i \in DOMAIN token :
           token[i].live /\ L(i) = L(req[r].tok) => L(i) \in mixed

(* ... or brings its successor, unless it is a new login ...               *)
NewInv(r) ==
  req[r].new # 0 =>
    /\ L(req[r].new) \notin mixed => token[req[r].new].live
    /\ req[r].op = "refresh" => L(req[r].new) = L(req[r].tok)
    /\ req[r].op # "refresh" =>
         /\ L(req[r].new) = req[r].new
         /\ \A s \in Requests : req[s].tok # 0 => L(req[s].tok) # req[r].new
         /\ \A s \in Requests \ {r} : req[s].new # 0 => L(req[s].new) # req[r].new
         /\ cookie # 0 => L(cookie) # req[r].new

(* ... and the cookie holds it, or is about to be replaced.                *)
Replaces(r) ==
  /\ req[r].tok # 0 /\ L(req[r].tok) = L(cookie) /\ req[r].pc = "answer"
  /\ req[r].op = "logout" \/ req[r].new # 0

CookieInv ==
  cookie # 0 /\ L(cookie) \notin mixed =>
    token[cookie].live \/ \E r \in Requests : Replaces(r)

SessionInv == Sole /\ CookieInv /\ \A r \in Requests : CarrierInv(r) /\ NewInv(r)

LEMMA Indices ==
  ASSUME TypeOK
  PROVE  /\ \A r \in Requests : /\ req[r].tok # 0 => req[r].tok \in DOMAIN token
                                /\ req[r].new # 0 => req[r].new \in DOMAIN token
         /\ cookie # 0 => cookie \in DOMAIN token
BY Tokens DEF TypeOK

(* Nothing is issued or blacklisted, and a request may start or go on.     *)
LEMMA QuietSessions ==
  ASSUME TypeOK, RequestsFit, SessionInv, NEW r \in Requests,
         UNCHANGED <<token, cookie>>, mixed \subseteq mixed',
         \A s \in Requests \ {r} :
           /\ req'[s].tok = req[s].tok /\ req'[s].new = req[s].new
           /\ req'[s].pc = req[s].pc /\ req'[s].op = req[s].op,
         req'[r].new = 0,
         req'[r].tok # 0 =>
           /\ \A s \in Requests \ {r} :
                req[s].tok # 0 /\ L(req[s].tok) = L(req'[r].tok) => L(req'[r].tok) \in mixed'
           /\ req'[r].pc \in {"check", "blacklist"} /\ L(req'[r].tok) \notin mixed' =>
                token[req'[r].tok].live
           /\ req'[r].pc = "answer" /\ req'[r].op = "logout" => L(req'[r].tok) \in mixed'
           /\ \A s \in Requests \ {r} : req[s].new # 0 /\ req[s].op # "refresh" =>
                                          L(req'[r].tok) # req[s].new,
         cookie # 0 /\ Replaces(r) => L(cookie) \in mixed'
  PROVE  SessionInv'
<1>1. \A t : L(t)' = L(t)
  BY DEF L
<1>2. Sole'
  BY DEF SessionInv, Sole, L
<1>3. CookieInv'
  <2> SUFFICES ASSUME cookie # 0, L(cookie) \notin mixed', ~ token[cookie].live
               PROVE  \E s \in Requests : Replaces(s)'
    BY <1>1 DEF CookieInv
  <2>1. PICK s \in Requests : Replaces(s)
    BY DEF SessionInv, CookieInv
  <2>2. s # r
    BY <2>1
  <2> QED  BY <1>1, <2>1, <2>2 DEF Replaces
<1>4. ASSUME NEW s \in Requests PROVE CarrierInv(s)'
  <2>1. CASE s = r
    BY <1>1, <2>1 DEF CarrierInv
  <2>2. CASE s # r
    <3> SUFFICES ASSUME req[s].tok # 0 PROVE CarrierInv(s)'
      BY <2>2 DEF CarrierInv
    <3>1. CarrierInv(s)
      BY DEF SessionInv
    <3>2. \A q \in Requests \ {s} :
            req'[q].tok # 0 /\ L(req'[q].tok) = L(req[s].tok) => L(req[s].tok) \in mixed'
      <4> TAKE q \in Requests \ {s}
      <4>1. CASE q = r
        BY <2>2, <4>1
      <4>2. CASE q # r
        BY <3>1, <4>2 DEF CarrierInv
      <4> QED  BY <4>1, <4>2
    <3> QED  BY <1>1, <2>2, <3>1, <3>2 DEF CarrierInv
  <2> QED  BY <2>1, <2>2
<1>5. ASSUME NEW s \in Requests PROVE NewInv(s)'
  <2>1. CASE s = r
    BY <2>1 DEF NewInv
  <2>2. CASE s # r
    <3> SUFFICES ASSUME req[s].new # 0 PROVE NewInv(s)'
      BY <2>2 DEF NewInv
    <3>1. NewInv(s)
      BY DEF SessionInv
    <3>2. req[s].op # "refresh" =>
            /\ \A q \in Requests : req'[q].tok # 0 => L(req'[q].tok) # req[s].new
            /\ \A q \in Requests \ {s} : req'[q].new # 0 => L(req'[q].new) # req[s].new
      BY <2>2, <3>1 DEF NewInv
    <3> QED  BY <1>1, <2>2, <3>1, <3>2 DEF NewInv
  <2> QED  BY <2>1, <2>2
<1> QED  BY <1>2, <1>3, <1>4, <1>5 DEF SessionInv

LEMMA SendSessions ==
  ASSUME TypeOK, RequestsFit, SessionInv, NEW r \in Requests, NEW op \in Ops,
         NEW e \in Emails, Send(r, op, e, FirstPc(op))
  PROVE  SessionInv'
<1>1. Sent(r, req'[r]) /\ req[r].pc = "idle"
  BY SendShape DEF Sent
<1>2. req'[r].new = 0 /\ req'[r].tok \in {0, cookie} /\ req'[r].pc # "answer"
      /\ UNCHANGED <<token, cookie>>
  BY <1>1 DEF Sent, FirstPc, Ops
<1>3. /\ mixed \subseteq mixed'
      /\ req'[r].tok # 0 =>
           Carrying(req'[r].tok) = {} \/ L(req'[r].tok) \in mixed'
  BY <1>1 DEF Sent, L
<1>4. \A s \in Requests \ {r} :
        /\ req'[s].tok = req[s].tok /\ req'[s].new = req[s].new
        /\ req'[s].pc = req[s].pc /\ req'[s].op = req[s].op
  <2> TAKE s \in Requests \ {r}
  <2>1. CASE req'[r].op = "signup" /\ s \in UnderWay("signup")
    <3>1. req'[s] = [req[s] EXCEPT !.alone = FALSE]
      BY <1>1, <2>1 DEF Sent
    <3> QED  BY <2>1, <3>1, Disturbed
  <2>2. CASE ~ (req'[r].op = "signup" /\ s \in UnderWay("signup"))
    BY <1>1, <2>2 DEF Sent
  <2> QED  BY <2>1, <2>2
<1>5. ASSUME req'[r].tok # 0
      PROVE  /\ \A s \in Requests \ {r} :
                  req[s].tok # 0 /\ L(req[s].tok) = L(req'[r].tok) => L(req'[r].tok) \in mixed'
             /\ L(req'[r].tok) \notin mixed' => token[req'[r].tok].live
             /\ \A s \in Requests \ {r} : req[s].new # 0 /\ req[s].op # "refresh" =>
                                            L(req'[r].tok) # req[s].new
  <2>1. req'[r].tok = cookie /\ cookie # 0
    BY <1>2, <1>5
  <2>2. Carrying(cookie) = {} => \A s \in Requests : req[s].tok = 0 \/ L(req[s].tok) # L(cookie)
    BY <2>1 DEF Carrying, L
  <2>3. L(cookie) \notin mixed' => token[cookie].live
    BY <1>3, <2>1, <2>2 DEF SessionInv, CookieInv, Replaces
  <2>4. \A s \in Requests : req[s].new # 0 /\ req[s].op # "refresh" => L(cookie) # req[s].new
    BY <2>1 DEF SessionInv, NewInv
  <2> QED  BY <1>3, <2>1, <2>2, <2>3, <2>4
<1>6. ~ Replaces(r)
  BY <1>1 DEF Replaces
<1> QED  BY <1>2, <1>3, <1>4, <1>5, <1>6, QuietSessions

LEMMA LoseSessions ==
  ASSUME TypeOK, RequestsFit, SessionInv, NEW r \in Requests, LoseAnswer(r)
  PROVE  SessionInv'
<1>1. /\ \A s \in Requests : req'[s] = IF s = r THEN Idle ELSE req[s]
      /\ UNCHANGED <<token, cookie>>
      /\ mixed \subseteq mixed' /\ (req[r].tok # 0 => L(req[r].tok) \in mixed')
  BY DEF LoseAnswer, TypeOK, L
<1>2. req'[r].new = 0 /\ req'[r].tok = 0
  BY <1>1, IdleTyped
<1>3. Replaces(r) => L(cookie) \in mixed'
  BY <1>1 DEF Replaces
<1> QED  BY <1>1, <1>2, <1>3, QuietSessions

(* A request goes on, and neither issues a token nor blacklists one.       *)
LEMMA AdvanceSessions ==
  ASSUME TypeOK, RequestsFit, SessionInv, NEW r \in Requests, RequestStep(r), ~ Logout(r),
         NEW x \in Request, req' = [req EXCEPT ![r] = x], Advanced(r, x), token' = token,
         x.new = 0
  PROVE  SessionInv'
<1>1. /\ req'[r] = x /\ \A s \in Requests \ {r} : req'[s] = req[s]
      /\ UNCHANGED mixed /\ x.pc # "idle"
      /\ x.tok = req[r].tok /\ x.op = req[r].op
  BY Touches DEF TypeOK, Advanced
<1>2. ~ Answer(r)
  BY <1>1 DEF Answer, Idle, TypeOK
<1>3. cookie' = cookie /\ req[r].pc # "answer"
  BY <1>2, Touches DEF RequestStep, ValidateEmail, FindSlug, RejectTenant, CheckLogin,
     CheckToken, Rotate, Logout, FetchMe, SaveMe, CreateTenant, AnswerError
<1>4. ~ Replaces(r)
  BY <1>3 DEF Replaces
<1>5. CarrierInv(r)
  BY DEF SessionInv
<1>6. ASSUME x.tok # 0, x.pc = "blacklist" PROVE token[x.tok].live
  <2>1. CheckToken(r)
    BY <1>1, <1>6, Pcs
  <2> QED  BY <1>1, <1>6, <2>1 DEF CheckToken, Goto, TypeOK, Request
<1>7. ASSUME x.tok # 0, x.pc = "answer", x.op = "logout" PROVE L(x.tok) \in mixed
  <2>1. CheckToken(r)
    BY <1>1, <1>7, Pcs
  <2>2. ~ token[req[r].tok].live
    BY <1>1, <1>7, <2>1 DEF CheckToken, Goto, TypeOK, Request
  <2> QED  BY <1>1, <1>5, <1>7, <2>1, <2>2 DEF CarrierInv, CheckToken
<1>8. x.pc # "check"
  BY <1>1, Pcs
<1>9. \A s \in Requests \ {r} : req[s].new # 0 /\ req[s].op # "refresh" /\ x.tok # 0 =>
                                  L(x.tok) # req[s].new
  BY <1>1 DEF SessionInv, NewInv
<1> QED  BY <1>1, <1>3, <1>4, <1>5, <1>6, <1>7, <1>8, <1>9, QuietSessions DEF CarrierInv

LEMMA AnswerSessions ==
  ASSUME TypeOK, RequestsFit, SessionInv, NEW r \in Requests, Answer(r) \/ AnswerError(r)
  PROVE  SessionInv'
<1>1. /\ \A s \in Requests : req'[s] = IF s = r THEN Idle ELSE req[s]
      /\ UNCHANGED <<token, mixed>> /\ \A t : L(t)' = L(t)
  BY DEF Answer, AnswerError, TypeOK, L
<1>2. CASE AnswerError(r)
  <2>1. cookie' = cookie /\ ~ Replaces(r)
    BY <1>2 DEF AnswerError, Replaces
  <2> QED  BY <1>1, <2>1, IdleTyped, QuietSessions
<1>3. CASE Answer(r)
  <2>1. /\ req[r].pc = "answer"
        /\ cookie' = IF req[r].op = "logout" THEN 0
                     ELSE IF req[r].new # 0 THEN req[r].new ELSE cookie
    BY <1>3 DEF Answer
  <2>2. Sole'
    BY <1>1 DEF SessionInv, Sole
  <2>3. ASSUME NEW s \in Requests PROVE CarrierInv(s)'
    <3>1. CASE s = r
      BY <1>1, <3>1, IdleTyped DEF CarrierInv
    <3>2. CASE s # r
      BY <1>1, <3>2, IdleTyped DEF SessionInv, CarrierInv
    <3> QED  BY <3>1, <3>2
  <2>4. ASSUME NEW s \in Requests PROVE NewInv(s)'
    <3>1. CASE s = r
      BY <1>1, <3>1, IdleTyped DEF NewInv
    <3>2. CASE s # r
      <4> SUFFICES ASSUME req[s].new # 0 PROVE NewInv(s)'
        BY <1>1, <3>2 DEF NewInv
      <4>1. NewInv(s)
        BY DEF SessionInv
      <4>2. req[s].op # "refresh" /\ cookie' # 0 => L(cookie') # req[s].new
        BY <2>1, <3>2, <4>1 DEF NewInv
      <4> QED  BY <1>1, <3>2, <4>1, <4>2, IdleTyped DEF NewInv
    <3> QED  BY <3>1, <3>2
  <2>5. CookieInv'
    <3> SUFFICES ASSUME cookie' # 0, L(cookie') \notin mixed, ~ token[cookie'].live
                 PROVE  \E s \in Requests : Replaces(s)'
      BY <1>1 DEF CookieInv
    <3>1. req[r].op # "logout" /\ req[r].new = 0 /\ cookie' = cookie
      BY <2>1 DEF SessionInv, NewInv
    <3>2. PICK s \in Requests : Replaces(s)
      BY <3>1 DEF SessionInv, CookieInv
    <3>3. s # r
      BY <3>1, <3>2 DEF Replaces
    <3> QED  BY <1>1, <3>1, <3>2, <3>3 DEF Replaces
  <2> QED  BY <2>2, <2>3, <2>4, <2>5 DEF SessionInv
<1> QED  BY <1>2, <1>3

(* A login that is not mixed up has nothing but the token a request is     *)
(* about to blacklist.                                                     *)
LEMMA LastOne ==
  ASSUME TypeOK, RequestsFit, SessionInv, NEW r \in Requests, req[r].pc = "blacklist",
         L(req[r].tok) \notin mixed
  PROVE  /\ token[req[r].tok].live
         /\ \A i \in DOMAIN token : token[i].live /\ L(i) = L(req[r].tok) => i = req[r].tok
         /\ \A s \in Requests \ {r} :
              /\ req[s].tok # 0 => L(req[s].tok) # L(req[r].tok)
              /\ req[s].new # 0 => L(req[s].new) # L(req[r].tok) /\ req[s].new # req[r].tok
<1>1. req[r].tok # 0 /\ req[r].tok \in DOMAIN token
  BY Indices DEF RequestsFit, Fits
<1>2. token[req[r].tok].live
  BY <1>1 DEF SessionInv, CarrierInv
<1>3. \A i \in DOMAIN token : token[i].live /\ L(i) = L(req[r].tok) => i = req[r].tok
  BY <1>1, <1>2 DEF SessionInv, Sole
<1>4. ASSUME NEW s \in Requests \ {r}, req[s].tok # 0
      PROVE  L(req[s].tok) # L(req[r].tok)
  BY <1>1, <1>4 DEF SessionInv, CarrierInv
<1>5. ASSUME NEW s \in Requests \ {r}, req[s].new # 0
      PROVE  L(req[s].new) # L(req[r].tok)
  <2>1. NewInv(s) /\ Fits(req[s])
    BY DEF SessionInv, RequestsFit
  <2>2. CASE req[s].op = "refresh"
    BY <1>4, <1>5, <2>1, <2>2 DEF NewInv, Fits
  <2>3. CASE req[s].op # "refresh"
    BY <1>1, <1>5, <2>1, <2>3 DEF NewInv
  <2> QED  BY <2>2, <2>3
<1> QED  BY <1>2, <1>3, <1>4, <1>5

(* A token is blacklisted, by a logout or when its successor is issued.    *)
LEMMA BlacklistSessions ==
  ASSUME TypeOK, RequestsFit, SessionInv, NEW r \in Requests, req[r].pc = "blacklist",
         NEW x \in Request, req' = [req EXCEPT ![r] = x], UNCHANGED <<cookie, mixed>>,
         x.tok = req[r].tok, x.op = req[r].op, x.pc = "answer",
         ~ token'[req[r].tok].live,
         \A i \in DOMAIN token : i # req[r].tok => token'[i] = token[i],
         \A i \in DOMAIN token : token'[i].login = token[i].login,
         \/ x.new = 0 /\ x.op = "logout" /\ DOMAIN token' = DOMAIN token
         \/ /\ x.new # 0 /\ x.op = "refresh" /\ x.new \notin DOMAIN token
            /\ DOMAIN token' = DOMAIN token \union {x.new}
            /\ token'[x.new].live /\ token'[x.new].login = L(req[r].tok)
  PROVE  SessionInv'
<1> DEFINE t == req[r].tok
<1> USE DEF L
<1>1. /\ t # 0 /\ t \in DOMAIN token
      /\ \A i \in DOMAIN token : token'[i].login = L(i) /\ (token'[i].live => token[i].live /\ i # t)
      /\ req'[r] = x /\ \A s \in Requests \ {r} : req'[s] = req[s]
  <2>1. t # 0 /\ t \in DOMAIN token
    BY Indices DEF RequestsFit, Fits
  <2>2. \A i \in DOMAIN token : token'[i].live => token[i].live /\ i # t
    OBVIOUS
  <2>3. req'[r] = x /\ \A s \in Requests \ {r} : req'[s] = req[s]
    BY DEF TypeOK
  <2> QED  BY <2>1, <2>2, <2>3
<1>2. /\ L(t) \notin mixed =>
           /\ token[t].live
           /\ \A i \in DOMAIN token : token[i].live /\ L(i) = L(t) => i = t
           /\ \A s \in Requests \ {r} :
                /\ req[s].tok # 0 => L(req[s].tok) # L(t)
                /\ req[s].new # 0 => L(req[s].new) # L(t) /\ req[s].new # t
  BY LastOne
<1>3. x.new # 0 => token'[x.new].login = L(t)
  BY DEF L
<1>4. \A s \in Requests : /\ req[s].tok # 0 => req[s].tok \in DOMAIN token
                          /\ req[s].new # 0 => req[s].new \in DOMAIN token
  BY Indices
<1> HIDE DEF t
<1>5. Sole'
  <2> SUFFICES ASSUME NEW i \in DOMAIN token', NEW j \in DOMAIN token', i # j,
                      token'[i].live, token'[j].live, token'[i].login = token'[j].login
               PROVE  token'[i].login \in mixed
    BY DEF Sole
  <2>1. CASE i \in DOMAIN token /\ j \in DOMAIN token
    BY <1>1, <2>1 DEF SessionInv, Sole
  <2>2. CASE i \notin DOMAIN token /\ j \in DOMAIN token
    <3>1. token'[i].login = L(t) /\ L(j) = L(t) /\ token[j].live /\ j # t
      BY <1>1, <1>3, <2>2
    <3> QED  BY <1>2, <2>2, <3>1
  <2>3. CASE i \in DOMAIN token /\ j \notin DOMAIN token
    <3>1. token'[i].login = L(t) /\ L(i) = L(t) /\ token[i].live /\ i # t
      BY <1>1, <1>3, <2>3
    <3> QED  BY <1>2, <2>3, <3>1
  <2> QED  BY <2>1, <2>2, <2>3
<1>6. ASSUME NEW s \in Requests PROVE CarrierInv(s)'
  <2>1. CASE s = r
    <3>1. x.tok = t /\ token'[x.tok].login = L(t)
      BY <1>1 DEF t
    <3>2. \A q \in Requests \ {r} :
            req'[q].tok # 0 /\ token'[req'[q].tok].login = L(t) => L(t) \in mixed
      BY <1>1, <1>2, <1>4
    <3>3. x.op = "logout" => \A i \in DOMAIN token' :
            token'[i].live /\ token'[i].login = L(t) => L(t) \in mixed
      <4> SUFFICES ASSUME x.op = "logout", NEW i \in DOMAIN token', token'[i].live,
                          token'[i].login = L(t)
                   PROVE  L(t) \in mixed
        OBVIOUS
      <4>1. i \in DOMAIN token
        OBVIOUS
      <4> QED  BY <1>1, <1>2, <4>1
    <3> QED  BY <1>1, <2>1, <3>1, <3>2, <3>3 DEF CarrierInv
  <2>2. CASE s # r
    <3> SUFFICES ASSUME req[s].tok # 0 PROVE CarrierInv(s)'
      BY <1>1, <2>2 DEF CarrierInv
    <3>1. CarrierInv(s) /\ req[s].tok \in DOMAIN token /\ token'[req[s].tok].login = L(req[s].tok)
      BY <1>1, <1>4 DEF SessionInv
    <3>2. \A q \in Requests \ {s} :
            req'[q].tok # 0 /\ token'[req'[q].tok].login = L(req[s].tok) => L(req[s].tok) \in mixed
      <4> TAKE q \in Requests \ {s}
      <4>1. CASE q = r
        BY <1>1, <1>2, <2>2, <4>1 DEF t
      <4>2. CASE q # r
        BY <1>1, <1>4, <3>1, <4>2 DEF CarrierInv
      <4> QED  BY <4>1, <4>2
    <3>3. req[s].pc \in {"check", "blacklist"} /\ L(req[s].tok) \notin mixed =>
            token'[req[s].tok].live
      <4> SUFFICES ASSUME req[s].pc \in {"check", "blacklist"}, L(req[s].tok) \notin mixed
                   PROVE  token'[req[s].tok].live
        OBVIOUS
      <4>1. token[req[s].tok].live
        BY <3>1 DEF CarrierInv
      <4>2. req[s].tok # t
        BY <1>2, <2>2
      <4> QED  BY <3>1, <4>1, <4>2 DEF t
    <3>4. ASSUME req[s].pc = "answer", req[s].op = "logout", NEW i \in DOMAIN token',
                 token'[i].live, token'[i].login = L(req[s].tok)
          PROVE  L(req[s].tok) \in mixed
      <4>1. CASE i \in DOMAIN token
        BY <1>1, <3>1, <3>4, <4>1 DEF CarrierInv
      <4>2. CASE i \notin DOMAIN token
        BY <1>2, <1>3, <2>2, <3>4, <4>2
      <4> QED  BY <4>1, <4>2
    <3> QED  BY <1>1, <2>2, <3>1, <3>2, <3>3, <3>4 DEF CarrierInv
  <2> QED  BY <2>1, <2>2
<1>7. ASSUME NEW s \in Requests PROVE NewInv(s)'
  <2>1. CASE s = r
    BY <1>1, <1>3, <2>1 DEF NewInv, t
  <2>2. CASE s # r
    <3> SUFFICES ASSUME req[s].new # 0 PROVE NewInv(s)'
      BY <1>1, <2>2 DEF NewInv
    <3>1. NewInv(s) /\ Fits(req[s]) /\ token'[req[s].new].login = L(req[s].new)
      BY <1>1, <1>4 DEF SessionInv, RequestsFit
    <3>2. L(req[s].new) \notin mixed => token'[req[s].new].live
      <4> SUFFICES ASSUME L(req[s].new) \notin mixed PROVE token'[req[s].new].live
        OBVIOUS
      <4>1. token[req[s].new].live
        BY <3>1 DEF NewInv
      <4>2. req[s].new # t
        BY <1>2, <2>2
      <4> QED  BY <1>4, <4>1, <4>2 DEF t
    <3>3. req[s].op = "refresh" => token'[req[s].new].login = token'[req[s].tok].login
      BY <1>1, <1>4, <3>1 DEF NewInv, Fits
    <3>4. ASSUME req[s].op # "refresh"
          PROVE  /\ token'[req[s].new].login = req[s].new
                 /\ \A q \in Requests : req'[q].tok # 0 => token'[req'[q].tok].login # req[s].new
                 /\ \A q \in Requests \ {s} : req'[q].new # 0 => token'[req'[q].new].login # req[s].new
                 /\ cookie # 0 => token'[cookie].login # req[s].new
      <4>1. /\ \A q \in Requests : req[q].tok # 0 => L(req[q].tok) # req[s].new
            /\ \A q \in Requests \ {s} : req[q].new # 0 => L(req[q].new) # req[s].new
            /\ cookie # 0 => L(cookie) # req[s].new
        BY <3>1, <3>4 DEF NewInv
      <4>2. L(t) # req[s].new
        BY <1>1, <4>1 DEF t
      <4>3. \A q \in Requests : req'[q].tok # 0 => token'[req'[q].tok].login # req[s].new
        <5> TAKE q \in Requests
        <5>1. CASE q = r
          BY <1>1, <4>2, <5>1 DEF t
        <5>2. CASE q # r
          BY <1>1, <1>4, <4>1, <5>2
        <5> QED  BY <5>1, <5>2
      <4>4. \A q \in Requests \ {s} : req'[q].new # 0 => token'[req'[q].new].login # req[s].new
        <5> TAKE q \in Requests \ {s}
        <5>1. CASE q = r
          BY <1>1, <1>3, <4>2, <5>1
        <5>2. CASE q # r
          BY <1>1, <1>4, <4>1, <5>2
        <5> QED  BY <5>1, <5>2
      <4>5. cookie # 0 => token'[cookie].login # req[s].new
        BY <1>1, <4>1, Indices
      <4> QED  BY <3>1, <3>4, <4>3, <4>4, <4>5 DEF NewInv
    <3> QED  BY <1>1, <2>2, <3>1, <3>2, <3>3, <3>4 DEF NewInv
  <2> QED  BY <2>1, <2>2
<1>8. CookieInv'
  <2> SUFFICES ASSUME cookie # 0, token'[cookie].login \notin mixed, ~ token'[cookie].live
               PROVE  \E s \in Requests : Replaces(s)'
    BY DEF CookieInv
  <2>1. cookie \in DOMAIN token /\ token'[cookie].login = L(cookie)
    BY <1>1, Indices
  <2>2. CASE L(cookie) = L(t)
    <3>1. x.tok # 0 /\ token'[x.tok].login = token'[cookie].login /\ x.pc = "answer"
          /\ (x.op = "logout" \/ x.new # 0)
      BY <1>1, <2>1, <2>2 DEF t
    <3> QED  BY <1>1, <3>1 DEF Replaces
  <2>3. CASE L(cookie) # L(t)
    <3>1. ~ token[cookie].live
      BY <2>1, <2>3 DEF t
    <3>2. PICK s \in Requests : Replaces(s)
      BY <2>1, <3>1 DEF SessionInv, CookieInv
    <3>3. s # r
      BY <2>3, <3>2 DEF Replaces, t
    <3> QED  BY <1>1, <1>4, <2>1, <3>2, <3>3 DEF Replaces
  <2> QED  BY <2>2, <2>3
<1> QED  BY <1>5, <1>6, <1>7, <1>8 DEF SessionInv

(* A login starts.                                                         *)
LEMMA IssueSessions ==
  ASSUME TypeOK, RequestsFit, SessionInv, NEW r \in Requests, req[r].tok = 0,
         NEW x \in Request, req' = [req EXCEPT ![r] = x], UNCHANGED <<cookie, mixed>>,
         x.tok = 0, x.op # "refresh", x.new # 0, x.new \notin DOMAIN token,
         DOMAIN token' = DOMAIN token \union {x.new},
         token'[x.new].live, token'[x.new].login = x.new,
         \A i \in DOMAIN token : token'[i] = token[i]
  PROVE  SessionInv'
<1> USE DEF L
<1>1. /\ \A i \in DOMAIN token : token'[i] = token[i] /\ token[i].login # x.new
      /\ req'[r] = x /\ \A s \in Requests \ {r} : req'[s] = req[s]
  <2>1. \A i \in DOMAIN token : token[i].login \in DOMAIN token
    BY Tokens
  <2> QED  BY <2>1 DEF TypeOK
<1>2. \A s \in Requests : /\ req[s].tok # 0 => req[s].tok \in DOMAIN token
                          /\ req[s].new # 0 => req[s].new \in DOMAIN token
  BY Indices
<1>3. cookie # 0 => cookie \in DOMAIN token
  BY Indices
<1>4. Sole'
  BY <1>1 DEF SessionInv, Sole
<1>5. ASSUME NEW s \in Requests PROVE CarrierInv(s)'
  <2>1. CASE s = r
    BY <1>1, <2>1 DEF CarrierInv
  <2>2. CASE s # r
    <3> SUFFICES ASSUME req[s].tok # 0 PROVE CarrierInv(s)'
      BY <1>1, <2>2 DEF CarrierInv
    <3>1. CarrierInv(s) /\ req[s].tok \in DOMAIN token
      BY <1>2 DEF SessionInv
    <3>2. \A q \in Requests \ {s} :
            req'[q].tok # 0 /\ token'[req'[q].tok].login = L(req[s].tok) => L(req[s].tok) \in mixed
      <4> TAKE q \in Requests \ {s}
      <4>1. CASE q = r
        BY <1>1, <4>1
      <4>2. CASE q # r
        BY <1>1, <1>2, <3>1, <4>2 DEF CarrierInv
      <4> QED  BY <4>1, <4>2
    <3>3. ASSUME req[s].pc = "answer", req[s].op = "logout", NEW i \in DOMAIN token',
                 token'[i].live, token'[i].login = L(req[s].tok)
          PROVE  L(req[s].tok) \in mixed
      <4>1. i \in DOMAIN token
        BY <1>1, <3>1, <3>3
      <4> QED  BY <1>1, <3>1, <3>3, <4>1 DEF CarrierInv
    <3> QED  BY <1>1, <2>2, <3>1, <3>2, <3>3 DEF CarrierInv
  <2> QED  BY <2>1, <2>2
<1>6. ASSUME NEW s \in Requests PROVE NewInv(s)'
  <2>1. CASE s = r
    <3>1. \A q \in Requests : req'[q].tok # 0 => token'[req'[q].tok].login # x.new
      <4> TAKE q \in Requests
      <4>1. CASE q = r  BY <1>1, <4>1
      <4>2. CASE q # r  BY <1>1, <1>2, <4>2
      <4> QED  BY <4>1, <4>2
    <3>2. \A q \in Requests \ {r} : req'[q].new # 0 => token'[req'[q].new].login # x.new
      BY <1>1, <1>2
    <3>3. cookie # 0 => token'[cookie].login # x.new
      BY <1>1, <1>3
    <3> QED  BY <1>1, <2>1, <3>1, <3>2, <3>3 DEF NewInv
  <2>2. CASE s # r
    <3> SUFFICES ASSUME req[s].new # 0 PROVE NewInv(s)'
      BY <1>1, <2>2 DEF NewInv
    <3>1. NewInv(s) /\ Fits(req[s]) /\ req[s].new \in DOMAIN token
      BY <1>2 DEF SessionInv, RequestsFit
    <3>2. ASSUME req[s].op # "refresh"
          PROVE  /\ \A q \in Requests : req'[q].tok # 0 => token'[req'[q].tok].login # req[s].new
                 /\ \A q \in Requests \ {s} : req'[q].new # 0 => token'[req'[q].new].login # req[s].new
                 /\ cookie # 0 => token'[cookie].login # req[s].new
      <4>1. ASSUME NEW q \in Requests, req'[q].tok # 0
            PROVE  token'[req'[q].tok].login # req[s].new
        <5>1. CASE q = r  BY <1>1, <4>1, <5>1
        <5>2. CASE q # r  BY <1>1, <1>2, <3>1, <3>2, <4>1, <5>2 DEF NewInv
        <5> QED  BY <5>1, <5>2
      <4>2. ASSUME NEW q \in Requests \ {s}, req'[q].new # 0
            PROVE  token'[req'[q].new].login # req[s].new
        <5>1. CASE q = r  BY <1>1, <3>1, <5>1
        <5>2. CASE q # r  BY <1>1, <1>2, <3>1, <3>2, <4>2, <5>2 DEF NewInv
        <5> QED  BY <5>1, <5>2
      <4>3. cookie # 0 => token'[cookie].login # req[s].new
        BY <1>1, <1>3, <3>1, <3>2 DEF NewInv
      <4> QED  BY <4>1, <4>2, <4>3
    <3>3. req[s].op = "refresh" => token'[req[s].new].login = token'[req[s].tok].login
      BY <1>1, <1>2, <3>1 DEF NewInv, Fits
    <3> QED  BY <1>1, <2>2, <3>1, <3>2, <3>3 DEF NewInv
  <2> QED  BY <2>1, <2>2
<1>7. CookieInv'
  <2> SUFFICES ASSUME cookie # 0, token[cookie].login \notin mixed, ~ token[cookie].live
               PROVE  \E s \in Requests : Replaces(s)'
    BY <1>1, <1>3 DEF CookieInv
  <2>1. PICK s \in Requests : Replaces(s)
    BY DEF SessionInv, CookieInv
  <2>2. s # r /\ req[s].tok \in DOMAIN token
    BY <1>2, <2>1 DEF Replaces
  <2> QED  BY <1>1, <1>3, <2>1, <2>2 DEF Replaces
<1> QED  BY <1>4, <1>5, <1>6, <1>7 DEF SessionInv

LEMMA SessionStep ==
  ASSUME TypeOK, RequestsFit, SessionInv, NEW r \in Requests, RequestStep(r)
  PROVE  SessionInv'
<1>1. PICK x \in Request :
        /\ req' = [req EXCEPT ![r] = x] /\ Fits(x)
        /\ \/ Advanced(r, x)
           \/ x = Idle /\ (Answer(r) \/ AnswerError(r))
        /\ TokenStep(r, x)
  BY Steps
<1>2. CASE Answer(r) \/ AnswerError(r)
  BY <1>2, AnswerSessions
<1>3. CASE Logout(r)
  <2>1. /\ req[r].pc = "blacklist" /\ req[r].op = "logout" /\ token' = Blacklisted(req[r].tok)
        /\ UNCHANGED <<cookie, mixed>> /\ req[r] \in Request
    BY <1>3 DEF Logout, TypeOK
  <2>2. req'[r].pc = "answer" /\ req'[r].new = req[r].new
    BY <1>3, <2>1 DEF Logout, Goto, TypeOK, Request
  <2>3. req'[r] = x /\ req[r].new = 0
    BY <1>1, <2>1 DEF TypeOK, RequestsFit, Fits
  <2>4. PICK t \in DOMAIN token : t = req[r].tok
    BY <2>1, Indices DEF RequestsFit, Fits
  <2>5. /\ DOMAIN token' = DOMAIN token /\ ~ token'[t].live
        /\ \A i \in DOMAIN token : token'[i].login = token[i].login
        /\ \A i \in DOMAIN token : i # t => token'[i] = token[i]
    BY <2>1, <2>4, Listed
  <2>6. Advanced(r, x)
    BY <1>1, <2>2, <2>3, IdleTyped
  <2> QED  BY <1>1, <2>1, <2>2, <2>3, <2>4, <2>5, <2>6, BlacklistSessions DEF Advanced
<1>4. CASE Rotate(r)
  <2>1. /\ req[r].pc = "blacklist" /\ req[r].op = "refresh"
        /\ token' = Append(Blacklisted(req[r].tok),
                           [live |-> TRUE, login |-> token[req[r].tok].login])
        /\ UNCHANGED <<cookie, mixed>> /\ req[r] \in Request
    BY <1>4 DEF Rotate, TypeOK
  <2>2. req'[r].pc = "answer" /\ req'[r].new = Len(token) + 1
    BY <1>4, <2>1 DEF Rotate, AnswerWith, TypeOK, Request
  <2>3. req'[r] = x
    BY <1>1 DEF TypeOK
  <2>4. PICK t \in DOMAIN token : t = req[r].tok
    BY <2>1, Indices DEF RequestsFit, Fits
  <2>5. /\ Grown(token', token[t].login) /\ ~ token'[t].live
        /\ \A i \in DOMAIN token : i # t => token'[i] = token[i]
    BY <2>1, <2>4, Rotated
  <2>6. Advanced(r, x)
    BY <1>1, <2>2, <2>3, IdleTyped
  <2>7. /\ x.new = Len(token) + 1 /\ x.new # 0 /\ x.new \notin DOMAIN token
        /\ DOMAIN token' = DOMAIN token \union {x.new}
        /\ token'[x.new].live /\ token'[x.new].login = L(req[r].tok)
        /\ \A i \in DOMAIN token : token'[i].login = token[i].login
    BY <2>2, <2>3, <2>4, <2>5 DEF Grown, L
  <2>8. x.tok = req[r].tok /\ x.op = req[r].op /\ x.pc = "answer"
    BY <2>2, <2>3, <2>6 DEF Advanced
  <2> QED  BY <1>1, <2>1, <2>4, <2>5, <2>7, <2>8, BlacklistSessions
<1>5. CASE x.new # 0 /\ token' = Issue(0) /\ x.op \in {"signup", "login"} /\ x.new = Len(token) + 1
  <2>1. Advanced(r, x)
    BY <1>1, <1>5, IdleTyped
  <2>2. x.tok = 0 /\ req[r].tok = 0
    BY <1>1, <1>5, <2>1 DEF Fits, Advanced
  <2>3. /\ Grown(token', Len(token) + 1) /\ \A i \in DOMAIN token : token'[i] = token[i]
    BY <1>5, Issued
  <2>4. ~ Answer(r) /\ UNCHANGED mixed
    <3>1. req'[r] = x /\ x.pc # "idle"
      BY <1>1, <2>1 DEF TypeOK, Advanced
    <3> QED  BY <3>1, Touches DEF Answer, Idle, TypeOK
  <2>5. cookie' = cookie
    BY <2>4, Touches
  <2> QED  BY <1>1, <1>5, <2>2, <2>3, <2>4, <2>5, IssueSessions DEF Grown
<1>6. CASE /\ ~ Logout(r) /\ Advanced(r, x) /\ x.new = 0 /\ token' = token
  BY <1>1, <1>6, AdvanceSessions
<1>7. Len(token) + 1 # 0
  BY Tokens
<1> QED  BY <1>1, <1>2, <1>3, <1>4, <1>5, <1>6, <1>7 DEF TokenStep

LEMMA SessionNext ==
  ASSUME TypeOK, RequestsFit, SessionInv, [Next]_vars PROVE SessionInv'
<1>1. ASSUME NEW r \in Requests, NEW e \in Emails,
             \/ SendRefresh(r) \/ SendLogout(r)
             \/ SendSignup(r, e) \/ SendLogin(r, e) \/ SendMe(r, e)
      PROVE  SessionInv'
  BY <1>1, SendsShaped, SendSessions
<1>2. ASSUME UNCHANGED <<token, cookie, mixed>>,
             \A s \in Requests :
               /\ req'[s].tok = req[s].tok /\ req'[s].new = req[s].new
               /\ req'[s].pc = req[s].pc /\ req'[s].op = req[s].op
      PROVE  SessionInv'
  BY <1>2 DEF SessionInv, Sole, CookieInv, Replaces, CarrierInv, NewInv, L
<1>3. CASE \E day \in Dates : StartSeed(day)
  <2>1. /\ UNCHANGED <<token, cookie, mixed>>
        /\ \A s \in Requests : req'[s] = IF s \in UnderWay("signup")
                                         THEN [req[s] EXCEPT !.alone = FALSE] ELSE req[s]
    BY <1>3 DEF StartSeed
  <2>2. \A s \in Requests :
          /\ req'[s].tok = req[s].tok /\ req'[s].new = req[s].new
          /\ req'[s].pc = req[s].pc /\ req'[s].op = req[s].op
    BY <2>1, Disturbed
  <2> QED  BY <1>2, <2>1, <2>2
<1>4. CASE CommitSeed \/ AbortSeed \/ UNCHANGED vars
  <2>1. UNCHANGED <<token, cookie, mixed, req>>
    BY <1>4 DEF CommitSeed, AbortSeed, vars
  <2> QED  BY <1>2, <2>1
<1> QED  BY <1>1, <1>3, <1>4, SessionStep, LoseSessions, AccountConstants DEF Next

LEMMA SessionInit == ASSUME Init PROVE SessionInv
BY IdleTyped DEF Init, SessionInv, Sole, CookieInv, CarrierInv, NewInv

(* Rotation and logout leave a login one token that works, or none, unless *)
(* two requests raced with it or an answer was lost (accounts/views.py:79  *)
(* and :97).                                                               *)
THEOREM OneSessionEachLogin == Spec => []OneSessionPerLogin
<1>1. Init => TypeOK /\ RequestsFit /\ SessionInv
  BY InitTyped, SessionInit
<1>2. TypeOK /\ RequestsFit /\ SessionInv /\ [Next]_vars => (TypeOK /\ RequestsFit /\ SessionInv)'
  BY NextTyped, SessionNext
<1>3. SessionInv => OneSessionPerLogin
  BY DEF SessionInv, Sole, CarrierInv, L, OneSessionPerLogin
<1> QED  BY <1>1, <1>2, <1>3, PTL DEF Spec

(* A browser that waits for no answer holds a token that works, in         *)
(* whatever order the answers came (accounts/views.py:17-30).              *)
THEOREM CookiesWork == Spec => []CookieWorks
<1>1. Init => TypeOK /\ RequestsFit /\ SessionInv
  BY InitTyped, SessionInit
<1>2. TypeOK /\ RequestsFit /\ SessionInv /\ [Next]_vars => (TypeOK /\ RequestsFit /\ SessionInv)'
  BY NextTyped, SessionNext
<1>3. SessionInv => CookieWorks
  BY DEF SessionInv, CookieInv, Replaces, L, CookieWorks
<1> QED  BY <1>1, <1>2, <1>3, PTL DEF Spec

-----------------------------------------------------------------------------
(* Seeding.  Owners keep their organization or have lost it to a seeding;  *)
(* a seeding that nothing overlaps finds what it has read still true, and  *)
(* later profiles are fetched with the demo's password.                    *)
EvictedInv == \A e \in Emails : account[e] # "none" => e \in evicted \/ HasTenant(e)

SeedInv ==
  seed.alone =>
    /\ Seeding => /\ UnderWay("signup") = {} /\ UnderWay("me") = {}
                  /\ \A o \in org : o.slug = 1 => o \in seed.found
    /\ seed.pc = "failed" => InvoicesClash(seed.date)
    /\ seed.pc = "done" =>
         /\ account[DemoEmail] = "demo" /\ [slug |-> 1, owner |-> DemoEmail] \in org
         /\ \A r \in UnderWay("me") :
              req[r].pc = "save" /\ req[r].email = DemoEmail => req[r].kept = "demo"

LEMMA EvictedNext ==
  ASSUME TypeOK, RequestsFit, TenantInv, EvictedInv, [Next]_vars PROVE EvictedInv'
<1>1. \A r \in Requests : req[r].email \in Emails
  BY DEF TypeOK, Request
<1>2. ASSUME NEW r \in Requests, SaveMe(r) PROVE EvictedInv'
  <2>1. /\ account' = [account EXCEPT ![req[r].email] = req[r].kept]
        /\ UNCHANGED <<org, evicted>>
    BY <1>2 DEF SaveMe
  <2>2. account[req[r].email] # "none"
    BY <1>2 DEF SaveMe, RequestsFit, Fits, TenantInv, ProfileInv, UnderWay
  <2> QED  BY <1>1, <2>1, <2>2 DEF EvictedInv, HasTenant, TypeOK
<1>3. ASSUME NEW r \in Requests, CreateTenant(r) PROVE EvictedInv'
  <2> DEFINE new == [slug |-> req[r].slug, owner |-> req[r].email]
  <2>1. /\ account' = [account EXCEPT ![req[r].email] = "own"] /\ UNCHANGED evicted
        /\ org' = org \union {new} /\ new.owner = req[r].email
    BY <1>3 DEF CreateTenant
  <2> HIDE DEF new
  <2> QED  BY <1>1, <2>1 DEF EvictedInv, HasTenant, TypeOK
<1>4. CASE CommitSeed
  <2> DEFINE demo == [slug |-> 1, owner |-> DemoEmail]
  <2>1. /\ account' = [account EXCEPT ![DemoEmail] = "demo"]
        /\ org' = (org \ seed.found) \union {demo} /\ demo.owner = DemoEmail
        /\ evicted' = evicted \union {o.owner : o \in seed.found}
    BY <1>4 DEF CommitSeed
  <2> HIDE DEF demo
  <2>2. ASSUME NEW e \in Emails, account'[e] # "none"
        PROVE  e \in evicted' \/ \E o \in org' : o.owner = e
    <3>1. CASE e = DemoEmail
      BY <2>1, <3>1
    <3>2. CASE e # DemoEmail
      <4>1. e \in evicted \/ \E o \in org : o.owner = e
        BY <2>1, <2>2, <3>2 DEF EvictedInv, HasTenant, TypeOK
      <4> QED  BY <2>1, <4>1
    <3> QED  BY <3>1, <3>2
  <2> QED  BY <2>2 DEF EvictedInv, HasTenant
<1>5. CASE UNCHANGED <<account, org, evicted>>
  BY <1>5 DEF EvictedInv, HasTenant
<1>6. ASSUME NEW r \in Requests, RequestStep(r), ~ SaveMe(r), ~ CreateTenant(r)
      PROVE  UNCHANGED <<account, org, evicted>>
  BY <1>6, Touches
<1>7. ASSUME OtherStep, ~ CommitSeed PROVE UNCHANGED <<account, org, evicted>>
  BY <1>7 DEF OtherStep, SendRefresh, SendLogout, SendSignup, SendLogin, SendMe, Send,
              LoseAnswer, StartSeed, AbortSeed
<1>8. CASE UNCHANGED vars
  BY <1>5, <1>8 DEF vars
<1> QED  BY <1>2, <1>3, <1>4, <1>5, <1>6, <1>7, <1>8 DEF Next, OtherStep

LEMMA SeedRequest ==
  ASSUME TypeOK, RequestsFit, TenantInv, SeedInv, NEW r \in Requests, RequestStep(r)
  PROVE  SeedInv'
<1> SUFFICES ASSUME seed.alone PROVE SeedInv'
  BY Touches DEF SeedInv
<1>1. PICK x \in Request :
        /\ req' = [req EXCEPT ![r] = x]
        /\ Advanced(r, x) \/ x = Idle
  BY Steps
<1>2. /\ req'[r] = x /\ \A s \in Requests \ {r} : req'[s] = req[s]
      /\ UNCHANGED seed /\ req[r].pc # "idle"
  BY <1>1, Touches DEF TypeOK
<1>3. x.pc # "idle" => x.op = req[r].op /\ x.email = req[r].email
  BY <1>1, IdleTyped DEF Advanced
<1>4. \A op : op # "none" => UnderWay(op)' \subseteq UnderWay(op)
  BY <1>2, <1>3 DEF UnderWay
<1>5. ASSUME Seeding
      PROVE  /\ UnderWay("signup")' = {} /\ UnderWay("me")' = {}
             /\ \A o \in org' : o.slug = 1 => o \in seed.found
  <2>1. UnderWay("signup") = {} /\ r \notin UnderWay("signup")
    BY <1>5 DEF SeedInv
  <2>2. ~ CreateTenant(r)
    BY <1>2, <2>1 DEF CreateTenant, RequestsFit, Fits, UnderWay
  <2>3. org' = org
    BY <2>2, Touches
  <2> QED  BY <1>4, <1>5, <2>3 DEF SeedInv
<1>6. ASSUME seed.pc = "done"
      PROVE  /\ account'[DemoEmail] = "demo" /\ [slug |-> 1, owner |-> DemoEmail] \in org'
             /\ \A s \in UnderWay("me")' :
                  req'[s].pc = "save" /\ req'[s].email = DemoEmail => req'[s].kept = "demo"
  <2>1. account[DemoEmail] = "demo" /\ [slug |-> 1, owner |-> DemoEmail] \in org
        /\ \A s \in UnderWay("me") :
             req[s].pc = "save" /\ req[s].email = DemoEmail => req[s].kept = "demo"
    BY <1>6 DEF SeedInv
  <2>2. account'[DemoEmail] = "demo"
    <3>1. CASE SaveMe(r)
      <4>1. req[r].email = DemoEmail => req[r].kept = "demo"
        BY <2>1, <3>1 DEF SaveMe, RequestsFit, Fits, UnderWay
      <4> QED  BY <2>1, <3>1, <4>1, AccountConstants DEF SaveMe, TypeOK
    <3>2. CASE CreateTenant(r)
      BY <2>1, <3>2, AccountConstants DEF CreateTenant, TypeOK
    <3> QED  BY <2>1, <3>1, <3>2, Touches
  <2>3. [slug |-> 1, owner |-> DemoEmail] \in org'
    BY <2>1, Touches DEF CreateTenant
  <2>4. ASSUME x.pc = "save", x.email = DemoEmail PROVE x.kept = "demo"
    <3>1. FetchMe(r)
      BY <1>2, <2>4, Pcs
    <3>2. x.kept = account[req[r].email]
      BY <1>2, <3>1 DEF FetchMe, TypeOK, Request
    <3> QED  BY <1>3, <2>1, <2>4, <3>2
  <2>5. ASSUME NEW s \in UnderWay("me")', req'[s].pc = "save", req'[s].email = DemoEmail
        PROVE  req'[s].kept = "demo"
    <3>1. CASE s = r
      BY <1>2, <2>4, <2>5, <3>1
    <3>2. CASE s # r
      <4>1. s \in UnderWay("me") /\ req'[s] = req[s]
        BY <1>2, <1>4, <2>5, <3>2 DEF UnderWay
      <4> QED  BY <2>1, <2>5, <4>1
    <3> QED  BY <3>1, <3>2
  <2> QED  BY <2>2, <2>3, <2>5
<1> QED  BY <1>2, <1>5, <1>6 DEF SeedInv, Seeding

LEMMA SeedSend ==
  ASSUME TypeOK, RequestsFit, SeedInv, NEW r \in Requests, NEW op \in Ops,
         NEW e \in Emails, Send(r, op, e, FirstPc(op))
  PROVE  SeedInv'
<1>1. Sent(r, req'[r]) /\ req'[r].op = op
  <2>1. req'[r].op = op
    BY DEF Send, Idle
  <2> QED  BY <2>1, SendShape
<1>2. /\ UNCHANGED <<account, org>> /\ req'[r].pc # "save"
      /\ seed' = IF Seeding /\ op \in {"signup", "me"} THEN [seed EXCEPT !.alone = FALSE]
                 ELSE seed
  BY <1>1 DEF Sent, FirstPc
<1>3. CASE Seeding /\ op \in {"signup", "me"}
  <2>1. ~ seed'.alone
    BY <1>2, <1>3 DEF TypeOK
  <2> QED  BY <2>1 DEF SeedInv
<1>4. CASE ~ (Seeding /\ op \in {"signup", "me"})
  <2>1. seed' = seed
    BY <1>2, <1>4
  <2>2. ASSUME NEW s \in Requests \ {r}
        PROVE  /\ req'[s].pc = req[s].pc /\ req'[s].op = req[s].op
               /\ req'[s].email = req[s].email /\ req'[s].kept = req[s].kept
    <3>1. CASE op = "signup" /\ s \in UnderWay("signup")
      <4>1. req'[s] = [req[s] EXCEPT !.alone = FALSE]
        BY <1>1, <3>1 DEF Sent
      <4> QED  BY <3>1, <4>1, Disturbed
    <3>2. CASE ~ (op = "signup" /\ s \in UnderWay("signup"))
      BY <1>1, <3>2 DEF Sent
    <3> QED  BY <3>1, <3>2
  <2>3. Seeding => UnderWay("signup")' \subseteq UnderWay("signup")
                   /\ UnderWay("me")' \subseteq UnderWay("me")
    BY <1>1, <1>4, <2>2 DEF UnderWay
  <2>4. \A s \in UnderWay("me")' : req'[s].pc = "save" =>
          s # r /\ s \in UnderWay("me")
    BY <1>2, <2>2 DEF UnderWay
  <2>5. \A s \in UnderWay("me")' : req'[s].pc = "save" =>
          /\ s \in UnderWay("me") /\ req[s].pc = "save"
          /\ req'[s].email = req[s].email /\ req'[s].kept = req[s].kept
    BY <2>2, <2>4 DEF UnderWay
  <2> QED  BY <1>2, <2>1, <2>3, <2>5 DEF SeedInv, Seeding
<1> QED  BY <1>3, <1>4

LEMMA SeedNext ==
  ASSUME TypeOK, RequestsFit, TenantInv, SeedInv, [Next]_vars PROVE SeedInv'
<1>1. ASSUME NEW r \in Requests, NEW e \in Emails,
             \/ SendRefresh(r) \/ SendLogout(r)
             \/ SendSignup(r, e) \/ SendLogin(r, e) \/ SendMe(r, e)
      PROVE  SeedInv'
  BY <1>1, SendsShaped, SeedSend
<1>2. ASSUME NEW r \in Requests, LoseAnswer(r) PROVE SeedInv'
  <2>1. /\ \A s \in Requests : req'[s] = IF s = r THEN Idle ELSE req[s]
        /\ UNCHANGED <<account, org, seed>>
    BY <1>2 DEF LoseAnswer, TypeOK
  <2>2. /\ UnderWay("signup")' \subseteq UnderWay("signup")
        /\ \A s \in UnderWay("me")' : s \in UnderWay("me") /\ req'[s] = req[s]
    BY <2>1, IdleTyped DEF UnderWay
  <2> QED  BY <2>1, <2>2 DEF SeedInv, Seeding
<1>3. ASSUME NEW day \in Dates, StartSeed(day) PROVE SeedInv'
  <2>1. /\ seed'.pc = "read" /\ seed'.found = {o \in org : o.slug = 1} /\ org' = org
        /\ seed'.alone = (UnderWay("signup") \union UnderWay("me") = {})
        /\ \A s \in Requests : req'[s] = IF s \in UnderWay("signup")
                                         THEN [req[s] EXCEPT !.alone = FALSE] ELSE req[s]
    BY <1>3 DEF StartSeed
  <2>2. seed'.alone => UnderWay("signup")' = {} /\ UnderWay("me")' = {}
    BY <2>1 DEF UnderWay
  <2> QED  BY <2>1, <2>2 DEF SeedInv, Seeding
<1>4. CASE CommitSeed
  <2>1. /\ Seeding /\ account'[DemoEmail] = "demo" /\ req' = req
        /\ [slug |-> 1, owner |-> DemoEmail] \in org'
        /\ seed'.pc = "done" /\ seed'.alone = seed.alone
    BY <1>4, AccountConstants DEF CommitSeed, TypeOK
  <2>2. seed.alone => UnderWay("me")' = {}
    BY <2>1 DEF SeedInv, UnderWay
  <2> QED  BY <2>1, <2>2 DEF SeedInv, Seeding
<1>5. CASE AbortSeed
  <2>1. /\ Seeding /\ Blocked
        /\ seed'.pc = "failed" /\ seed'.alone = seed.alone /\ seed'.date = seed.date
    BY <1>5 DEF AbortSeed, TypeOK
  <2>2. seed.alone => InvoicesClash(seed.date)
    BY <2>1 DEF SeedInv, Blocked
  <2> QED  BY <2>1, <2>2 DEF SeedInv, Seeding, InvoicesClash
<1>6. CASE UNCHANGED vars
  <2>1. UNCHANGED <<account, org, req, seed>>
    BY <1>6 DEF vars
  <2> QED  BY <2>1 DEF SeedInv, Seeding, UnderWay
<1> QED  BY <1>1, <1>2, <1>3, <1>4, <1>5, <1>6, SeedRequest, AccountConstants DEF Next

LEMMA SeedInit == ASSUME Init PROVE EvictedInv /\ SeedInv
BY DEF Init, EvictedInv, SeedInv, Seeding

(* On days whose four invoices name four months, and whatever requests and *)
(* seedings do to each other, an account without an organization lost it   *)
(* to a seeding, a seeding that nothing overlaps works, and its owner can  *)
(* log in (seed_demo.py:25-54).                                            *)
THEOREM SeedingsKeepTenants ==
  ASSUME \A day \in Dates : ~ InvoicesClash(day)
  PROVE  Spec => []SeedingKeepsTenants
<1> DEFINE OnSuchDay == seed.pc # "idle" => seed.date \in Dates
<1> DEFINE I == TypeOK /\ RequestsFit /\ TenantInv /\ EvictedInv /\ SeedInv /\ OnSuchDay
<1>1. Init => I
  BY InitTyped, TenantInit, SeedInit DEF Init
<1>2. TypeOK /\ RequestsFit /\ OnSuchDay /\ [Next]_vars => OnSuchDay'
  <2> SUFFICES ASSUME TypeOK, RequestsFit, OnSuchDay, [Next]_vars PROVE OnSuchDay'
    OBVIOUS
  <2>1. ASSUME NEW r \in Requests, NEW e \in Emails,
               \/ SendRefresh(r) \/ SendLogout(r)
               \/ SendSignup(r, e) \/ SendLogin(r, e) \/ SendMe(r, e)
        PROVE  OnSuchDay'
    <3>1. seed' \in {seed, [seed EXCEPT !.alone = FALSE]}
      BY <2>1 DEF SendRefresh, SendLogout, SendSignup, SendLogin, SendMe, Send
    <3>2. /\ [seed EXCEPT !.alone = FALSE].pc = seed.pc
          /\ [seed EXCEPT !.alone = FALSE].date = seed.date
      BY DEF TypeOK
    <3> QED  BY <3>1, <3>2
  <2>2. ASSUME NEW r \in Requests, RequestStep(r) \/ LoseAnswer(r) PROVE OnSuchDay'
    BY <2>2, Touches DEF LoseAnswer
  <2>3. ASSUME NEW day \in Dates, StartSeed(day) PROVE OnSuchDay'
    BY <2>3 DEF StartSeed
  <2>4. CASE CommitSeed \/ AbortSeed \/ UNCHANGED vars
    <3>1. CASE UNCHANGED vars
      BY <3>1 DEF vars
    <3>2. CASE CommitSeed
      BY <3>2 DEF CommitSeed, Seeding, TypeOK
    <3>3. CASE AbortSeed
      BY <3>3 DEF AbortSeed, Seeding, TypeOK
    <3> QED  BY <2>4, <3>1, <3>2, <3>3
  <2> QED  BY <2>1, <2>2, <2>3, <2>4, AccountConstants DEF Next
<1>3. I /\ [Next]_vars => I'
  BY <1>2, NextTyped, TenantNext, EvictedNext, SeedNext
<1>4. I => SeedingKeepsTenants
  BY DEF EvictedInv, SeedInv, SeedingKeepsTenants, SeedingWorks
<1> QED  BY <1>1, <1>3, <1>4, PTL DEF Spec

-----------------------------------------------------------------------------
(* Requests one at a time, each answered.                                  *)

LEMMA NothingMixed ==
  ASSUME \A r, s \in Requests : r = s, Losses = FALSE,
         TypeOK, mixed = {}, [Next]_vars
  PROVE  mixed' = {}
<1>1. ASSUME NEW r \in Requests, NEW op, NEW e, NEW pc, Send(r, op, e, pc)
      PROVE  mixed' = {}
  <2>1. req[r] = Idle
    BY <1>1 DEF TypeOK, Send
  <2>2. \A s \in Requests : req[s].tok = 0
    BY <2>1 DEF Idle
  <2>3. \A t : Carrying(t) = {}
    BY <2>2 DEF Carrying
  <2> QED  BY <1>1, <2>3 DEF Send
<1>2. ASSUME NEW r \in Requests, NEW e \in Emails,
             \/ SendRefresh(r) \/ SendLogout(r)
             \/ SendSignup(r, e) \/ SendLogin(r, e) \/ SendMe(r, e)
      PROVE  mixed' = {}
  BY <1>1, <1>2 DEF SendRefresh, SendLogout, SendSignup, SendLogin, SendMe
<1>3. ASSUME NEW r \in Requests, RequestStep(r) PROVE mixed' = {}
  BY <1>3, Touches
<1>4. CASE (\E day \in Dates : StartSeed(day)) \/ CommitSeed \/ AbortSeed \/ UNCHANGED vars
  BY <1>4 DEF StartSeed, CommitSeed, AbortSeed, vars
<1> QED  BY <1>2, <1>3, <1>4, AccountConstants DEF Next, LoseAnswer

(* A browser that waits for each answer before its next request, and gets  *)
(* it, always holds a token that works when it waits for nothing; a login  *)
(* has at most one such token, and none once its logout is answered.  What *)
(* OneSessionPerLogin and CookieWorks except takes two tabs or a lost      *)
(* answer (tests/test_backend.py:72-97 waits for each answer).             *)
THEOREM OneTabKeepsItsSession ==
  ASSUME \A r, s \in Requests : r = s, Losses = FALSE
  PROVE  Spec => [](/\ \A i, j \in DOMAIN token :
                         token[i].live /\ token[j].live /\ token[i].login = token[j].login
                         => i = j
                    /\ \A r \in Requests, i \in DOMAIN token :
                         req[r].pc = "answer" /\ req[r].op = "logout" /\ req[r].tok # 0
                         /\ token[i].login = token[req[r].tok].login => ~ token[i].live
                    /\ cookie # 0 /\ (\A r \in Requests : req[r].pc = "idle")
                         => token[cookie].live)
<1>1. Init => TypeOK /\ mixed = {}
  BY InitTyped DEF Init
<1>2. TypeOK /\ mixed = {} /\ [Next]_vars => (mixed = {})'
  BY NothingMixed
<1>3. OneSessionPerLogin /\ CookieWorks /\ mixed = {} =>
        /\ \A i, j \in DOMAIN token :
             token[i].live /\ token[j].live /\ token[i].login = token[j].login => i = j
        /\ \A r \in Requests, i \in DOMAIN token :
             req[r].pc = "answer" /\ req[r].op = "logout" /\ req[r].tok # 0
             /\ token[i].login = token[req[r].tok].login => ~ token[i].live
        /\ cookie # 0 /\ (\A r \in Requests : req[r].pc = "idle") => token[cookie].live
  BY DEF OneSessionPerLogin, CookieWorks
<1> QED
  BY <1>1, <1>2, <1>3, AccountTypeCorrect, OneSessionEachLogin, CookiesWork, PTL DEF Spec
=============================================================================
