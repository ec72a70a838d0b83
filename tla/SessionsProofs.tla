--------------------------- MODULE SessionsProofs ---------------------------
(***************************************************************************)
(* Proofs about Sessions: one user per address, one working token per       *)
(* family, revoked tokens that stay revoked, for any number of requests,     *)
(* tokens, addresses and failures.                                          *)
(***************************************************************************)
EXTENDS Sessions, SequenceTheorems, TLAPS

WithToken == {"refresh", "burn", "expire", "rotate", "user", "successor",
              "logout", "revoke"}
Turning   == {"rotate", "user", "successor"}

FamilyOf(t) == tokens[t].family

\* Only c's request moves.
Only(c) == \A d \in Clients \ {c} : client'[d] = client[d]

\* Requests that work with a token have one, and families are named by tokens.
Held ==
    /\ \A c \in Clients : client[c].pc \in WithToken => client[c].token \in Ids
    /\ \A t \in Ids : FamilyOf(t) \in Ids

\* What was spent is revoked, and what is barred was spent.
SpentDead ==
    /\ \A t \in spent : tokens[t].revoked \/ FamilyOf(t) \in failed
    /\ \A c \in Clients : client[c].barred => client[c].token \in spent

\* A refresh past its rotation has revoked its token.
Rotated ==
    \A c \in Clients : client[c].pc \in {"user", "successor"} =>
        tokens[client[c].token].revoked \/ FamilyOf(client[c].token) \in failed

\* A refresh in a burned family was caught, or its token was late already.
CaughtOrLate ==
    \A c \in Rotating :
        FamilyOf(client[c].token) \in burned /\ ~tokens[client[c].token].late
            => client[c].caught

\* A refresh is alone in its family, and its token the only one that works.
Solo ==
    \A c \in Rotating : FamilyOf(client[c].token) \notin Excused =>
        /\ \A d \in Rotating :
              FamilyOf(client[d].token) = FamilyOf(client[c].token) => d = c
        /\ \A t \in Ids :
              FamilyOf(t) = FamilyOf(client[c].token) /\ ~tokens[t].revoked =>
                  t = client[c].token /\ client[c].pc = "rotate"

TokenInv == /\ Held /\ SpentDead /\ Rotated /\ CaughtOrLate /\ Solo
            /\ OneLivePerFamily /\ BurnedFamiliesAreDead /\ SpentTokensAreRefused

\* A token belongs to a user.
Owned == \A t \in Ids : tokens[t].user \in 0..Len(users)

\* A registration has an address.
Addressed ==
    \A c \in Clients : client[c].pc \in {"register", "insert"} => client[c].email \in Emails

SessionInv == TypeOK /\ OneUserPerEmail /\ Addressed /\ Owned /\ TokenInv

---------------------------------------------------------------------------
(* How tokens change.                                                       *)

\* Rows and requests, one by one.
LEMMA Rows ==
    ASSUME TypeOK
    PROVE  /\ tokens \in Seq(Token) /\ Ids = 1..Len(tokens) /\ Len(tokens) \in Nat
           /\ \A t \in Ids : /\ tokens[t] \in Token /\ FamilyOf(t) \in Nat
                             /\ tokens[t].revoked \in BOOLEAN
                             /\ tokens[t].late \in BOOLEAN
                             /\ tokens[t].user \in Nat
<1>1. tokens \in Seq(Token) /\ Len(tokens) \in Nat /\ Ids = 1..Len(tokens)
  BY DEF TypeOK, Ids
<1>2. \A t \in Ids : tokens[t] \in Token
  BY <1>1
<1> QED
  BY <1>1, <1>2 DEF Token, FamilyOf

\* Revoking changes the revoked rows and nothing else of any row.
LEMMA RevokedRows ==
    ASSUME TypeOK, NEW T \in SUBSET Ids, tokens' = Revoked(T)
    PROVE  /\ tokens' \in Seq(Token) /\ Ids' = Ids /\ Len(tokens') = Len(tokens)
           /\ \A t \in Ids :
                 /\ FamilyOf(t)' = FamilyOf(t) /\ tokens'[t].late = tokens[t].late
                 /\ tokens'[t].user = tokens[t].user
                 /\ t \in T => tokens'[t].revoked
                 /\ t \notin T => tokens'[t].revoked = tokens[t].revoked
<1>1. \A t \in Ids : tokens'[t] = IF t \in T THEN [tokens[t] EXCEPT !.revoked = TRUE]
                                  ELSE tokens[t]
  BY DEF Revoked
<1>2. ASSUME NEW t \in Ids
      PROVE  /\ [tokens[t] EXCEPT !.revoked = TRUE] \in Token
             /\ [tokens[t] EXCEPT !.revoked = TRUE].family = tokens[t].family
             /\ [tokens[t] EXCEPT !.revoked = TRUE].late = tokens[t].late
             /\ [tokens[t] EXCEPT !.revoked = TRUE].user = tokens[t].user
             /\ [tokens[t] EXCEPT !.revoked = TRUE].revoked
  BY Rows DEF Token
<1>3. DOMAIN tokens' = Ids /\ \A t \in Ids : tokens'[t] \in Token
  BY <1>1, <1>2, Rows DEF Revoked
<1>4. tokens' \in Seq(Token) /\ Len(tokens') = Len(tokens)
  <2>1. tokens' = [t \in 1..Len(tokens) |-> tokens'[t]]
    BY <1>1, Rows DEF Revoked
  <2> QED
    BY <2>1, <1>3, Rows
<1> QED
  BY <1>1, <1>2, <1>3, <1>4 DEF Ids, FamilyOf

\* A new row is the last one, alive, and the others stay as they are.
LEMMA FreshRow ==
    ASSUME TypeOK, NEW u \in Nat, NEW f \in Nat, NEW l \in BOOLEAN,
           tokens' = Append(tokens, Fresh(u, f, l))
    PROVE  /\ tokens' \in Seq(Token) /\ Len(tokens') = Len(tokens) + 1
           /\ Ids' = Ids \cup {Len(tokens) + 1} /\ Len(tokens) + 1 \notin Ids
           /\ tokens'[Len(tokens) + 1].family = f
           /\ tokens'[Len(tokens) + 1].late = l
           /\ tokens'[Len(tokens) + 1].user = u
           /\ ~tokens'[Len(tokens) + 1].revoked
           /\ \A t \in Ids : tokens'[t] = tokens[t] /\ FamilyOf(t)' = FamilyOf(t)
<1> DEFINE r == Fresh(u, f, l)
<1>1. r \in Token /\ r.family = f /\ r.late = l /\ r.user = u /\ ~r.revoked
  BY DEF Fresh, Token
<1> HIDE DEF r
<1>2. tokens' = Append(tokens, r)
  BY DEF r
<1>3. tokens' \in Seq(Token) /\ Len(tokens') = Len(tokens) + 1
  BY <1>1, <1>2, Rows
<1>4. tokens'[Len(tokens) + 1] = r /\ \A t \in 1..Len(tokens) : tokens'[t] = tokens[t]
  BY <1>2, Rows
<1>5. Ids' = 1..Len(tokens) + 1
  BY <1>3 DEF Ids
<1> QED
  BY <1>1, <1>3, <1>4, <1>5, Rows DEF FamilyOf

---------------------------------------------------------------------------
(* Steps that leave the tokens alone.                                       *)

\* A request that neither is nor becomes a refresh past its first read.
LEMMA QuietKeeps ==
    ASSUME TypeOK, TokenInv, NEW c \in Clients, Only(c),
           UNCHANGED <<tokens, spent, burned, overlapped, failed>>,
           client'[c].pc \notin Turning,
           client'[c].pc \in WithToken => client'[c].token \in Ids,
           client'[c].barred => client'[c].token \in spent
    PROVE  TokenInv'
<1>1. Held'
  BY DEF TokenInv, Held, Only, Ids, FamilyOf
<1>2. SpentDead'
  BY DEF TokenInv, SpentDead, Only, FamilyOf
<1>3. Rotated'
  BY DEF TokenInv, Rotated, Only, FamilyOf, Turning
<1>4. CaughtOrLate' /\ Solo'
  BY DEF TokenInv, CaughtOrLate, Solo, Only, FamilyOf, Turning, Rotating, Ids, Excused
<1>5. OneLivePerFamily' /\ BurnedFamiliesAreDead'
  BY DEF TokenInv, OneLivePerFamily, BurnedFamiliesAreDead, Ids, Excused
<1>6. SpentTokensAreRefused'
  BY DEF TokenInv, SpentTokensAreRefused, Only, Turning, Rotating
<1> QED
  BY <1>1, <1>2, <1>3, <1>4, <1>5, <1>6 DEF TokenInv

Places == {"idle", "register", "insert", "login", "password", "issue", "refresh",
           "burn", "expire", "rotate", "user", "successor", "logout", "revoke"}

Locals(n, k) == [pc : Places, email : Emails \cup {NoEmail}, user : 0..n,
                 token : 0..k, barred : BOOLEAN, caught : BOOLEAN]

\* A request's locals, with the rows as they are or more.
LEMMA LocalsKept ==
    ASSUME TypeOK, NEW c \in Clients, NEW x,
           client' = [client EXCEPT ![c] = x],
           NEW n \in Nat, NEW k \in Nat, x \in Locals(n, k),
           Len(users) <= n, Len(tokens) <= k
    PROVE  client' \in [Clients -> Locals(n, k)] /\ client'[c] = x /\ Only(c)
<1>1. /\ client \in [Clients -> Locals(Len(users), Len(tokens))]
      /\ Len(users) \in Nat /\ Len(tokens) \in Nat
  BY DEF TypeOK, Locals, Places
<1>2. \A d \in Clients : client[d] \in Locals(n, k)
  BY <1>1 DEF Locals
<1> QED
  BY <1>1, <1>2 DEF Only

\* The same, when no row is added.
LEMMA LocalsSame ==
    ASSUME TypeOK, NEW c \in Clients, NEW x \in Locals(Len(users), Len(tokens)),
           client' = [client EXCEPT ![c] = x]
    PROVE  /\ client' \in [Clients -> Locals(Len(users), Len(tokens))]
           /\ client'[c] = x /\ Only(c)
<1>1. client \in [Clients -> Locals(Len(users), Len(tokens))]
  BY DEF TypeOK, Locals, Places
<1> QED
  BY <1>1 DEF Only

\* A request that moves on, and neither is nor becomes a refresh past its
\* first read.
LEMMA MoveKeeps ==
    ASSUME SessionInv, NEW c \in Clients, NEW x \in Locals(Len(users), Len(tokens)),
           client' = [client EXCEPT ![c] = x],
           x.pc \notin Turning, x.pc \in WithToken => x.token \in Ids,
           x.barred => x.token \in spent,
           x.pc \in {"register", "insert"} => x.email \in Emails,
           UNCHANGED <<users, tokens, spent, burned, overlapped, failed>>, faults' \in Nat
    PROVE  SessionInv'
<1>1. /\ client' \in [Clients -> Locals(Len(users), Len(tokens))]
      /\ client'[c] = x /\ Only(c)
  BY LocalsSame DEF SessionInv
<1>2. TypeOK'
  BY <1>1 DEF SessionInv, TypeOK, Locals, Places, Ids
<1>3. TokenInv'
  BY <1>1, QuietKeeps DEF SessionInv
<1>4. Addressed'
  BY <1>1 DEF SessionInv, Addressed, Only
<1> QED
  BY <1>2, <1>3, <1>4 DEF SessionInv, OneUserPerEmail, Owned, Ids

\* What is known of a request's locals.
LEMMA Local ==
    ASSUME SessionInv, NEW c \in Clients
    PROVE  /\ client[c] \in Locals(Len(users), Len(tokens))
           /\ Len(users) \in Nat /\ Len(tokens) \in Nat
           /\ client[c].pc \in WithToken =>
                 client[c].token \in Ids /\ FamilyOf(client[c].token) \in Ids
           /\ client[c].barred => client[c].token \in spent
           /\ client[c].pc \in {"register", "insert"} => client[c].email \in Emails
<1>1. /\ client[c] \in Locals(Len(users), Len(tokens))
      /\ Len(users) \in Nat /\ Len(tokens) \in Nat
  BY DEF SessionInv, TypeOK, Locals, Places
<1> QED
  BY <1>1 DEF SessionInv, TokenInv, Held, SpentDead, Addressed

\* A request that is given up or answered.
LEMMA LeaveKeeps ==
    ASSUME SessionInv, NEW c \in Clients, Leave(c),
           UNCHANGED <<users, tokens, spent, burned, overlapped, failed>>, faults' \in Nat
    PROVE  SessionInv'
<1>1. /\ Idle \in Locals(Len(users), Len(tokens)) /\ Idle.pc = "idle"
      /\ ~Idle.barred
  BY Local DEF Idle, Locals, Places
<1>2. "idle" \notin Turning \cup WithToken
  BY DEF Turning, WithToken
<1> QED
  BY <1>1, <1>2, MoveKeeps DEF Leave

\* A request that goes on to an await that has nothing to do with rotation.
LEMMA GotoKeeps ==
    ASSUME SessionInv, NEW c \in Clients, NEW p \in Places \ Turning,
           p \in WithToken => client[c].pc \in WithToken,
           p \in {"register", "insert"} => client[c].pc = "register", Goto(c, p),
           UNCHANGED <<users, tokens, spent, burned, overlapped, failed>>, faults' \in Nat
    PROVE  SessionInv'
<1> DEFINE x == [client[c] EXCEPT !.pc = p]
<1>1. /\ x \in Locals(Len(users), Len(tokens)) /\ x.pc = p
      /\ x.token = client[c].token /\ x.barred = client[c].barred
      /\ x.email = client[c].email
  BY Local DEF Locals
<1>2. client' = [client EXCEPT ![c] = x]
  BY DEF Goto
<1> HIDE DEF x
<1> QED
  BY <1>1, <1>2, Local, MoveKeeps

---------------------------------------------------------------------------
(* register and login.                                                      *)

LEMMA BeginKeeps ==
    ASSUME SessionInv, NEW c \in Clients, NEW m \in Emails,
           NEW p \in {"register", "login"}, Begin(c, p, m)
    PROVE  SessionInv'
<1> DEFINE x == [Idle EXCEPT !.pc = p, !.email = m]
<1>1. x \in Locals(Len(users), Len(tokens)) /\ x.pc = p /\ ~x.barred /\ x.email = m
  <2>1. Idle \in Locals(Len(users), Len(tokens)) /\ ~Idle.barred
    BY Local DEF Idle, Locals, Places
  <2>2. p \in Places
    BY DEF Places
  <2> QED
    BY <2>1, <2>2 DEF Locals
<1>2. client' = [client EXCEPT ![c] = x] /\ faults' \in Nat
  BY DEF Begin, SessionInv, TypeOK
<1>3. p \notin Turning \cup WithToken
  BY DEF Turning, WithToken
<1> HIDE DEF x
<1> QED
  BY <1>1, <1>2, <1>3, MoveKeeps DEF Begin

LEMMA LookupsKeep ==
    ASSUME SessionInv, NEW c \in Clients,
           RegisterFind(c) \/ LoginTenant(c) \/ LogoutFind(c) \/ Abort(c)
    PROVE  SessionInv'
<1>1. faults' \in Nat /\ UNCHANGED <<users, tokens, spent, burned, overlapped, failed>>
  BY DEF SessionInv, TypeOK, RegisterFind, LoginTenant, LogoutFind, Abort, Fault
<1>2. CASE Leave(c)
  BY <1>1, <1>2, LeaveKeeps
<1>3. CASE \E p \in {"insert", "password"} :
              Goto(c, p) /\ (p = "insert" => At(c, "register"))
  <2>1. PICK p \in {"insert", "password"} :
              Goto(c, p) /\ (p = "insert" => At(c, "register"))
    BY <1>3
  <2>2. /\ p \in Places \ Turning /\ p \notin WithToken
        /\ p \in {"register", "insert"} => client[c].pc = "register"
    BY <2>1 DEF Places, Turning, WithToken, At
  <2> QED
    BY <1>1, <2>1, <2>2, GotoKeeps
<1>4. CASE Goto(c, "revoke") /\ At(c, "logout")
  <2>1. "revoke" \in Places \ Turning /\ client[c].pc \in WithToken
    BY <1>4 DEF Places, Turning, WithToken, At
  <2> QED
    BY <1>1, <1>4, <2>1, GotoKeeps
<1> QED
  BY <1>2, <1>3, <1>4 DEF RegisterFind, LoginTenant, LogoutFind, Abort

LEMMA LoginFindKeeps ==
    ASSUME SessionInv, NEW c \in Clients, LoginFind(c)
    PROVE  SessionInv'
<1>1. faults' \in Nat
  BY DEF SessionInv, TypeOK, LoginFind
<1>2. CASE Leave(c)
  BY <1>1, <1>2, LeaveKeeps DEF LoginFind
<1>3. ASSUME NEW u \in UserOf(client[c].email),
             client' = [client EXCEPT ![c].pc = "issue", ![c].user = u]
      PROVE  SessionInv'
  <2> DEFINE x == [client[c] EXCEPT !.pc = "issue", !.user = u]
  <2>1. u \in 0..Len(users)
    BY DEF UserOf, SessionInv, TypeOK
  <2>2. /\ x \in Locals(Len(users), Len(tokens)) /\ x.pc = "issue"
        /\ x.token = client[c].token /\ x.barred = client[c].barred
    <3>1. client[c] \in Locals(Len(users), Len(tokens))
      BY Local
    <3> QED
      BY <2>1, <3>1 DEF Locals, Places
  <2>3. client' = [client EXCEPT ![c] = x]
    BY <1>3
  <2>4. "issue" \notin Turning \cup WithToken
    BY DEF Turning, WithToken
  <2> HIDE DEF x
  <2> QED
    <3>1. UNCHANGED <<users, tokens, spent, burned, overlapped, failed>>
      BY DEF LoginFind
    <3> QED
      BY <1>1, <2>2, <2>3, <2>4, <3>1, Local, MoveKeeps
<1> QED
  BY <1>2, <1>3 DEF LoginFind

\* The unique index: the new address is nobody's yet.
LEMMA RegisterCreateKeeps ==
    ASSUME SessionInv, NEW c \in Clients, RegisterCreate(c)
    PROVE  SessionInv'
<1>1. CASE EmailTaken(client[c].email)
  <2>1. faults' \in Nat /\ Leave(c) /\ UNCHANGED users
    BY <1>1 DEF SessionInv, TypeOK, RegisterCreate
  <2> QED
    BY <2>1, LeaveKeeps DEF RegisterCreate
<1>2. CASE ~EmailTaken(client[c].email)
  <2> DEFINE m == client[c].email
             n == Len(users) + 1
             x == [client[c] EXCEPT !.pc = "issue", !.user = n]
  <2>1. /\ users' = Append(users, m) /\ client' = [client EXCEPT ![c] = x]
        /\ UNCHANGED <<tokens, spent, burned, overlapped, failed, faults>>
    BY <1>2 DEF RegisterCreate
  <2>2. m \in Emails /\ \A u \in DOMAIN users : users[u] # m
    BY <1>2, Local DEF RegisterCreate, At, EmailTaken, UserOf
  <2>3. /\ users' \in Seq(Emails) /\ Len(users') = n /\ n \in Nat
        /\ users'[n] = m /\ \A u \in DOMAIN users : users'[u] = users[u]
        /\ DOMAIN users' = DOMAIN users \cup {n} /\ DOMAIN users = 1..Len(users)
        /\ Len(users) \in Nat
    BY <2>1, <2>2 DEF SessionInv, TypeOK
  <2>4. /\ x \in Locals(n, Len(tokens)) /\ x.pc = "issue"
        /\ x.token = client[c].token /\ x.barred = client[c].barred
    <3>1. client[c] \in [pc : Places, email : Emails \cup {NoEmail}, user : Nat,
                         token : 0..Len(tokens), barred : BOOLEAN, caught : BOOLEAN]
      BY Local DEF Locals
    <3>2. n \in 0..n /\ "issue" \in Places
      BY <2>3 DEF Places
    <3> HIDE DEF n
    <3> QED
      BY <3>1, <3>2 DEF Locals
  <2>5. "issue" \notin Turning \cup WithToken
    BY DEF Turning, WithToken
  <2> HIDE DEF x, m
  <2>6. /\ client' \in [Clients -> Locals(n, Len(tokens))]
        /\ client'[c] = x /\ Only(c)
    <3>1. TypeOK /\ Len(tokens) \in Nat /\ Len(users) <= n /\ Len(tokens) <= Len(tokens)
      BY <2>3, Local DEF SessionInv
    <3> QED
      BY <2>1, <2>3, <2>4, <3>1, LocalsKept
  <2>7. TypeOK'
    BY <2>1, <2>3, <2>6 DEF SessionInv, TypeOK, Locals, Places, Ids
  <2>8. TokenInv'
    BY <2>1, <2>4, <2>5, <2>6, QuietKeeps, Local DEF SessionInv
  <2>9. OneUserPerEmail'
    BY <2>2, <2>3 DEF SessionInv, OneUserPerEmail
  <2>10. Addressed' /\ Owned'
    BY <2>1, <2>3, <2>4, <2>6, Rows DEF SessionInv, Addressed, Owned, Only, Ids
  <2> QED
    BY <2>7, <2>8, <2>9, <2>10 DEF SessionInv
<1> QED
  BY <1>1, <1>2

\* A family of its own begins with the new row.
LEMMA IssueKeeps ==
    ASSUME SessionInv, NEW c \in Clients, Issue(c)
    PROVE  SessionInv'
<1> DEFINE n == Len(tokens) + 1
<1>1. /\ tokens' = Append(tokens, Fresh(client[c].user, n, FALSE))
      /\ client' = [client EXCEPT ![c] = Idle]
      /\ UNCHANGED <<users, spent, burned, overlapped, failed, faults>>
      /\ client[c].pc = "issue"
  BY DEF Issue, Leave, At
<1>20. UNCHANGED <<users, spent, burned, overlapped, failed, faults>>
  BY <1>1
<1>2. client[c].user \in 0..Len(users) /\ client[c].user \in Nat /\ n \in Nat
  <2>1. client[c].user \in 0..Len(users)
    BY Local DEF Locals
  <2> QED
    BY <2>1, Local
<1>3. /\ tokens' \in Seq(Token) /\ Len(tokens') = n
      /\ Ids' = Ids \cup {n} /\ n \notin Ids
      /\ tokens'[n].family = n /\ ~tokens'[n].revoked
      /\ tokens'[n].user = client[c].user
      /\ \A t \in Ids : tokens'[t] = tokens[t] /\ FamilyOf(t)' = FamilyOf(t)
  BY <1>1, <1>2, FreshRow, FALSE \in BOOLEAN DEF SessionInv
<1> HIDE DEF n
<1>4. client' \in [Clients -> Locals(Len(users), n)] /\ client'[c] = Idle /\ Only(c)
  <2>1. Idle \in Locals(Len(users), n)
    BY <1>2, Local DEF Idle, Locals, Places
  <2>2. TypeOK /\ Len(users) \in Nat /\ Len(users) <= Len(users) /\ Len(tokens) <= n
    BY Local DEF SessionInv, n
  <2> QED
    BY <1>1, <1>2, <2>1, <2>2, LocalsKept
<1>5. Idle.pc \notin Turning \cup WithToken \cup {"register", "insert"} /\ ~Idle.barred
  BY DEF Idle, Turning, WithToken
<1>6. TypeOK'
  BY <1>20, <1>3, <1>4 DEF SessionInv, TypeOK, Locals, Places
<1>7. OneUserPerEmail' /\ Addressed' /\ Owned'
  BY <1>20, <1>2, <1>3, <1>4, <1>5 DEF SessionInv, OneUserPerEmail, Addressed, Owned, Only
<1>8. Held' /\ SpentDead'
  BY <1>20, <1>3, <1>4, <1>5
  DEF SessionInv, TypeOK, TokenInv, Held, SpentDead, Only, FamilyOf
<1>9. /\ Rotating' \subseteq Rotating /\ c \notin Rotating'
      /\ \A d \in Rotating' : /\ client'[d] = client[d] /\ client[d].token \in Ids
                            /\ tokens'[client[d].token] = tokens[client[d].token]
  BY <1>3, <1>4, <1>5 DEF Rotating, Turning, Only, SessionInv, TokenInv, Held, WithToken
<1>10. \A d \in Rotating' : /\ tokens'[client[d].token].family = FamilyOf(client[d].token)
                            /\ client'[d].token = client[d].token
                            /\ d \in Rotating /\ client'[d].caught = client[d].caught
  BY <1>9 DEF FamilyOf
<1>11. Rotated'
  <2>1. ASSUME NEW d \in Clients, client'[d].pc \in {"user", "successor"}
        PROVE  \/ tokens'[client'[d].token].revoked
               \/ tokens'[client'[d].token].family \in failed'
    <3>1. d \in Rotating'
      BY <2>1 DEF Rotating
    <3>2. /\ client'[d] = client[d]
          /\ tokens'[client[d].token] = tokens[client[d].token]
      BY <1>9, <3>1
    <3> QED
      BY <1>20, <2>1, <3>2 DEF SessionInv, TokenInv, Rotated, FamilyOf
  <2> QED
    BY <2>1 DEF Rotated, FamilyOf
<1>12. CaughtOrLate' /\ SpentTokensAreRefused'
  <2>1. ASSUME NEW d \in Rotating'
        PROVE  /\ client'[d] = client[d] /\ d \in Rotating
               /\ tokens'[client[d].token] = tokens[client[d].token]
    BY <1>9
  <2>2. CaughtOrLate'
    BY <1>20, <2>1 DEF SessionInv, TokenInv, CaughtOrLate, FamilyOf
  <2>3. SpentTokensAreRefused'
    BY <1>20, <2>1 DEF SessionInv, TokenInv, SpentTokensAreRefused
  <2> QED
    BY <2>2, <2>3
<1>13. \A t \in Ids : FamilyOf(t) \in Ids /\ FamilyOf(t) # n
  BY <1>3 DEF SessionInv, TokenInv, Held
<1>14. n \notin burned
  BY <1>3 DEF SessionInv, TypeOK
<1>15. OneLivePerFamily' /\ BurnedFamiliesAreDead'
  <2>1. \A t \in Ids : tokens'[t] = tokens[t] /\ tokens[t].family # n
    BY <1>3, <1>13 DEF FamilyOf
  <2>2. OneLivePerFamily'
    BY <1>20, <1>3, <2>1 DEF SessionInv, TokenInv, OneLivePerFamily, Excused
  <2>3. BurnedFamiliesAreDead'
    BY <1>20, <1>3, <1>14, <2>1 DEF SessionInv, TokenInv, BurnedFamiliesAreDead
  <2> QED
    BY <2>2, <2>3
<1>16. Solo'
  <2>1. ASSUME NEW e \in Rotating', tokens'[client[e].token].family \notin Excused'
        PROVE  /\ \A d \in Rotating' :
                     tokens'[client[d].token].family = tokens'[client[e].token].family => d = e
               /\ \A t \in Ids' :
                     tokens'[t].family = tokens'[client[e].token].family /\ ~tokens'[t].revoked =>
                         t = client'[e].token /\ client'[e].pc = "rotate"
    <3>1. e \in Rotating /\ FamilyOf(client[e].token) \notin Excused
      BY <1>20, <1>10, <2>1 DEF Excused
    <3>2. \A d \in Rotating' :
              tokens'[client[d].token].family = tokens'[client[e].token].family => d = e
      BY <1>10, <3>1 DEF SessionInv, TokenInv, Solo
    <3>3. ASSUME NEW t \in Ids', tokens'[t].family = tokens'[client[e].token].family,
                 ~tokens'[t].revoked
          PROVE  t = client'[e].token /\ client'[e].pc = "rotate"
      <4>1. t \in Ids
        BY <1>3, <1>10, <1>13, <3>3, <1>9 DEF FamilyOf
      <4>2. FamilyOf(t) = FamilyOf(client[e].token) /\ ~tokens[t].revoked
        BY <1>3, <1>10, <3>3, <4>1 DEF FamilyOf
      <4> QED
        BY <1>9, <3>1, <4>1, <4>2 DEF SessionInv, TokenInv, Solo
    <3> QED
      BY <3>2, <3>3
  <2> QED
    BY <2>1, <1>10 DEF Solo, FamilyOf
<1> QED
  BY <1>6, <1>7, <1>8, <1>11, <1>12, <1>15, <1>16 DEF SessionInv, TokenInv

---------------------------------------------------------------------------
(* refresh and logout.                                                      *)

LEMMA PresentKeeps ==
    ASSUME SessionInv, NEW c \in Clients, NEW t \in Ids,
           NEW p \in {"refresh", "logout"}, Present(c, p, t)
    PROVE  SessionInv'
<1> DEFINE x == [Idle EXCEPT !.pc = p, !.token = t, !.barred = t \in spent]
<1>1. Idle \in Locals(Len(users), Len(tokens)) /\ p \in Places /\ t \in 0..Len(tokens)
  BY Local, Rows DEF Idle, Locals, Places, SessionInv
<1>2. x \in Locals(Len(users), Len(tokens)) /\ x.pc = p /\ x.token = t
  <2>1. (t \in spent) \in BOOLEAN
    OBVIOUS
  <2> QED
    BY <1>1, <2>1 DEF Locals
<1>3. x.barred => t \in spent
  BY <1>1 DEF Locals
<1>4. client' = [client EXCEPT ![c] = x] /\ faults' \in Nat
  BY DEF Present, SessionInv, TypeOK
<1>5. p \notin Turning \cup {"register", "insert"}
  BY DEF Turning
<1> HIDE DEF x
<1>6. UNCHANGED <<users, tokens, spent, burned, overlapped, failed>>
  BY DEF Present
<1> QED
  BY <1>2, <1>3, <1>4, <1>5, <1>6, MoveKeeps

\* A refresh that finds its token alive is the first in its family that has, or
\* one of several with this token.
LEMMA RefreshFindKeeps ==
    ASSUME SessionInv, NEW c \in Clients, RefreshFind(c)
    PROVE  SessionInv'
<1> DEFINE t == client[c].token
<1>1. /\ client[c].pc = "refresh" /\ t \in Ids /\ faults' \in Nat
      /\ UNCHANGED <<users, tokens, spent, burned>>
  BY Local DEF RefreshFind, At, WithToken, SessionInv, TypeOK
<1>2. CASE UNCHANGED <<overlapped, failed>> /\ \E p \in {"burn", "expire"} : Goto(c, p)
  <2>1. PICK p \in {"burn", "expire"} : Goto(c, p)
    BY <1>2
  <2>2. /\ p \in Places \ Turning /\ p \notin {"register", "insert"}
        /\ client[c].pc \in WithToken
    BY <1>1 DEF Places, Turning, WithToken
  <2> QED
    BY <1>1, <1>2, <2>1, <2>2, GotoKeeps
<1>3. CASE /\ Goto(c, "rotate") /\ ~tokens[t].revoked
           /\ overlapped' = IF \E d \in Rotating : client[d].token = t
                            THEN overlapped \cup {tokens[t].family} ELSE overlapped
           /\ failed' = failed
  <2> DEFINE x == [client[c] EXCEPT !.pc = "rotate"]
  <2>1. /\ x \in Locals(Len(users), Len(tokens)) /\ x.pc = "rotate"
        /\ x.token = t /\ x.barred = client[c].barred
    BY Local DEF Locals, Places
  <2>2. client' = [client EXCEPT ![c] = x]
    BY <1>3 DEF Goto
  <2> HIDE DEF x
  <2>3. /\ client' \in [Clients -> Locals(Len(users), Len(tokens))]
        /\ client'[c] = x /\ Only(c)
    BY <2>1, <2>2, LocalsSame DEF SessionInv
  <2>4. /\ overlapped \subseteq overlapped' /\ failed' = failed
        /\ overlapped' \subseteq overlapped \cup {FamilyOf(t)}
        /\ Excused \subseteq Excused' /\ Excused' \subseteq Excused \cup {FamilyOf(t)}
        /\ (\E d \in Rotating : client[d].token = t) => FamilyOf(t) \in Excused'
    BY <1>3 DEF FamilyOf, Excused
  <2> DEFINE k == t
  <2>5. TypeOK' /\ FamilyOf(t) \in Ids
    BY <1>1, <2>3, <2>4, Local
    DEF SessionInv, TypeOK, Locals, Places, Ids, WithToken
  <2>6. OneUserPerEmail' /\ Addressed' /\ Owned' /\ Ids' = Ids
    BY <1>1, <2>1, <2>3 DEF SessionInv, OneUserPerEmail, Addressed, Owned, Only, Ids
  <2>7. Held' /\ SpentDead'
    BY <1>1, <2>1, <2>3, <2>4, <2>6
    DEF SessionInv, TokenInv, Held, SpentDead, Only, FamilyOf, WithToken
  <2>8. Rotating' = Rotating \cup {c} /\ \A d \in Rotating' \ {c} : client'[d] = client[d]
    BY <2>1, <2>3 DEF Rotating, Only
  <2>9. Rotated' /\ OneLivePerFamily' /\ BurnedFamiliesAreDead'
    BY <1>1, <2>1, <2>3, <2>4, <2>6
    DEF SessionInv, TokenInv, Rotated, OneLivePerFamily, BurnedFamiliesAreDead, Only, FamilyOf
  <2>10. CaughtOrLate' /\ SpentTokensAreRefused'
    BY <1>1, <1>3, <2>1, <2>3, <2>4, <2>8
    DEF SessionInv, TokenInv, CaughtOrLate, SpentTokensAreRefused, SpentDead,
        BurnedFamiliesAreDead, FamilyOf
  <2>11. Solo'
    <3>1. ASSUME NEW d \in Rotating, FamilyOf(client[d].token) = FamilyOf(t),
                 FamilyOf(t) \notin Excused'
          PROVE  FALSE
      <4>1. t = client[d].token
        BY <1>1, <1>3, <2>4, <3>1 DEF SessionInv, TokenInv, Solo
      <4> QED
        BY <2>4, <3>1, <4>1 DEF FamilyOf
    <3>2. ASSUME NEW e \in Rotating', FamilyOf(client[e].token) \notin Excused', e # c
          PROVE  /\ FamilyOf(client[e].token) # FamilyOf(t)
                 /\ e \in Rotating /\ FamilyOf(client[e].token) \notin Excused
      BY <2>4, <2>8, <3>1, <3>2
    <3>3. \A e \in Rotating' : client'[e].token = client[e].token
      BY <2>1, <2>3, <2>8
    <3>4. ASSUME NEW s \in Ids, FamilyOf(s) = FamilyOf(t), ~tokens[s].revoked,
                 FamilyOf(t) \notin Excused'
          PROVE  s = t
      BY <1>1, <1>3, <2>4, <3>4 DEF SessionInv, TokenInv, OneLivePerFamily, FamilyOf
    <3>5. ASSUME NEW e \in Rotating', FamilyOf(client[e].token) \notin Excused'
          PROVE  /\ \A d \in Rotating' :
                       FamilyOf(client[d].token) = FamilyOf(client[e].token) => d = e
                 /\ \A s \in Ids :
                       FamilyOf(s) = FamilyOf(client[e].token) /\ ~tokens[s].revoked =>
                           s = client[e].token /\ client'[e].pc = "rotate"
      <4>1. CASE e = c
        BY <2>1, <2>3, <2>8, <3>1, <3>4, <3>5, <4>1
      <4>2. CASE e # c
        BY <2>8, <3>2, <3>5, <4>2 DEF SessionInv, TokenInv, Solo
      <4> QED
        BY <4>1, <4>2
    <3> QED
      BY <1>1, <2>6, <3>3, <3>5 DEF Solo, FamilyOf
  <2> QED
    BY <2>5, <2>6, <2>7, <2>9, <2>10, <2>11 DEF SessionInv, TokenInv
<1> QED
  BY <1>2, <1>3 DEF RefreshFind, IsReuse

\* Every token of the family is revoked, and its refreshes know it was burned.
LEMMA BurnKeeps ==
    ASSUME SessionInv, NEW c \in Clients, Burn(c)
    PROVE  SessionInv'
<1> DEFINE t == client[c].token
           k == tokens[t].family
           F == Family(t)
<1>1. /\ client[c].pc = "burn" /\ t \in Ids /\ k \in Ids /\ F \subseteq Ids
      /\ \A s \in Ids : s \in F <=> tokens[s].family = k
      /\ UNCHANGED <<users, overlapped, failed, faults>>
      /\ spent' = spent \cup F /\ burned' = burned \cup {k}
  BY Local DEF Burn, At, WithToken, FamilyOf, Family
<1>2. /\ tokens' \in Seq(Token) /\ Ids' = Ids /\ Len(tokens') = Len(tokens)
      /\ \A s \in Ids :
            /\ tokens'[s].family = tokens[s].family /\ tokens'[s].late = tokens[s].late
            /\ tokens'[s].user = tokens[s].user
            /\ s \in F => tokens'[s].revoked
            /\ tokens[s].revoked => tokens'[s].revoked
  <2>1. tokens' = Revoked(F)
    BY DEF Burn, Relatives
  <2> HIDE DEF F
  <2> QED
    BY <1>1, <2>1, RevokedRows DEF SessionInv, FamilyOf
<1>3. /\ DOMAIN client' = Clients /\ client'[c] = Idle
      /\ \A d \in Clients \ {c} :
            client'[d] = IF d \in Rotating /\ client[d].token \in F
                         THEN [client[d] EXCEPT !.caught = TRUE] ELSE client[d]
      /\ client' = [d \in Clients |-> client'[d]]
  BY DEF Burn
<1> HIDE DEF F, k, t
<1>4. /\ client[c].pc = "burn" /\ Idle.pc = "idle" /\ ~Idle.barred
      /\ Idle \in Locals(Len(users), Len(tokens))
  BY <1>1, Local DEF Idle, Locals, Places
<1>5. \A d \in Clients \ {c} :
         /\ client'[d] \in Locals(Len(users), Len(tokens))
         /\ client'[d].pc = client[d].pc /\ client'[d].token = client[d].token
         /\ client'[d].barred = client[d].barred /\ client'[d].email = client[d].email
         /\ client[d].caught => client'[d].caught
         /\ d \in Rotating /\ client[d].token \in F => client'[d].caught
  <2>1. ASSUME NEW d \in Clients \ {c}
        PROVE  /\ client'[d] \in Locals(Len(users), Len(tokens))
               /\ client'[d].pc = client[d].pc /\ client'[d].token = client[d].token
               /\ client'[d].barred = client[d].barred /\ client'[d].email = client[d].email
               /\ client[d].caught => client'[d].caught
               /\ d \in Rotating /\ client[d].token \in F => client'[d].caught
    <3>1. client[d] \in Locals(Len(users), Len(tokens))
      BY Local
    <3>2. CASE d \in Rotating /\ client[d].token \in F
      <4>1. client'[d] = [client[d] EXCEPT !.caught = TRUE]
        BY <1>3, <3>2
      <4> QED
        BY <3>1, <4>1 DEF Locals
    <3>3. CASE ~(d \in Rotating /\ client[d].token \in F)
      BY <1>3, <3>1, <3>3
    <3> QED
      BY <3>2, <3>3
  <2> QED
    BY <2>1
<1>6. client' \in [Clients -> Locals(Len(users), Len(tokens))]
  BY <1>3, <1>4, <1>5
<1>7. TypeOK'
  BY <1>1, <1>2, <1>6 DEF SessionInv, TypeOK, Locals, Places, Ids
<1>8. OneUserPerEmail' /\ Addressed' /\ Owned'
  BY <1>1, <1>2, <1>3, <1>4, <1>5
  DEF SessionInv, OneUserPerEmail, Addressed, Owned
<1>9. Held'
  BY <1>2, <1>3, <1>4, <1>5 DEF SessionInv, TokenInv, Held, FamilyOf, WithToken
<1>10. SpentDead'
  <2>1. spent \subseteq Ids
    BY DEF SessionInv, TypeOK
  <2>2. ASSUME NEW s \in spent'
        PROVE  tokens'[s].revoked \/ tokens'[s].family \in failed'
    <3>1. CASE s \in F
      BY <1>1, <1>2, <3>1
    <3>2. CASE s \in spent
      <4>1. tokens[s].revoked \/ tokens[s].family \in failed
        BY <3>2 DEF SessionInv, TokenInv, SpentDead, FamilyOf
      <4> QED
        BY <1>1, <1>2, <2>1, <3>2, <4>1
    <3> QED
      BY <1>1, <2>2, <3>1, <3>2
  <2>3. \A d \in Clients : client'[d].barred => client'[d].token \in spent'
    BY <1>1, <1>3, <1>4, <1>5 DEF SessionInv, TokenInv, SpentDead
  <2> QED
    BY <2>2, <2>3 DEF SpentDead, FamilyOf
<1>11. Rotating' = Rotating /\ c \notin Rotating
  BY <1>1, <1>3, <1>4, <1>5 DEF Rotating
<1>12. \A d \in Rotating : d \in Clients \ {c} /\ client[d].token \in Ids
  BY <1>11 DEF Rotating, SessionInv, TokenInv, Held, WithToken
<1>13. Rotated'
  <2>1. ASSUME NEW d \in Clients, client'[d].pc \in {"user", "successor"}
        PROVE  \/ tokens'[client'[d].token].revoked
               \/ tokens'[client'[d].token].family \in failed'
    <3>1. d # c
      BY <1>3, <1>4, <2>1
    <3>2. client[d].pc = client'[d].pc /\ client'[d].token = client[d].token
      BY <1>5, <3>1
    <3>3. client[d].token \in Ids
      BY <2>1, <3>2 DEF SessionInv, TokenInv, Held, WithToken
    <3> QED
      BY <1>1, <1>2, <2>1, <3>2, <3>3 DEF SessionInv, TokenInv, Rotated, FamilyOf
  <2> QED
    BY <2>1 DEF Rotated, FamilyOf
<1>14. CaughtOrLate'
  <2>1. ASSUME NEW d \in Rotating, tokens'[client[d].token].family \in burned',
               ~tokens'[client[d].token].late
        PROVE  client'[d].caught
    <3>1. client[d].token \in Ids /\ d \in Clients \ {c}
      BY <1>12
    <3>2. CASE client[d].token \in F
      BY <1>5, <3>1, <3>2
    <3>3. CASE client[d].token \notin F
      <4>1. FamilyOf(client[d].token) \in burned /\ ~tokens[client[d].token].late
        BY <1>1, <1>2, <2>1, <3>1, <3>3 DEF FamilyOf
      <4>2. client[d].caught
        BY <4>1 DEF SessionInv, TokenInv, CaughtOrLate
      <4> QED
        BY <1>5, <3>1, <4>2
    <3> QED
      BY <3>2, <3>3
  <2> QED
    BY <1>5, <1>11, <1>12, <2>1 DEF CaughtOrLate, FamilyOf
<1>15. SpentTokensAreRefused'
  BY <1>1, <1>2, <1>5, <1>11, <1>12 DEF SessionInv, TokenInv, SpentTokensAreRefused
<1>16. OneLivePerFamily'
  BY <1>1, <1>2 DEF SessionInv, TokenInv, OneLivePerFamily, Excused
<1>17. BurnedFamiliesAreDead'
  BY <1>1, <1>2 DEF SessionInv, TokenInv, BurnedFamiliesAreDead
<1>18. Solo'
  <2>1. ASSUME NEW e \in Rotating, FamilyOf(client[e].token) \notin Excused
        PROVE  /\ \A d \in Rotating :
                     FamilyOf(client[d].token) = FamilyOf(client[e].token) => d = e
               /\ \A s \in Ids :
                     FamilyOf(s) = FamilyOf(client[e].token) /\ ~tokens[s].revoked =>
                         s = client[e].token /\ client[e].pc = "rotate"
    BY <2>1 DEF SessionInv, TokenInv, Solo
  <2>2. \A d \in Rotating : /\ client'[d].token = client[d].token
                            /\ client'[d].pc = client[d].pc
                            /\ tokens'[client[d].token].family = FamilyOf(client[d].token)
    BY <1>2, <1>5, <1>12 DEF FamilyOf
  <2>3. \A s \in Ids : /\ tokens'[s].family = FamilyOf(s)
                       /\ ~tokens'[s].revoked => ~tokens[s].revoked
    BY <1>2 DEF FamilyOf
  <2>4. ASSUME NEW e \in Rotating, tokens'[client[e].token].family \notin Excused'
        PROVE  /\ \A d \in Rotating :
                     tokens'[client[d].token].family = tokens'[client[e].token].family
                         => d = e
               /\ \A s \in Ids :
                     tokens'[s].family = tokens'[client[e].token].family
                       /\ ~tokens'[s].revoked =>
                         s = client[e].token /\ client[e].pc = "rotate"
    BY <1>1, <2>1, <2>2, <2>3, <2>4 DEF Excused
  <2> QED
    BY <1>2, <1>11, <2>2, <2>4 DEF Solo, FamilyOf
<1> QED
  BY <1>7, <1>8, <1>9, <1>10, <1>13, <1>14, <1>15, <1>16, <1>17, <1>18
  DEF SessionInv, TokenInv

\* d's request did not move, was answered, or is a refresh past its rotation.
Carried(d) ==
    \/ client'[d] = client[d]
    \/ client'[d] = Idle
    \/ /\ client[d].pc \in Turning /\ client'[d].pc \in {"user", "successor"}
       /\ client'[d].token = client[d].token
       /\ client'[d].caught = client[d].caught
       /\ client'[d].barred = client[d].barred
       /\ \/ tokens'[client[d].token].revoked
          \/ tokens'[client[d].token].family \in failed'

\* No row is added, none comes back to life, and requests only go on.
RowsCarried ==
    /\ tokens' \in Seq(Token) /\ Len(tokens') = Len(tokens)
    /\ \A s \in Ids : /\ tokens'[s].family = tokens[s].family
                      /\ tokens'[s].late = tokens[s].late
                      /\ tokens'[s].user = tokens[s].user
                      /\ tokens[s].revoked => tokens'[s].revoked
SetsCarried ==
    /\ users' = users /\ burned' = burned /\ faults' \in Nat
    /\ failed \subseteq failed' /\ failed' \subseteq Ids
    /\ overlapped' \subseteq Ids /\ Excused \subseteq Excused'
    /\ spent \subseteq spent' /\ spent' \subseteq Ids
    /\ \A s \in spent' \ spent :
          tokens'[s].revoked \/ tokens'[s].family \in failed'
RequestsCarried ==
    /\ client' \in [Clients -> Locals(Len(users), Len(tokens))]
    /\ \A d \in Clients : Carried(d)

LEMMA CarryOn ==
    ASSUME SessionInv, RowsCarried, SetsCarried, RequestsCarried
    PROVE  SessionInv'
<1>1. Ids' = Ids /\ spent \subseteq Ids
  BY Rows DEF Ids, SessionInv, TypeOK, RowsCarried
<1>2. TypeOK' /\ OneUserPerEmail' /\ Owned'
  BY <1>1 DEF SessionInv, TypeOK, Locals, Places, OneUserPerEmail, Owned,
      RowsCarried, SetsCarried, RequestsCarried
<1>3. \A d \in Clients : Carried(d)
  BY DEF RequestsCarried
<1>4. \A d \in Clients : client[d].pc \in WithToken => client[d].token \in Ids
  BY DEF SessionInv, TokenInv, Held
<1>5. /\ Turning \subseteq WithToken /\ {"user", "successor"} \subseteq Turning
      /\ Idle.pc \notin WithToken \cup {"register", "insert"} /\ ~Idle.barred
      /\ {"user", "successor"} \cap {"register", "insert"} = {}
  BY DEF Turning, WithToken, Idle
<1>6. Addressed'
  <2>1. ASSUME NEW d \in Clients, client'[d].pc \in {"register", "insert"}
        PROVE  client'[d] = client[d]
    BY <1>3, <1>5, <2>1 DEF Carried
  <2> QED
    BY <2>1 DEF SessionInv, Addressed
<1>7. Held'
  <2>1. ASSUME NEW d \in Clients, client'[d].pc \in WithToken
        PROVE  client'[d].token \in Ids
    BY <1>3, <1>4, <1>5, <2>1 DEF Carried
  <2>2. \A s \in Ids : tokens'[s].family \in Ids
    BY DEF RowsCarried, SessionInv, TokenInv, Held, FamilyOf
  <2> QED
    BY <1>1, <2>1, <2>2 DEF Held, FamilyOf
<1>8. SpentDead'
  <2>1. ASSUME NEW s \in spent'
        PROVE  tokens'[s].revoked \/ tokens'[s].family \in failed'
    <3>1. CASE s \in spent
      <4>1. s \in Ids /\ (tokens[s].revoked \/ tokens[s].family \in failed)
        BY <1>1, <3>1 DEF SessionInv, TokenInv, SpentDead, FamilyOf
      <4> QED
        BY <4>1 DEF RowsCarried, SetsCarried
    <3>2. CASE s \notin spent
      BY <2>1, <3>2 DEF SetsCarried
    <3> QED
      BY <3>1, <3>2
  <2>2. ASSUME NEW d \in Clients, client'[d].barred
        PROVE  client'[d].token \in spent'
    <3>1. client'[d].token = client[d].token /\ client[d].barred
      BY <1>3, <1>5, <2>2 DEF Carried
    <3>2. client[d].token \in spent
      BY <3>1 DEF SessionInv, TokenInv, SpentDead
    <3> QED
      BY <3>1, <3>2 DEF SetsCarried
  <2> QED
    BY <2>1, <2>2 DEF SpentDead, FamilyOf
<1>9. ASSUME NEW d \in Rotating'
      PROVE  /\ d \in Rotating /\ d \in Clients
             /\ client[d].token \in Ids /\ client'[d].token = client[d].token
             /\ client'[d].caught = client[d].caught
             /\ client'[d].barred = client[d].barred
             /\ tokens'[client[d].token].family = FamilyOf(client[d].token)
             /\ \/ client'[d].pc = client[d].pc
                \/ /\ client'[d].pc \in {"user", "successor"}
                   /\ \/ tokens'[client[d].token].revoked
                      \/ FamilyOf(client[d].token) \in failed'
  <2>1. d \in Clients /\ client'[d].pc \in Turning
    BY DEF Rotating, Turning
  <2>2. client'[d] # Idle
    BY <1>5, <2>1
  <2>3. client[d].pc \in Turning /\ client'[d].token = client[d].token
    BY <1>3, <2>1, <2>2 DEF Carried
  <2>4. d \in Rotating /\ client[d].token \in Ids
    BY <1>4, <1>5, <2>1, <2>3 DEF Rotating, Turning
  <2>5. tokens'[client[d].token].family = FamilyOf(client[d].token)
    BY <2>4 DEF RowsCarried, FamilyOf
  <2> QED
    BY <1>3, <2>1, <2>2, <2>3, <2>4, <2>5 DEF Carried
<1>10. \A s \in Ids : /\ tokens'[s].family = tokens[s].family
                      /\ tokens'[s].late = tokens[s].late
                      /\ ~tokens'[s].revoked => ~tokens[s].revoked
  BY DEF RowsCarried
<1>11. /\ burned' = burned /\ failed \subseteq failed'
       /\ \A k : k \notin Excused' => k \notin Excused
  BY DEF SetsCarried
<1>12. Rotated'
  <2>1. ASSUME NEW d \in Clients, client'[d].pc \in {"user", "successor"}
        PROVE  \/ tokens'[client'[d].token].revoked
               \/ tokens'[client'[d].token].family \in failed'
    <3>1. d \in Rotating'
      BY <2>1 DEF Rotating
    <3> QED
      BY <1>9, <1>10, <1>11, <2>1, <3>1 DEF SessionInv, TokenInv, Rotated, FamilyOf
  <2> QED
    BY <2>1 DEF Rotated, FamilyOf
<1>13. CaughtOrLate'
  <2>1. ASSUME NEW d \in Rotating', tokens'[client'[d].token].family \in burned',
               ~tokens'[client'[d].token].late
        PROVE  client'[d].caught
    BY <1>9, <1>10, <1>11, <2>1 DEF SessionInv, TokenInv, CaughtOrLate
  <2> QED
    BY <2>1 DEF CaughtOrLate, FamilyOf
<1>14. SpentTokensAreRefused'
  <2>1. ASSUME NEW d \in Rotating', client'[d].barred
        PROVE  tokens'[client'[d].token].family \in failed'
    BY <1>9, <1>11, <2>1 DEF SessionInv, TokenInv, SpentTokensAreRefused, FamilyOf
  <2> QED
    BY <2>1 DEF SpentTokensAreRefused
<1>15. OneLivePerFamily' /\ BurnedFamiliesAreDead'
  BY <1>1, <1>10, <1>11 DEF SessionInv, TokenInv, OneLivePerFamily, BurnedFamiliesAreDead
<1>16. Solo'
  <2>1. ASSUME NEW e \in Rotating', tokens'[client'[e].token].family \notin Excused'
        PROVE  /\ \A d \in Rotating' :
                     tokens'[client'[d].token].family = tokens'[client'[e].token].family
                         => d = e
               /\ \A s \in Ids :
                     tokens'[s].family = tokens'[client'[e].token].family
                       /\ ~tokens'[s].revoked =>
                         s = client'[e].token /\ client'[e].pc = "rotate"
    <3>1. e \in Rotating /\ FamilyOf(client[e].token) \notin Excused
      BY <1>9, <1>11, <2>1
    <3>2. \A d \in Rotating' :
              tokens'[client'[d].token].family = tokens'[client'[e].token].family => d = e
      BY <1>9, <3>1 DEF SessionInv, TokenInv, Solo
    <3>3. ASSUME NEW s \in Ids, ~tokens'[s].revoked,
                 tokens'[s].family = tokens'[client'[e].token].family
          PROVE  s = client'[e].token /\ client'[e].pc = "rotate"
      <4>1. FamilyOf(s) = FamilyOf(client[e].token) /\ ~tokens[s].revoked
        BY <1>9, <1>10, <3>3 DEF FamilyOf
      <4>2. s = client[e].token /\ client[e].pc = "rotate"
        BY <3>1, <4>1 DEF SessionInv, TokenInv, Solo
      <4> QED
        BY <1>9, <2>1, <3>3, <4>2 DEF Excused
    <3> QED
      BY <3>2, <3>3
  <2> QED
    BY <1>1, <2>1 DEF Solo, FamilyOf
<1> QED
  BY <1>2, <1>6, <1>7, <1>8, <1>12, <1>13, <1>14, <1>15, <1>16 DEF SessionInv, TokenInv

LEMMA RevokeKeeps ==
    ASSUME SessionInv, NEW c \in Clients, Expire(c) \/ Rotate(c) \/ LogoutRevoke(c)
    PROVE  SessionInv'
<1> DEFINE t == client[c].token
           x == IF client[c].pc = "rotate" THEN [client[c] EXCEPT !.pc = "user"] ELSE Idle
<1>1. /\ client[c].pc \in {"expire", "rotate", "revoke"} /\ t \in Ids
      /\ client' = [client EXCEPT ![c] = x]
      /\ spent' = IF client[c].pc = "rotate" THEN spent ELSE spent \cup {t}
      /\ UNCHANGED <<users, burned, overlapped>>
      /\ \/ tokens' = Revoked({t}) /\ UNCHANGED <<failed, faults>>
         \/ /\ failed' = failed \cup {tokens[t].family} /\ UNCHANGED tokens
            /\ faults' = faults + 1
  BY Local DEF Expire, Rotate, LogoutRevoke, Revoke, At, WithToken, Fault
<1>2. /\ faults' \in Nat /\ failed \subseteq failed' /\ failed' \subseteq Ids
      /\ overlapped' \subseteq Ids /\ Excused \subseteq Excused'
  <2>1. /\ failed' \in {failed, failed \cup {tokens[t].family}}
        /\ faults' \in {faults, faults + 1} /\ overlapped' = overlapped
    BY <1>1
  <2>2. /\ tokens[t].family \in Ids /\ failed \subseteq Ids /\ faults \in Nat
        /\ overlapped \subseteq Ids
    BY <1>1, Rows DEF SessionInv, TypeOK, TokenInv, Held, FamilyOf
  <2> QED
    BY <2>1, <2>2 DEF Excused
<1>3. spent \subseteq spent' /\ spent' \subseteq Ids /\ \A s \in spent' \ spent : s = t
  BY <1>1 DEF SessionInv, TypeOK
<1>4. /\ tokens' \in Seq(Token) /\ Len(tokens') = Len(tokens)
      /\ \A s \in Ids : /\ tokens'[s].family = tokens[s].family
                        /\ tokens'[s].late = tokens[s].late
                        /\ tokens'[s].user = tokens[s].user
                        /\ tokens[s].revoked => tokens'[s].revoked
      /\ tokens'[t].revoked \/ tokens'[t].family \in failed'
  <2>1. CASE tokens' = Revoked({t})
    BY <1>1, <2>1, RevokedRows DEF SessionInv, FamilyOf
  <2>2. CASE failed' = failed \cup {tokens[t].family} /\ UNCHANGED tokens
    BY <2>2, Rows DEF SessionInv
  <2> QED
    BY <1>1, <2>1, <2>2
<1>5. x \in Locals(Len(users), Len(tokens))
  <2>1. client[c] \in Locals(Len(users), Len(tokens)) /\ "user" \in Places
    BY Local DEF Places
  <2>2. Idle \in Locals(Len(users), Len(tokens))
    BY Local DEF Idle, Locals, Places
  <2> QED
    BY <2>1, <2>2 DEF Locals
<1>6. \/ x = Idle
      \/ /\ client[c].pc = "rotate" /\ x.pc = "user" /\ x.token = t
         /\ x.caught = client[c].caught /\ x.barred = client[c].barred
  BY Local DEF Idle, Locals
<1> HIDE DEF x
<1>7. /\ client' \in [Clients -> Locals(Len(users), Len(tokens))]
      /\ client'[c] = x /\ Only(c)
  BY <1>1, <1>5, LocalsSame DEF SessionInv
<1>8. \A d \in Clients : Carried(d)
  BY <1>4, <1>6, <1>7 DEF Carried, Only, Turning
<1>9. users' = users /\ burned' = burned
  BY <1>1
<1>10. RowsCarried /\ RequestsCarried
  BY <1>4, <1>7, <1>8 DEF RowsCarried, RequestsCarried
<1>11. SetsCarried
  BY <1>2, <1>3, <1>4, <1>9 DEF SetsCarried
<1> QED
  BY <1>10, <1>11, CarryOn

LEMMA FindUserKeeps ==
    ASSUME SessionInv, NEW c \in Clients, FindUser(c)
    PROVE  SessionInv'
<1> DEFINE t == client[c].token
           x == [client[c] EXCEPT !.pc = "successor", !.user = tokens[t].user]
<1>1. /\ client[c].pc = "user" /\ t \in Ids
      /\ client' = [client EXCEPT ![c] = x]
      /\ UNCHANGED <<users, tokens, spent, burned, overlapped, failed, faults>>
  BY Local DEF FindUser, At, WithToken
<1>2. x \in Locals(Len(users), Len(tokens)) /\ x.pc = "successor" /\ x.token = t
      /\ x.caught = client[c].caught /\ x.barred = client[c].barred
  <2>1. /\ client[c] \in Locals(Len(users), Len(tokens)) /\ "successor" \in Places
        /\ tokens[t].user \in 0..Len(users)
    BY <1>1, Local DEF Places, SessionInv, Owned
  <2> QED
    BY <2>1 DEF Locals
<1> HIDE DEF x
<1>3. /\ client' \in [Clients -> Locals(Len(users), Len(tokens))]
      /\ client'[c] = x /\ Only(c)
  BY <1>1, <1>2, LocalsSame DEF SessionInv
<1>4. tokens[t].revoked \/ tokens[t].family \in failed
  BY <1>1 DEF SessionInv, TokenInv, Rotated, FamilyOf
<1>5. \A d \in Clients : Carried(d)
  BY <1>1, <1>2, <1>3, <1>4 DEF Carried, Only, Turning
<1>6. /\ tokens' \in Seq(Token) /\ Len(tokens') = Len(tokens) /\ faults' \in Nat
      /\ overlapped' \subseteq Ids /\ failed' \subseteq Ids
      /\ spent' \subseteq Ids
  BY <1>1 DEF SessionInv, TypeOK
<1>7. RowsCarried /\ SetsCarried /\ RequestsCarried
  BY <1>1, <1>3, <1>5, <1>6 DEF RowsCarried, SetsCarried, RequestsCarried, Excused
<1> QED
  BY <1>7, CarryOn

LEMMA TimePassesKeeps ==
    ASSUME SessionInv, NEW t \in Ids, TimePasses(t)
    PROVE  SessionInv'
<1> DEFINE r == [tokens[t] EXCEPT !.expired = TRUE]
<1>1. /\ tokens' = [tokens EXCEPT ![t] = r]
      /\ UNCHANGED <<users, client, spent, burned, overlapped, failed, faults>>
  BY DEF TimePasses
<1>2. /\ r \in Token /\ r.family = tokens[t].family /\ r.late = tokens[t].late
      /\ r.user = tokens[t].user /\ r.revoked = tokens[t].revoked
  BY Rows DEF Token, SessionInv
<1> HIDE DEF r
<1>3. /\ tokens' \in Seq(Token) /\ Len(tokens') = Len(tokens)
      /\ \A s \in Ids : tokens'[s] = IF s = t THEN r ELSE tokens[s]
  BY <1>1, <1>2, Rows DEF SessionInv
<1>4. /\ client' \in [Clients -> Locals(Len(users), Len(tokens))]
      /\ \A d \in Clients : Carried(d)
  BY <1>1 DEF SessionInv, TypeOK, Locals, Places, Carried
<1>5. faults' \in Nat /\ overlapped' \subseteq Ids /\ failed' \subseteq Ids
      /\ spent' \subseteq Ids
  BY <1>1 DEF SessionInv, TypeOK
<1>6. RowsCarried
  BY <1>2, <1>3 DEF RowsCarried
<1>7. SetsCarried /\ RequestsCarried
  <2>1. UNCHANGED <<users, spent, burned, overlapped, failed>>
    BY <1>1
  <2> QED
    BY <1>4, <1>5, <2>1 DEF SetsCarried, Excused, RequestsCarried
<1> QED
  BY <1>6, <1>7, CarryOn

\* The successor takes the place of the token that was revoked for it.
LEMMA SucceedKeeps ==
    ASSUME SessionInv, NEW c \in Clients, Succeed(c)
    PROVE  SessionInv'
<1> DEFINE n == Len(tokens) + 1
           t == client[c].token
           k == tokens[t].family
           l == client[c].caught \/ tokens[t].late
<1>1. /\ client[c].pc = "successor" /\ t \in Ids /\ k \in Ids /\ k \in Nat
      /\ tokens[t].late \in BOOLEAN /\ client[c].caught \in BOOLEAN
      /\ client[c].user \in 0..Len(users) /\ client[c].user \in Nat
      /\ n \in Nat /\ Ids = 1..Len(tokens)
  <2>1. client[c].pc = "successor" /\ t \in Ids /\ k \in Ids
    BY Local DEF Succeed, At, WithToken, FamilyOf
  <2>2. /\ client[c].user \in 0..Len(users) /\ client[c].caught \in BOOLEAN
        /\ Len(users) \in Nat /\ Len(tokens) \in Nat
    BY Local DEF Locals
  <2>3. tokens[t].late \in BOOLEAN /\ Ids = 1..Len(tokens)
    BY <2>1, Rows DEF SessionInv
  <2> QED
    BY <2>1, <2>2, <2>3
<1>2. /\ UNCHANGED <<users, burned, overlapped, failed, faults>> /\ spent' = spent \cup {t}
      /\ client' = [client EXCEPT ![c] = Idle]
  BY DEF Succeed, Leave
<1>3. /\ tokens' \in Seq(Token) /\ Len(tokens') = n
      /\ Ids' = Ids \cup {n} /\ n \notin Ids
      /\ tokens'[n].family = k /\ ~tokens'[n].revoked /\ tokens'[n].late = l
      /\ tokens'[n].user = client[c].user
      /\ \A s \in Ids : tokens'[s] = tokens[s]
  <2>1. tokens' = Append(tokens, Fresh(client[c].user, k, l))
    BY DEF Succeed
  <2>2. l \in BOOLEAN /\ k \in Nat /\ client[c].user \in Nat /\ TypeOK
    BY <1>1 DEF SessionInv
  <2> HIDE DEF k, l
  <2> QED
    BY <2>1, <2>2, FreshRow
<1> HIDE DEF n, k, t
<1>4. client' \in [Clients -> Locals(Len(users), n)] /\ client'[c] = Idle /\ Only(c)
  <2>1. Idle \in Locals(Len(users), n)
    BY <1>1, Local DEF Idle, Locals, Places
  <2>2. TypeOK /\ Len(users) \in Nat /\ Len(users) <= Len(users) /\ Len(tokens) <= n
    BY Local DEF SessionInv, n
  <2> QED
    BY <1>1, <1>2, <2>1, <2>2, LocalsKept
<1>5. Idle.pc \notin Turning \cup WithToken \cup {"register", "insert"} /\ ~Idle.barred
  BY DEF Idle, Turning, WithToken
<1>6. TypeOK'
  <2>1. spent' \subseteq Ids' /\ burned' \subseteq Ids' /\ overlapped' \subseteq Ids'
        /\ failed' \subseteq Ids'
    BY <1>1, <1>2, <1>3 DEF SessionInv, TypeOK
  <2> QED
    BY <1>2, <1>3, <1>4, <2>1 DEF SessionInv, TypeOK, Locals, Places
<1>7. OneUserPerEmail' /\ Addressed' /\ Owned'
  <2>1. UNCHANGED users
    BY <1>2
  <2> QED
    BY <1>1, <1>3, <1>4, <1>5, <2>1 DEF SessionInv, OneUserPerEmail, Addressed, Owned, Only
<1>8. Held'
  BY <1>1, <1>3, <1>4, <1>5 DEF SessionInv, TokenInv, Held, Only, FamilyOf
<1>9. tokens[t].revoked \/ k \in failed
  BY <1>1 DEF SessionInv, TokenInv, Rotated, FamilyOf, t, k
<1>10. SpentDead'
  <2>1. \A s \in spent : s \in Ids /\ (tokens[s].revoked \/ tokens[s].family \in failed)
    BY DEF SessionInv, TypeOK, TokenInv, SpentDead, FamilyOf
  <2>2. \A s \in spent' : tokens'[s].revoked \/ tokens'[s].family \in failed'
    BY <1>1, <1>2, <1>3, <1>9, <2>1 DEF k
  <2>3. \A d \in Clients : client'[d].barred => client'[d].token \in spent'
    BY <1>2, <1>4, <1>5 DEF SessionInv, TokenInv, SpentDead, Only
  <2> QED
    BY <2>2, <2>3 DEF SpentDead, FamilyOf
<1>11. ASSUME NEW d \in Rotating'
       PROVE  /\ d \in Rotating /\ d # c /\ client'[d] = client[d]
              /\ client[d].token \in Ids
              /\ tokens'[client[d].token] = tokens[client[d].token]
  <2>1. d \in Clients /\ client'[d].pc \in Turning
    BY DEF Rotating, Turning
  <2>2. d # c /\ client'[d] = client[d]
    BY <1>4, <1>5, <2>1 DEF Only
  <2>3. d \in Rotating /\ client[d].token \in Ids
    BY <2>1, <2>2 DEF Rotating, Turning, SessionInv, TokenInv, Held, WithToken
  <2> QED
    BY <1>3, <2>2, <2>3
<1>12. UNCHANGED <<burned, overlapped, failed, Excused>> /\ c \in Rotating
  BY <1>1, <1>2 DEF Rotating, Excused
<1>13. Rotated'
  <2>1. ASSUME NEW d \in Clients, client'[d].pc \in {"user", "successor"}
        PROVE  \/ tokens'[client'[d].token].revoked
               \/ tokens'[client'[d].token].family \in failed'
    <3>1. d \in Rotating'
      BY <2>1 DEF Rotating
    <3> QED
      BY <1>11, <1>12, <2>1, <3>1 DEF SessionInv, TokenInv, Rotated, FamilyOf
  <2> QED
    BY <2>1 DEF Rotated, FamilyOf
<1>14. CaughtOrLate'
  <2>1. ASSUME NEW d \in Rotating', tokens'[client'[d].token].family \in burned',
               ~tokens'[client'[d].token].late
        PROVE  client'[d].caught
    BY <1>11, <1>12, <2>1 DEF SessionInv, TokenInv, CaughtOrLate, FamilyOf
  <2> QED
    BY <2>1 DEF CaughtOrLate, FamilyOf
<1>15. SpentTokensAreRefused'
  <2>1. ASSUME NEW d \in Rotating', client'[d].barred
        PROVE  tokens'[client'[d].token].family \in failed'
    BY <1>11, <1>12, <2>1 DEF SessionInv, TokenInv, SpentTokensAreRefused
  <2> QED
    BY <2>1 DEF SpentTokensAreRefused
<1>16. ASSUME k \notin Excused, NEW s \in Ids, tokens[s].family = k
       PROVE  tokens[s].revoked
  BY <1>1, <1>12, <1>16 DEF SessionInv, TokenInv, Solo, FamilyOf, k, t
<1>17. OneLivePerFamily'
  <2>1. ASSUME NEW s \in Ids', NEW u \in Ids', tokens'[s].family = tokens'[u].family,
               tokens'[s].family \notin Excused', ~tokens'[s].revoked, ~tokens'[u].revoked
        PROVE  s = u
    <3>1. CASE s \in Ids /\ u \in Ids
      BY <1>3, <1>12, <2>1, <3>1 DEF SessionInv, TokenInv, OneLivePerFamily
    <3>2. CASE s = n /\ u \in Ids
      BY <1>3, <1>12, <1>16, <2>1, <3>2
    <3>3. CASE u = n /\ s \in Ids
      BY <1>3, <1>12, <1>16, <2>1, <3>3
    <3> QED
      BY <1>3, <3>1, <3>2, <3>3
  <2> QED
    BY <2>1 DEF OneLivePerFamily
<1>18. BurnedFamiliesAreDead'
  <2>1. ~l => k \notin burned
    BY <1>1, <1>12 DEF SessionInv, TokenInv, CaughtOrLate, FamilyOf, k, t
  <2>2. \A s \in Ids : tokens[s].family \in burned /\ ~tokens[s].late => tokens[s].revoked
    BY DEF SessionInv, TokenInv, BurnedFamiliesAreDead
  <2> HIDE DEF l
  <2> QED
    BY <1>3, <1>12, <2>1, <2>2 DEF BurnedFamiliesAreDead
<1>19. Solo'
  <2>1. ASSUME NEW e \in Rotating', tokens'[client'[e].token].family \notin Excused'
        PROVE  /\ \A d \in Rotating' :
                     tokens'[client'[d].token].family = tokens'[client'[e].token].family
                         => d = e
               /\ \A s \in Ids' :
                     tokens'[s].family = tokens'[client'[e].token].family
                       /\ ~tokens'[s].revoked =>
                         s = client'[e].token /\ client'[e].pc = "rotate"
    <3>1. e \in Rotating /\ FamilyOf(client[e].token) \notin Excused
      BY <1>11, <1>12, <2>1 DEF FamilyOf
    <3>2. \A d \in Rotating' :
              tokens'[client'[d].token].family = tokens'[client'[e].token].family => d = e
      BY <1>11, <3>1 DEF SessionInv, TokenInv, Solo, FamilyOf
    <3>3. FamilyOf(client[e].token) # k
      BY <1>11, <1>12, <3>1 DEF SessionInv, TokenInv, Solo, FamilyOf, k, t
    <3>4. ASSUME NEW s \in Ids', ~tokens'[s].revoked,
                 tokens'[s].family = tokens'[client'[e].token].family
          PROVE  s = client'[e].token /\ client'[e].pc = "rotate"
      <4>1. s \in Ids
        BY <1>3, <1>11, <3>3, <3>4 DEF FamilyOf
      <4>2. FamilyOf(s) = FamilyOf(client[e].token) /\ ~tokens[s].revoked
        BY <1>3, <1>11, <3>4, <4>1 DEF FamilyOf
      <4> QED
        BY <1>11, <3>1, <4>1, <4>2 DEF SessionInv, TokenInv, Solo
    <3> QED
      BY <3>2, <3>4
  <2> QED
    BY <2>1 DEF Solo, FamilyOf
<1> QED
  BY <1>6, <1>7, <1>8, <1>10, <1>13, <1>14, <1>15, <1>17, <1>18, <1>19
  DEF SessionInv, TokenInv

---------------------------------------------------------------------------
(* The invariant and what follows from it.                                  *)

LEMMA SessionInit == Init => SessionInv
<1> SUFFICES ASSUME Init PROVE SessionInv
  OBVIOUS
<1>1. /\ users = <<>> /\ tokens = <<>> /\ spent = {} /\ burned = {}
      /\ overlapped = {} /\ failed = {}
      /\ Ids = {} /\ Len(users) = 0 /\ Len(tokens) = 0 /\ DOMAIN users = {}
  BY DEF Init, Ids
<1>2. Idle \in Locals(0, 0) /\ Idle.pc = "idle" /\ ~Idle.barred
  BY DEF Idle, Locals, Places
<1>3. client = [c \in Clients |-> Idle]
  BY DEF Init
<1>4. TypeOK
  BY <1>1, <1>2, <1>3 DEF Init, TypeOK, Locals, Places
<1>5. OneUserPerEmail /\ Addressed /\ Owned /\ Rotating = {}
  BY <1>1, <1>2, <1>3 DEF OneUserPerEmail, Addressed, Owned, Rotating
<1>6. TokenInv
  BY <1>1, <1>2, <1>3, <1>5
  DEF TokenInv, Held, SpentDead, Rotated, CaughtOrLate, Solo, OneLivePerFamily,
      BurnedFamiliesAreDead, SpentTokensAreRefused, WithToken
<1> QED
  BY <1>4, <1>5, <1>6 DEF SessionInv

LEMMA SessionNext == SessionInv /\ [Next]_vars => SessionInv'
<1> SUFFICES ASSUME SessionInv, [Next]_vars PROVE SessionInv'
  OBVIOUS
<1>1. CASE UNCHANGED vars
  BY <1>1
  DEF vars, SessionInv, TypeOK, Ids, OneUserPerEmail, Addressed, Owned, TokenInv, Held,
      SpentDead, Rotated, CaughtOrLate, Solo, OneLivePerFamily, BurnedFamiliesAreDead,
      SpentTokensAreRefused, FamilyOf, Rotating, Excused
<1>2. ASSUME NEW t \in Ids, TimePasses(t) PROVE SessionInv'
  BY <1>2, TimePassesKeeps
<1>3. ASSUME NEW c \in Clients,
             \/ \E m \in Emails, p \in {"register", "login"} : Begin(c, p, m)
             \/ RegisterFind(c) \/ RegisterCreate(c)
             \/ LoginTenant(c) \/ LoginFind(c) \/ Issue(c)
             \/ \E t \in Ids, p \in {"refresh", "logout"} : Present(c, p, t)
             \/ RefreshFind(c) \/ Burn(c) \/ Expire(c)
             \/ Rotate(c) \/ FindUser(c) \/ Succeed(c)
             \/ LogoutFind(c) \/ LogoutRevoke(c)
             \/ Abort(c)
      PROVE  SessionInv'
  BY <1>3, BeginKeeps, LookupsKeep, RegisterCreateKeeps, LoginFindKeeps, IssueKeeps,
     PresentKeeps, RefreshFindKeeps, BurnKeeps, RevokeKeeps, FindUserKeeps, SucceedKeeps
<1> QED
  BY <1>1, <1>2, <1>3 DEF Next

THEOREM SessionInvariant == Spec => []SessionInv
BY SessionInit, SessionNext, PTL DEF Spec

\* The rows and the requests have their types.
THEOREM SessionTypes == Spec => []TypeOK
<1>1. SessionInv => TypeOK
  BY DEF SessionInv
<1> QED
  BY <1>1, SessionInvariant, PTL

\* Concurrent registrations of one address make one user.
THEOREM OneUser == Spec => []OneUserPerEmail
<1>1. SessionInv => OneUserPerEmail
  BY DEF SessionInv
<1> QED
  BY <1>1, SessionInvariant, PTL

\* Rotation keeps one working token per family.
THEOREM OneLive == Spec => []OneLivePerFamily
<1>1. SessionInv => OneLivePerFamily
  BY DEF SessionInv, TokenInv
<1> QED
  BY <1>1, SessionInvariant, PTL

\* Reuse of a revoked token ends its family for good.
THEOREM BurnedStayDead == Spec => []BurnedFamiliesAreDead
<1>1. SessionInv => BurnedFamiliesAreDead
  BY DEF SessionInv, TokenInv
<1> QED
  BY <1>1, SessionInvariant, PTL

\* A token somebody was told is revoked does not get to a rotation again, in
\* every family whose revocations were written: overlapping refreshes of a
\* token, and what they made of its family, are no exception.
THEOREM SpentStayRefused == Spec => []SpentTokensAreRefused
<1>1. SessionInv => SpentTokensAreRefused
  BY DEF SessionInv, TokenInv
<1> QED
  BY <1>1, SessionInvariant, PTL
=============================================================================
