------------------------------ MODULE Sessions ------------------------------
(***************************************************************************)
(* AuthService: registration, login, rotation of refresh tokens and logout, *)
(* over the User and RefreshToken rows of one tenant.  Clients are requests, *)
(* split at their awaits; any of them may present any token that was issued. *)
(* Passwords are right (a wrong one ends a login like an unknown user), and  *)
(* access tokens, which are not stored, are left out.                        *)
(***************************************************************************)
EXTENDS Naturals, Sequences, FiniteSets

CONSTANTS Clients, Emails,
          NoEmail,               \* the request names no user
          MaxTokens, MaxFaults   \* bounds

ASSUME SessionsAssumption ==
    /\ NoEmail \notin Emails /\ MaxTokens \in Nat /\ MaxFaults \in Nat

VARIABLES
    users,     \* User rows: their e-mail addresses
    tokens,    \* RefreshToken rows in the order of their creation
    client,    \* per request: the await it is at and its locals
    spent,     \* tokens somebody was answered for: rotated, logged out, burned
    burned,    \* families revoked because one of their tokens was reused
    overlapped, \* families with refreshes of one token under way at once
    failed,    \* families with a revocation that was not written
    faults

vars == <<users, tokens, client, spent, burned, overlapped, failed, faults>>

\* late: made, directly or by way of others, by a refresh that was under way
\* when the family was burned.
Token == [user : Nat, family : Nat, revoked : BOOLEAN, expired : BOOLEAN,
          late : BOOLEAN]

\* user and token: the rows it works with; barred: the token was spent when the
\* request came; caught: its family was burned while the request was under way.
Idle == [pc |-> "idle", email |-> NoEmail, user |-> 0, token |-> 0,
         barred |-> FALSE, caught |-> FALSE]

Init ==
    /\ users = <<>> /\ tokens = <<>>
    /\ client = [c \in Clients |-> Idle]
    /\ spent = {} /\ burned = {}
    /\ overlapped = {} /\ failed = {}
    /\ faults = 0

Ids == DOMAIN tokens
Family(t) == {s \in Ids : tokens[s].family = tokens[t].family}
At(c, p)   == client[c].pc = p
Goto(c, p) == client' = [client EXCEPT ![c].pc = p]
Leave(c)   == client' = [client EXCEPT ![c] = Idle]
Fault      == faults < MaxFaults /\ faults' = faults + 1

\* Refreshes that have found their token alive and have not replaced it yet.
Rotating == {c \in Clients : client[c].pc \in {"rotate", "user", "successor"}}

---------------------------------------------------------------------------
(* register and login *)

Room == Len(tokens) + Cardinality({c \in Clients : ~At(c, "idle")}) < MaxTokens

Begin(c, p, m) ==
    /\ At(c, "idle") /\ Room
    /\ client' = [client EXCEPT ![c] = [Idle EXCEPT !.pc = p, !.email = m]]
    /\ UNCHANGED <<users, tokens, spent, burned, overlapped, failed, faults>>

UserOf(m) == {u \in DOMAIN users : users[u] = m}

RegisterFind(c) ==
    /\ At(c, "register")
    /\ IF UserOf(client[c].email) # {} THEN Leave(c) ELSE Goto(c, "insert")
    /\ UNCHANGED <<users, tokens, spent, burned, overlapped, failed, faults>>

MutantNoIndex(m) == FALSE
EmailTaken(m)    == UserOf(m) # {}

\* The password has been hashed; the unique index on tenant and e-mail decides.
RegisterCreate(c) ==
    /\ At(c, "insert")
    /\ IF EmailTaken(client[c].email)
       THEN Leave(c) /\ UNCHANGED users
       ELSE /\ users' = Append(users, client[c].email)
            /\ client' = [client EXCEPT ![c].pc = "issue", ![c].user = Len(users) + 1]
    /\ UNCHANGED <<tokens, spent, burned, overlapped, failed, faults>>

\* The tenant's row, read past the cache, may say that it is disabled.
LoginTenant(c) ==
    /\ At(c, "login")
    /\ Leave(c) \/ Goto(c, "password")
    /\ UNCHANGED <<users, tokens, spent, burned, overlapped, failed, faults>>

LoginFind(c) ==
    /\ At(c, "password")
    /\ \/ \E u \in UserOf(client[c].email) :
             client' = [client EXCEPT ![c].pc = "issue", ![c].user = u]
       \/ UserOf(client[c].email) = {} /\ Leave(c)
    /\ UNCHANGED <<users, tokens, spent, burned, overlapped, failed, faults>>

MutantRevokedNever(u, f, l) == [user |-> u, family |-> f, late |-> l]
Fresh(u, f, l) == [user |-> u, family |-> f, revoked |-> FALSE, expired |-> FALSE,
                   late |-> l]

\* _issueTokenPair: a family of its own.
Issue(c) ==
    /\ At(c, "issue")
    /\ tokens' = Append(tokens, Fresh(client[c].user, Len(tokens) + 1, FALSE))
    /\ Leave(c)
    /\ UNCHANGED <<users, spent, burned, overlapped, failed, faults>>

---------------------------------------------------------------------------
(* refresh *)

Present(c, p, t) ==
    /\ At(c, "idle") /\ (p = "refresh" => Room)
    /\ client' = [client EXCEPT
          ![c] = [Idle EXCEPT !.pc = p, !.token = t, !.barred = t \in spent]]
    /\ UNCHANGED <<users, tokens, spent, burned, overlapped, failed, faults>>

MutantExpiryOnly(t) == FALSE
IsReuse(t)          == tokens[t].revoked

RefreshFind(c) ==
    /\ At(c, "refresh")
    /\ LET t == client[c].token IN
       \/ IsReuse(t) /\ Goto(c, "burn") /\ UNCHANGED overlapped
       \/ ~IsReuse(t) /\ tokens[t].expired /\ Goto(c, "expire") /\ UNCHANGED overlapped
       \/ /\ ~IsReuse(t) /\ ~tokens[t].expired
          /\ Goto(c, "rotate")
          /\ overlapped' = IF \E d \in Rotating : client[d].token = t
                           THEN overlapped \cup {tokens[t].family} ELSE overlapped
    /\ UNCHANGED <<users, tokens, spent, burned, failed, faults>>

MutantNotRevoked(T) == tokens
Revoked(T) == [s \in Ids |-> IF s \in T THEN [tokens[s] EXCEPT !.revoked = TRUE]
                             ELSE tokens[s]]

MutantOneToken(t) == {t}
Relatives(t)      == Family(t)

\* revokeFamily, and the request is refused.
Burn(c) ==
    /\ At(c, "burn")
    /\ LET t == client[c].token IN
       /\ tokens' = Revoked(Relatives(t))
       /\ spent' = spent \cup Family(t)
       /\ burned' = burned \cup {tokens[t].family}
       /\ client' = [d \in Clients |->
             IF d = c THEN Idle
             ELSE IF d \in Rotating /\ client[d].token \in Family(t)
             THEN [client[d] EXCEPT !.caught = TRUE] ELSE client[d]]
    /\ UNCHANGED <<users, overlapped, failed, faults>>

\* revoke reports no failure: the handler goes on as if it had worked.
Revoke(c, next) ==
    LET t == client[c].token IN
    /\ client' = [client EXCEPT ![c] = IF next = "idle" THEN Idle
                                       ELSE [@ EXCEPT !.pc = next]]
    /\ spent' = IF next = "idle" THEN spent \cup {t} ELSE spent
    /\ \/ tokens' = Revoked({t}) /\ UNCHANGED <<failed, faults>>
       \/ /\ Fault /\ failed' = failed \cup {tokens[t].family}
          /\ UNCHANGED tokens
    /\ UNCHANGED <<users, burned, overlapped>>

Expire(c) == At(c, "expire") /\ Revoke(c, "idle")
Rotate(c) == At(c, "rotate") /\ Revoke(c, "user")

FindUser(c) ==
    /\ At(c, "user")
    /\ client' = [client EXCEPT ![c].pc = "successor",
                                ![c].user = tokens[client[c].token].user]
    /\ UNCHANGED <<users, tokens, spent, burned, overlapped, failed, faults>>

\* The client has its answer with the row: there is no await between them.
Succeed(c) ==
    /\ At(c, "successor")
    /\ LET t == client[c].token IN
       /\ tokens' = Append(tokens, Fresh(client[c].user, tokens[t].family,
                                         client[c].caught \/ tokens[t].late))
       /\ spent' = spent \cup {t}
    /\ Leave(c)
    /\ UNCHANGED <<users, burned, overlapped, failed, faults>>

---------------------------------------------------------------------------
(* logout, and what happens to requests and tokens *)

LogoutFind(c) ==
    /\ At(c, "logout")
    /\ IF tokens[client[c].token].revoked THEN Leave(c) ELSE Goto(c, "revoke")
    /\ UNCHANGED <<users, tokens, spent, burned, overlapped, failed, faults>>

LogoutRevoke(c) == At(c, "revoke") /\ Revoke(c, "idle")

\* A statement rejects or the process dies: the request ends without an answer.
Abort(c) ==
    /\ ~At(c, "idle") /\ Fault /\ Leave(c)
    /\ UNCHANGED <<users, tokens, spent, burned, overlapped, failed>>

TimePasses(t) ==
    /\ ~tokens[t].expired
    /\ tokens' = [tokens EXCEPT ![t].expired = TRUE]
    /\ UNCHANGED <<users, client, spent, burned, overlapped, failed, faults>>

---------------------------------------------------------------------------
Next ==
    \/ \E c \in Clients :
          \/ \E m \in Emails, p \in {"register", "login"} : Begin(c, p, m)
          \/ RegisterFind(c) \/ RegisterCreate(c)
          \/ LoginTenant(c) \/ LoginFind(c) \/ Issue(c)
          \/ \E t \in Ids, p \in {"refresh", "logout"} : Present(c, p, t)
          \/ RefreshFind(c) \/ Burn(c) \/ Expire(c)
          \/ Rotate(c) \/ FindUser(c) \/ Succeed(c)
          \/ LogoutFind(c) \/ LogoutRevoke(c)
          \/ Abort(c)
    \/ \E t \in Ids : TimePasses(t)

Spec == Init /\ [][Next]_vars

---------------------------------------------------------------------------
(* Properties *)

TypeOK ==
    /\ users \in Seq(Emails) /\ tokens \in Seq(Token)
    /\ client \in [Clients ->
          [pc : {"idle", "register", "insert", "login", "password", "issue", "refresh",
                 "burn", "expire", "rotate", "user", "successor", "logout", "revoke"},
           email : Emails \cup {NoEmail}, user : 0..Len(users), token : 0..Len(tokens),
           barred : BOOLEAN, caught : BOOLEAN]]
    /\ spent \subseteq Ids /\ burned \subseteq Ids
    /\ overlapped \subseteq Ids /\ failed \subseteq Ids
    /\ faults \in Nat

\* Registrations of one address that pass the check together make one user.
OneUserPerEmail ==
    \A u, v \in DOMAIN users : users[u] = users[v] => u = v

Excused == overlapped \cup failed

\* A family has one token that works, however often it is rotated, unless
\* refreshes of one token overlap or a revocation fails.
OneLivePerFamily ==
    \A s, t \in Ids :
        /\ tokens[s].family = tokens[t].family /\ tokens[s].family \notin Excused
        /\ ~tokens[s].revoked /\ ~tokens[t].revoked
        => s = t

\* A burned family stays dead, but for what refreshes still under way make of it.
BurnedFamiliesAreDead ==
    \A t \in Ids : tokens[t].family \in burned /\ ~tokens[t].late => tokens[t].revoked

\* Once somebody was answered that a token is revoked (rotated, logged out,
\* burned), no request that comes with it later gets as far as a rotation,
\* unless a revocation in its family failed, which the code does not notice.
\* Refreshes of one token that overlap, and what they made, are no exception.
SpentTokensAreRefused ==
    \A c \in Rotating :
        client[c].barred => tokens[client[c].token].family \in failed

=============================================================================
