--------------------------- MODULE AccountsProofs ---------------------------
(***************************************************************************)
(* Proofs about Accounts, for any number of clients, requests in flight,   *)
(* accounts and tokens.                                                    *)
(*                                                                         *)
(* The inductive invariant has three parts, each proved on the one before: *)
(* the rows and what the handlers know of them, the tokens and who holds   *)
(* them, and the profile updates in flight.                                *)
(***************************************************************************)
EXTENDS Accounts, TLAPS

-----------------------------------------------------------------------------
(* Types.                                                                  *)


\* q is a registration or a sign-in, and past BindJSON.
Naming(q) ==
  \/ request[q].stage \in {"create", "find", "store"}
  \/ At(q, "answer") /\ request[q].kind \in OpenKinds

\* What a handler holds by the stage it is at.
Holds(q) ==
  /\ ~ At(q, "idle") => /\ request[q].client \in Clients
                        /\ request[q].kind \in OpenKinds \cup ProtectedKinds
  /\ Naming(q) => /\ request[q].kind \in OpenKinds
                  /\ NewAccount(q) \in AccountRows
  /\ At(q, "store") => /\ request[q].account \in AccountIds
                       /\ account[request[q].account] # None
                       /\ account[request[q].account].number = NewAccount(q).number
                       /\ account[request[q].account].password = NewAccount(q).password
  /\ request[q].stage \in {"auth", "handle", "reload"} =>
       request[q].kind \in ProtectedKinds
  /\ request[q].stage \in {"auth", "handle", "reload", "answer"} =>
       request[q].token \in Tokens /\ session[request[q].token] # None
  /\ Serving(q) => request[q].account = session[request[q].token].account

SessionsBelong ==
  \A k \in Tokens : session[k] # None => account[session[k].account] # None

ProfilesBelong ==
  \A a \in AccountIds : account[a] # None <=> profile[a] # None

GivenLive == \A c \in Clients : \A k \in given[c] : session[k] # None

RowsInv == /\ TypeOK /\ SessionsBelong /\ ProfilesBelong /\ GivenLive
           /\ \A q \in Requests : Holds(q)

LEMMA IdleTypes == IdleRequest \in RequestRows /\ IdleEdit \in EditRows
  BY DEF IdleRequest, IdleEdit, RequestRows, EditRows, Stages

LEMMA InitTypeOK == Init => TypeOK
  BY IdleTypes DEF Init, TypeOK

LEMMA StageType ==
  ASSUME NEW r \in RequestRows, NEW stage \in Stages
  PROVE  [r EXCEPT !.stage = stage] \in RequestRows
  BY DEF RequestRows

LEMMA AccountType ==
  ASSUME NEW r \in RequestRows, NEW stage \in Stages, NEW a \in AccountIds
  PROVE  [r EXCEPT !.stage = stage, !.account = a] \in RequestRows
  BY DEF RequestRows

LEMMA TokenType ==
  ASSUME NEW r \in RequestRows, NEW stage \in Stages, NEW k \in Tokens
  PROVE  [r EXCEPT !.stage = stage, !.token = k] \in RequestRows
  BY DEF RequestRows

LEMMA NewTokenType ==
  ASSUME NEW r \in RequestRows, NEW stage \in Stages, NEW a \in AccountIds,
         NEW k \in Tokens
  PROVE  [r EXCEPT !.stage = stage, !.account = a, !.token = k] \in RequestRows
  BY DEF RequestRows

\* What a step leaves at one request is typed if the new record is.
LEMMA RequestType ==
  ASSUME TypeOK, NEW q \in Requests, NEW r \in RequestRows,
         request' = [request EXCEPT ![q] = r]
  PROVE  request' \in [Requests -> RequestRows]
  BY DEF TypeOK

LEMMA ServingAccount ==
  ASSUME RowsInv, NEW q \in Requests, Serving(q)
  PROVE  request[q].account \in AccountIds /\ account[request[q].account] # None
  BY DEF RowsInv, TypeOK, Holds, Serving, SessionsBelong, SessionRows

\* Both updates write a whole row, in their handler.
LEMMA UpdatesWriteFields ==
  ASSUME RowsInv, NEW q \in Requests,
         \/ \E bio, payout \in Values : UpdateProfile(q, bio, payout)
         \/ \E payout \in Values \cup {None} : UpdatePaymentProfile(q, payout)
  PROVE  \E new \in Fields : Write(q, new) /\ At(q, "handle")
<1>1. ASSUME NEW bio \in Values, NEW payout \in Values, UpdateProfile(q, bio, payout)
      PROVE  \E new \in Fields : Write(q, new) /\ At(q, "handle")
  <2>1. Replaced(bio, payout) \in Fields
    BY DEF Replaced, Fields
  <2> QED BY <1>1, <2>1 DEF UpdateProfile, Handles
<1>2. ASSUME NEW payout \in Values \cup {None}, UpdatePaymentProfile(q, payout)
      PROVE  \E new \in Fields : Write(q, new) /\ At(q, "handle")
  <2>1. Serving(q)
    BY <1>2 DEF UpdatePaymentProfile, Handles, At, Serving, ProtectedKinds
  <2>2. profile[request[q].account] \in Fields
    BY <2>1, ServingAccount DEF RowsInv, TypeOK, ProfilesBelong
  <2>3. WithPayout(profile[request[q].account], payout) \in Fields
    BY <2>2 DEF WithPayout, Fields
  <2> QED BY <1>2, <2>3 DEF UpdatePaymentProfile, Handles
<1> QED BY <1>1, <1>2

LEMMA NextTypeOK == RowsInv /\ [Next]_vars => TypeOK'
<1> SUFFICES ASSUME RowsInv, TypeOK, \A q \in Requests : Holds(q), [Next]_vars
             PROVE  TypeOK'
  BY DEF RowsInv
<1> USE RowsAssumption DEF TypeOK, rows, clientVars
<1>a. "create" \in Stages /\ "find" \in Stages /\ "store" \in Stages
      /\ "auth" \in Stages /\ "handle" \in Stages /\ "reload" \in Stages
      /\ "answer" \in Stages
  BY DEF Stages
<1>i. ASSUME NEW q \in Requests, Idle(q)
      PROVE  request' \in [Requests -> RequestRows] /\ edit' \in [Requests -> EditRows]
  BY <1>i, IdleTypes DEF Idle
<1>w. ASSUME NEW q \in Requests, Answer(q)
      PROVE  request' \in [Requests -> RequestRows]
  BY <1>w, <1>a, StageType DEF Answer
<1>1. ASSUME NEW q \in Requests, NEW c \in Clients, NEW page \in Pages,
             NEW kind \in OpenKinds, NEW text \in Texts, NEW password \in Passwords,
             SendOpen(q, c, kind, page, text, password)
      PROVE TypeOK'
  <2>1. [IdleRequest EXCEPT !.stage = IF kind = "register" THEN "create" ELSE "find",
                            !.kind = kind, !.client = c, !.text = text,
                            !.password = password] \in RequestRows
    BY <1>a DEF IdleRequest, RequestRows
  <2> QED BY <1>1, <2>1 DEF SendOpen
<1>2. ASSUME NEW q \in Requests, NEW c \in Clients, NEW page \in Pages,
             NEW kind \in ProtectedKinds, NEW k \in given[c],
             SendProtected(q, c, kind, page, k)
      PROVE TypeOK'
  <2>1. [IdleRequest EXCEPT !.stage = "auth", !.kind = kind, !.client = c,
                            !.token = k, !.barred = k \in ended \/ Expired(k)]
          \in RequestRows
    BY <1>a DEF IdleRequest, RequestRows
  <2> QED BY <1>2, <2>1 DEF SendProtected
<1>3. ASSUME NEW q \in Requests, Create(q) PROVE TypeOK'
  <2>1. CASE Refuse(q) /\ UNCHANGED rows
    BY <1>3, <2>1, <1>i DEF Create, Refuse
  <2>2. ASSUME NEW a \in AccountIds, NEW k \in Tokens,
               account' = [account EXCEPT ![a] = NewAccount(q)],
               profile' = [profile EXCEPT ![a] = Blank],
               session' = [session EXCEPT ![k] = NewSession(a)],
               request' = [request EXCEPT ![q].stage = "answer",
                                          ![q].account = a, ![q].token = k],
               UNCHANGED edit
        PROVE  TypeOK'
    <3>0. At(q, "create")
      BY <1>3 DEF Create
    <3>1. NewAccount(q) \in AccountRows
      BY <3>0 DEF Holds, Naming, At
    <3>2. Blank \in Fields /\ NewSession(a) \in SessionRows
      BY DEF Blank, Fields, NewSession, SessionRows
    <3>3. request' \in [Requests -> RequestRows]
      BY <2>2, <1>a, NewTokenType
    <3> QED BY <1>3, <2>2, <3>1, <3>2, <3>3 DEF Create
  <2> QED BY <1>3, <2>1, <2>2 DEF Create
<1>4. ASSUME NEW q \in Requests, FindAccount(q) PROVE TypeOK'
  <2>1. CASE Refuse(q)
    BY <1>4, <2>1, <1>i DEF FindAccount, Refuse
  <2>2. ASSUME NEW a \in AccountIds, UNCHANGED edit,
               request' = [request EXCEPT ![q].stage = "store", ![q].account = a]
        PROVE  TypeOK'
    BY <1>4, <2>2, <1>a, AccountType DEF FindAccount
  <2> QED BY <1>4, <2>1, <2>2 DEF FindAccount, Owner
<1>5. ASSUME NEW q \in Requests, CreateSession(q) PROVE TypeOK'
  <2>0. At(q, "store")
    BY <1>5 DEF CreateSession
  <2>1. NewSession(request[q].account) \in SessionRows
    BY <2>0 DEF Holds, NewSession, SessionRows
  <2>2. request' \in [Requests -> RequestRows]
    <3>1. PICK k \in Tokens :
            request' = [request EXCEPT ![q].stage = "answer", ![q].token = k]
      BY <1>5 DEF CreateSession
    <3> QED BY <3>1, <1>a, TokenType
  <2> QED BY <1>5, <2>1, <2>2 DEF CreateSession
<1>6. ASSUME NEW q \in Requests, Authenticate(q) PROVE TypeOK'
  <2>1. CASE Refuse(q)
    BY <1>6, <2>1, <1>i DEF Authenticate, Refuse
  <2>2. ASSUME UNCHANGED edit, AuthenticatedUser(request[q].token) # None,
               request' = [request EXCEPT ![q].stage = "handle",
                             ![q].account = AuthenticatedUser(request[q].token)]
        PROVE  TypeOK'
    <3>1. AuthenticatedUser(request[q].token) \in AccountIds
      BY <1>6, <2>2 DEF Authenticate, AuthenticatedUser, GetBySessionHash, Holds,
                        At, SessionRows
    <3> QED BY <1>6, <2>2, <3>1, <1>a, AccountType DEF Authenticate
  <2> QED BY <1>6, <2>1, <2>2 DEF Authenticate
<1>7. ASSUME NEW q \in Requests, Me(q) \/ GetProfile(q) PROVE TypeOK'
  BY <1>7, <1>i DEF Me, GetProfile
<1>8. ASSUME NEW q \in Requests, SignOut(q) PROVE TypeOK'
  <2>1. session[request[q].token] \in SessionRows
    BY <1>8 DEF SignOut, Handles, At, Holds
  <2>2. [session[request[q].token] EXCEPT !.revoked = TRUE] \in SessionRows
    BY <2>1 DEF SessionRows
  <2> QED BY <1>8, <2>2, <1>w DEF SignOut, RevokeSession
<1>9. ASSUME NEW q \in Requests, Reload(q) PROVE TypeOK'
  <2>1. OwnProfile(q) \in Fields \cup {None}
    <3>1. request[q].account \in AccountIds
      BY <1>9 DEF Reload, Holds, Serving, At, SessionRows
    <3> QED BY <3>1 DEF OwnProfile
  <2>2. [edit[q] EXCEPT !.reply = OwnProfile(q)] \in EditRows
    BY <2>1 DEF EditRows
  <2> QED BY <1>9, <2>2, <1>w DEF Reload
<1>u. ASSUME NEW q \in Requests, NEW new \in Fields, Write(q, new) PROVE TypeOK'
  <2>1. [IdleEdit EXCEPT !.written = new] \in EditRows
    BY DEF IdleEdit, EditRows
  <2> QED BY <1>u, <2>1, <1>a, StageType, IdleTypes DEF Write
<1>10. ASSUME NEW q \in Requests,
              \/ \E bio, payout \in Values : UpdateProfile(q, bio, payout)
              \/ \E payout \in Values \cup {None} : UpdatePaymentProfile(q, payout)
       PROVE TypeOK'
  BY <1>10, <1>u, UpdatesWriteFields
<1>12. ASSUME NEW q \in Requests, Deliver(q) PROVE TypeOK'
  <2>1. request[q].token \in Tokens /\ request[q].client \in Clients
    BY <1>12 DEF Deliver, Holds, At
  <2>2. NextCookie(q) \in Tokens \cup {None}
    BY <2>1 DEF NextCookie
  <2> QED BY <1>12, <2>1, <2>2, <1>i DEF Deliver
<1>13. ASSUME NEW q \in Requests, Fail(q) PROVE TypeOK'
  BY <1>13, <1>i DEF Fail
<1>14. ASSUME NEW k \in Tokens, Expire(k) PROVE TypeOK'
  <2>1. [session[k] EXCEPT !.expired = TRUE] \in SessionRows
    BY <1>14 DEF Expire, SessionRows
  <2> QED BY <1>14, <2>1 DEF Expire
<1>15. CASE UNCHANGED vars
  BY <1>15 DEF vars
<1> QED
  BY <1>1, <1>2, <1>3, <1>4, <1>5, <1>6, <1>7, <1>8, <1>9, <1>10, <1>12,
     <1>13, <1>14, <1>15 DEF Next, Step, Send

-----------------------------------------------------------------------------
(* Rows.                                                                   *)

\* Accounts never change once they are there, nor does a session's account.
RowsKept ==
  /\ \A a \in AccountIds : account[a] # None => account'[a] = account[a]
  /\ \A k \in Tokens :
       session[k] # None => /\ session'[k] # None
                            /\ session'[k].account = session[k].account

LEMMA NextRowsKept == RowsInv /\ [Next]_vars => RowsKept
<1> SUFFICES ASSUME TypeOK, \A q \in Requests : Holds(q), [Next]_vars
             PROVE  RowsKept
  BY DEF RowsInv
<1> USE RowsAssumption DEF TypeOK, RowsKept, rows
<1>1. CASE UNCHANGED <<account, session>>
  BY <1>1
<1>2. ASSUME NEW q \in Requests, Create(q) PROVE RowsKept
  <2>1. CASE UNCHANGED rows
    BY <2>1
  <2>2. ASSUME NEW a \in AccountIds, NEW k \in Tokens,
               account[a] = None, session[k] = None,
               account' = [account EXCEPT ![a] = NewAccount(q)],
               session' = [session EXCEPT ![k] = NewSession(a)]
        PROVE  RowsKept
    BY <2>2
  <2> QED BY <1>2, <2>1, <2>2 DEF Create
<1>3. ASSUME NEW q \in Requests, CreateSession(q) PROVE RowsKept
  <2>1. PICK k \in Tokens : /\ session[k] = None
                            /\ session' = [session EXCEPT ![k] = NewSession(request[q].account)]
    BY <1>3 DEF CreateSession
  <2> QED BY <1>3, <2>1 DEF CreateSession
<1>4. ASSUME NEW k \in Tokens, session[k] # None,
             \/ session' = [session EXCEPT ![k].revoked = TRUE]
             \/ session' = [session EXCEPT ![k].expired = TRUE],
             UNCHANGED account
      PROVE  RowsKept
  <2>1. session[k] \in SessionRows
    BY <1>4
  <2>a. \/ session'[k] = [session[k] EXCEPT !.revoked = TRUE]
        \/ session'[k] = [session[k] EXCEPT !.expired = TRUE]
    BY <1>4
  <2>2. session'[k] \in SessionRows /\ session'[k].account = session[k].account
    BY <2>a, <2>1 DEF SessionRows
  <2> QED BY <1>4, <2>2
<1>5. ASSUME NEW q \in Requests, SignOut(q) PROVE RowsKept
  <2>1. request[q].token \in Tokens /\ session[request[q].token] # None
    BY <1>5 DEF SignOut, Handles, Holds, At
  <2> QED BY <1>4, <1>5, <2>1 DEF SignOut, RevokeSession
<1>6. ASSUME NEW k \in Tokens, Expire(k) PROVE RowsKept
  BY <1>4, <1>6 DEF Expire
<1>7. ASSUME NEW q \in Requests, Step(q) PROVE RowsKept
  <2>1. CASE FindAccount(q) \/ Authenticate(q) \/ Me(q)
    BY <1>1, <2>1 DEF FindAccount, Authenticate, Me
  <2>2. CASE \/ \E bio, payout \in Values : UpdateProfile(q, bio, payout)
             \/ \E payout \in Values \cup {None} : UpdatePaymentProfile(q, payout)
    BY <1>1, <2>2 DEF UpdateProfile, UpdatePaymentProfile, Write
  <2>3. CASE Reload(q) \/ GetProfile(q) \/ Deliver(q) \/ Fail(q)
    BY <1>1, <2>3 DEF Reload, GetProfile, Deliver, Fail
  <2> QED BY <1>2, <1>3, <1>5, <1>7, <2>1, <2>2, <2>3 DEF Step
<1>8. ASSUME NEW q \in Requests, NEW c \in Clients, NEW page \in Pages, Send(q, c, page)
      PROVE  RowsKept
  BY <1>1, <1>8 DEF Send, SendOpen, SendProtected
<1>9. CASE UNCHANGED vars
  BY <1>1, <1>9 DEF vars
<1> QED
  BY <1>6, <1>7, <1>8, <1>9 DEF Next

\* What a request holds stays true while its own step does not come.
LEMMA HoldsKept ==
  ASSUME TypeOK, RowsKept, NEW q \in Requests, Holds(q), request'[q] = request[q]
  PROVE  Holds(q)'
<1> USE DEF TypeOK, RowsKept
<1>1. At(q, "idle")' = At(q, "idle") /\ Naming(q)' = Naming(q)
      /\ At(q, "store")' = At(q, "store") /\ Serving(q)' = Serving(q)
      /\ NewAccount(q)' = NewAccount(q)
  BY DEF At, Naming, Serving, NewAccount
<1>2. At(q, "store")' =>
        /\ request'[q].account \in AccountIds
        /\ account'[request'[q].account] # None
        /\ account'[request'[q].account].number = NewAccount(q)'.number
        /\ account'[request'[q].account].password = NewAccount(q)'.password
  BY <1>1 DEF Holds
<1>3. request'[q].stage \in {"auth", "handle", "reload", "answer"} =>
        request'[q].token \in Tokens /\ session'[request'[q].token] # None
  BY DEF Holds
<1>4. Serving(q)' => request'[q].account = session'[request'[q].token].account
  BY <1>1 DEF Holds, Serving
<1> QED BY <1>1, <1>2, <1>3, <1>4 DEF Holds

\* A request that is at rest holds nothing.
LEMMA IdleHolds == ASSUME NEW q, request'[q] = IdleRequest PROVE Holds(q)'
  BY DEF Holds, Naming, Serving, At, IdleRequest

\* The other requests stay as they are, or fall back to a fresh start.
LEMMA OthersHold ==
  ASSUME RowsInv, [Next]_vars, NEW q \in Requests,
         \A r \in Requests \ {q} : request'[r] = request[r],
         Holds(q)'
  PROVE  \A r \in Requests : Holds(r)'
<1> TAKE r \in Requests
<1>1. RowsKept
  BY NextRowsKept
<1>2. CASE r = q
  BY <1>2
<1>3. CASE r # q
  BY <1>1, <1>3, HoldsKept DEF RowsInv
<1> QED BY <1>2, <1>3

LEMMA NextHolds == RowsInv /\ [Next]_vars => \A q \in Requests : Holds(q)'
<1> SUFFICES ASSUME RowsInv, [Next]_vars PROVE \A q \in Requests : Holds(q)'
  OBVIOUS
<1>r. RowsKept /\ TypeOK /\ TypeOK'
  BY NextRowsKept, NextTypeOK DEF RowsInv
<1>t. /\ \A r \in Requests : request[r] \in RequestRows /\ request'[r] \in RequestRows
      /\ \A k \in Tokens : session[k] \in SessionRows \cup {None}
      /\ \A q \in Requests : Holds(q)
  BY <1>r DEF TypeOK, RowsInv
<1>f. request \in [Requests -> RequestRows]
  BY <1>r DEF TypeOK
<1>i. ASSUME NEW q \in Requests, Idle(q) PROVE \A r \in Requests : Holds(r)'
  <2>1. request'[q] = IdleRequest /\ \A r \in Requests \ {q} : request'[r] = request[r]
    BY <1>i, <1>f DEF Idle
  <2> QED BY <2>1, IdleHolds, OthersHold
<1>1. ASSUME NEW q \in Requests, NEW c \in Clients, NEW page \in Pages,
             NEW kind \in OpenKinds, NEW text \in Texts, NEW password \in Passwords,
             SendOpen(q, c, kind, page, text, password)
      PROVE  \A r \in Requests : Holds(r)'
  <2>1. /\ request'[q] = [IdleRequest EXCEPT
             !.stage = IF kind = "register" THEN "create" ELSE "find",
             !.kind = kind, !.client = c, !.text = text, !.password = password]
        /\ \A r \in Requests \ {q} : request'[r] = request[r]
    BY <1>1, <1>f DEF SendOpen
  <2>2. /\ request'[q].stage \in {"create", "find"}
        /\ request'[q].kind = kind /\ request'[q].client = c
        /\ request'[q].text = text /\ request'[q].password = password
    BY <2>1 DEF IdleRequest
  <2>3. NormalizePhoneNumber(text) \in Numbers
    BY <1>1 DEF SendOpen, Numbers
  <2>4. NewAccount(q)' \in AccountRows
    BY <2>2, <2>3 DEF NewAccount, AccountRows
  <2>5. Holds(q)'
    BY <2>2, <2>4 DEF Holds, At, Serving, OpenKinds, ProtectedKinds
  <2> QED BY <2>1, <2>5, OthersHold
<1>2. ASSUME NEW q \in Requests, NEW c \in Clients, NEW page \in Pages,
             NEW kind \in ProtectedKinds, NEW k \in given[c],
             SendProtected(q, c, kind, page, k)
      PROVE  \A r \in Requests : Holds(r)'
  <2>1. /\ request'[q] = [IdleRequest EXCEPT
             !.stage = "auth", !.kind = kind, !.client = c, !.token = k,
             !.barred = k \in ended \/ Expired(k)]
        /\ \A r \in Requests \ {q} : request'[r] = request[r]
    BY <1>2, <1>f DEF SendProtected
  <2>2. /\ request'[q].stage = "auth" /\ request'[q].kind = kind
        /\ request'[q].client = c /\ request'[q].token = k
    BY <2>1 DEF IdleRequest
  <2>3. k \in Tokens /\ session'[k] # None
    BY <1>2, <1>r DEF RowsInv, TypeOK, GivenLive, SendProtected, rows
  <2>4. Holds(q)'
    BY <2>2, <2>3 DEF Holds, Naming, At, Serving, OpenKinds, ProtectedKinds
  <2> QED BY <2>1, <2>4, OthersHold
<1>3. ASSUME NEW q \in Requests, Create(q) PROVE \A r \in Requests : Holds(r)'
  <2>0. Holds(q) /\ At(q, "create")
    BY <1>3, <1>t DEF Create
  <2>1. CASE Refuse(q)
    BY <2>1, <1>i DEF Refuse
  <2>2. ASSUME NEW a \in AccountIds, NEW k \in Tokens,
               session' = [session EXCEPT ![k] = NewSession(a)],
               request' = [request EXCEPT ![q].stage = "answer",
                                          ![q].account = a, ![q].token = k]
        PROVE  \A r \in Requests : Holds(r)'
    <3>1. /\ request'[q] = [request[q] EXCEPT !.stage = "answer", !.account = a,
                                              !.token = k]
          /\ \A r \in Requests \ {q} : request'[r] = request[r]
      BY <2>2, <1>f
    <3>2. /\ request'[q].stage = "answer" /\ request'[q].token = k
          /\ request'[q].kind = request[q].kind
          /\ request'[q].client = request[q].client
          /\ NewAccount(q)' = NewAccount(q)
      BY <3>1, <1>t DEF RequestRows, NewAccount
    <3>3. session'[k] # None
      <4>1. NewSession(a) \in SessionRows
        BY DEF NewSession, SessionRows
      <4> QED BY <2>2, <4>1, <1>r, RowsAssumption DEF TypeOK
    <3>4. Holds(q)'
      BY <2>0, <3>2, <3>3 DEF Holds, Naming, At, Serving, OpenKinds, ProtectedKinds
    <3> QED BY <3>1, <3>4, OthersHold
  <2> QED BY <1>3, <2>1, <2>2 DEF Create
<1>4. ASSUME NEW q \in Requests, FindAccount(q) PROVE \A r \in Requests : Holds(r)'
  <2>0. Holds(q) /\ At(q, "find")
    BY <1>4, <1>t DEF FindAccount
  <2>1. CASE Refuse(q)
    BY <2>1, <1>i DEF Refuse
  <2>2. ASSUME NEW a \in Owner(NormalizePhoneNumber(request[q].text)),
               account[a].password = request[q].password,
               request' = [request EXCEPT ![q].stage = "store", ![q].account = a]
        PROVE  \A r \in Requests : Holds(r)'
    <3>1. /\ request'[q] = [request[q] EXCEPT !.stage = "store", !.account = a]
          /\ \A r \in Requests \ {q} : request'[r] = request[r]
      BY <2>2, <1>f
    <3>2. /\ request'[q].stage = "store" /\ request'[q].account = a
          /\ request'[q].kind = request[q].kind
          /\ request'[q].client = request[q].client
          /\ NewAccount(q)' = NewAccount(q)
      BY <3>1, <1>t DEF RequestRows, NewAccount
    <3>3. /\ a \in AccountIds /\ account[a] # None /\ account' = account
          /\ account[a].number = NewAccount(q).number
          /\ account[a].password = NewAccount(q).password
      BY <1>4, <2>2 DEF FindAccount, rows, Owner, NewAccount
    <3>4. Holds(q)'
      BY <2>0, <3>2, <3>3 DEF Holds, Naming, At, Serving, OpenKinds, ProtectedKinds
    <3> QED BY <3>1, <3>4, OthersHold
  <2> QED BY <1>4, <2>1, <2>2 DEF FindAccount
<1>5. ASSUME NEW q \in Requests, CreateSession(q) PROVE \A r \in Requests : Holds(r)'
  <2>0. Holds(q) /\ At(q, "store")
    BY <1>5, <1>t DEF CreateSession
  <2>1. PICK k \in Tokens :
          /\ session' = [session EXCEPT ![k] = NewSession(request[q].account)]
          /\ request' = [request EXCEPT ![q].stage = "answer", ![q].token = k]
    BY <1>5 DEF CreateSession
  <2>2. /\ request'[q] = [request[q] EXCEPT !.stage = "answer", !.token = k]
        /\ \A r \in Requests \ {q} : request'[r] = request[r]
    BY <2>1, <1>f
  <2>3. /\ request'[q].stage = "answer" /\ request'[q].token = k
        /\ request'[q].kind = request[q].kind
        /\ request'[q].client = request[q].client
        /\ NewAccount(q)' = NewAccount(q)
    BY <2>2, <1>t DEF RequestRows, NewAccount
  <2>4. session'[k] # None
    <3>1. NewSession(request[q].account) \in SessionRows
      BY <2>0 DEF Holds, NewSession, SessionRows
    <3> QED BY <2>1, <3>1, <1>r, RowsAssumption DEF TypeOK
  <2>5. Holds(q)'
    BY <2>0, <2>3, <2>4 DEF Holds, Naming, At, Serving, OpenKinds, ProtectedKinds
  <2> QED BY <2>2, <2>5, OthersHold
<1>6. ASSUME NEW q \in Requests, Authenticate(q) PROVE \A r \in Requests : Holds(r)'
  <2>0. Holds(q) /\ At(q, "auth") /\ session' = session
    BY <1>6, <1>t DEF Authenticate, rows
  <2>1. CASE Refuse(q)
    BY <2>1, <1>i DEF Refuse
  <2>2. ASSUME AuthenticatedUser(request[q].token) # None,
               request' = [request EXCEPT ![q].stage = "handle",
                             ![q].account = AuthenticatedUser(request[q].token)]
        PROVE  \A r \in Requests : Holds(r)'
    <3>1. /\ request'[q] = [request[q] EXCEPT !.stage = "handle",
                               !.account = AuthenticatedUser(request[q].token)]
          /\ \A r \in Requests \ {q} : request'[r] = request[r]
      BY <2>2, <1>f
    <3>2. /\ request'[q].stage = "handle" /\ request'[q].token = request[q].token
          /\ request'[q].kind = request[q].kind
          /\ request'[q].client = request[q].client
          /\ request'[q].account = session[request[q].token].account
      <4>1. AuthenticatedUser(request[q].token) = session[request[q].token].account
        BY <2>2 DEF AuthenticatedUser
      <4> HIDE <2>2
      <4> QED BY <3>1, <4>1, <1>t DEF RequestRows
    <3>3. Holds(q)'
      BY <2>0, <3>2 DEF Holds, Naming, At, Serving, OpenKinds, ProtectedKinds
    <3> QED BY <3>1, <3>3, OthersHold
  <2> QED BY <1>6, <2>1, <2>2 DEF Authenticate
\* Within a handler only the stage changes.
<1>s. ASSUME NEW q \in Requests, NEW stage \in {"reload", "answer"},
             request[q].stage \in {"handle", "reload"},
             request' = [request EXCEPT ![q].stage = stage]
      PROVE  \A r \in Requests : Holds(r)'
  <2>1. /\ request'[q] = [request[q] EXCEPT !.stage = stage]
        /\ \A r \in Requests \ {q} : request'[r] = request[r]
    BY <1>s, <1>f
  <2>2. /\ request'[q].stage = stage /\ request'[q].token = request[q].token
        /\ request'[q].kind = request[q].kind
        /\ request'[q].client = request[q].client
        /\ request'[q].account = request[q].account
    BY <2>1, <1>t DEF RequestRows
  <2>3. /\ request[q].kind \in ProtectedKinds /\ request[q].client \in Clients
        /\ request[q].token \in Tokens /\ session[request[q].token] # None
        /\ request[q].account = session[request[q].token].account
    <3>1. Holds(q)
      BY <1>t
    <3> QED BY <1>s, <3>1 DEF Holds, At, Serving
  <2>4. /\ session'[request[q].token] # None
        /\ session'[request[q].token].account = session[request[q].token].account
    BY <2>3, <1>r DEF RowsKept
  <2>5. Holds(q)'
    BY <2>2, <2>3, <2>4 DEF Holds, Naming, At, Serving, OpenKinds, ProtectedKinds
  <2> QED BY <2>1, <2>5, OthersHold
<1>7. ASSUME NEW q \in Requests,
             SignOut(q) \/ Reload(q) \/ (\E new : Write(q, new) /\ At(q, "handle"))
      PROVE  \A r \in Requests : Holds(r)'
  BY <1>7, <1>s DEF SignOut, Reload, Write, Answer, Handles, At
<1>8. ASSUME NEW q \in Requests, Me(q) \/ GetProfile(q) \/ Deliver(q) \/ Fail(q)
      PROVE  \A r \in Requests : Holds(r)'
  BY <1>8, <1>i DEF Me, GetProfile, Deliver, Fail
<1>9. CASE UNCHANGED request
  BY <1>9, <1>r, <1>t, HoldsKept
<1> QED
  BY <1>1, <1>2, <1>3, <1>4, <1>5, <1>6, <1>7, <1>8, <1>9
     DEF Next, Step, Send, UpdateProfile, UpdatePaymentProfile, Handles, Expire, vars


FreeNumber(q) == Owner(NewAccount(q).number) = {}

Updates(q) ==
  \/ \E bio, payout \in Values : UpdateProfile(q, bio, payout)
  \/ \E payout \in Values \cup {None} : UpdatePaymentProfile(q, payout)

\* The steps that write a row.
LEMMA RowSteps ==
  ASSUME [Next]_vars
  PROVE  \/ UNCHANGED rows
         \/ \E q \in Requests : \/ Create(q) /\ FreeNumber(q)
                               \/ CreateSession(q) \/ SignOut(q) \/ Updates(q)
         \/ \E k \in Tokens : Expire(k)
<1>1. ASSUME NEW q \in Requests, NEW c \in Clients, NEW page \in Pages, Send(q, c, page)
      PROVE  UNCHANGED rows
  BY <1>1 DEF Send, SendOpen, SendProtected
<1>2. ASSUME NEW q \in Requests,
             \/ FindAccount(q) \/ Authenticate(q) \/ Me(q) \/ Reload(q) \/ GetProfile(q)
             \/ Deliver(q) \/ Fail(q)
             \/ Create(q) /\ ~ FreeNumber(q)
      PROVE  UNCHANGED rows
  BY <1>2 DEF FindAccount, Authenticate, Me, Reload, GetProfile, Deliver, Fail, Create,
              FreeNumber
<1>3. CASE UNCHANGED vars
  BY <1>3 DEF vars
<1>4. ASSUME NEW q \in Requests, Step(q)
      PROVE  \/ UNCHANGED rows
             \/ Create(q) /\ FreeNumber(q)
             \/ CreateSession(q) \/ SignOut(q) \/ Updates(q)
  <2>1. /\ FindAccount(q) \/ Authenticate(q) \/ Me(q) \/ Reload(q) => UNCHANGED rows
        /\ GetProfile(q) \/ Deliver(q) \/ Fail(q) => UNCHANGED rows
        /\ Create(q) => FreeNumber(q) \/ UNCHANGED rows
    BY <1>2
  <2> HIDE <1>2
  <2> QED BY <1>4, <2>1 DEF Step, Updates
<1> QED BY <1>1, <1>3, <1>4, Zenon DEF Next

\* A session appears only with its account there, or coming.
LEMMA SessionOrigin ==
  RowsInv /\ [Next]_vars =>
    \A k \in Tokens : session'[k] # None =>
      session[k] # None \/ account'[session'[k].account] # None
<1> SUFFICES ASSUME RowsInv, [Next]_vars
             PROVE  \A k \in Tokens : session'[k] # None =>
                      session[k] # None \/ account'[session'[k].account] # None
  OBVIOUS
<1> USE RowsAssumption
<1>t. TypeOK /\ \A q \in Requests : Holds(q)
  BY DEF RowsInv
<1>1. CASE UNCHANGED session
  BY <1>1
<1>2. ASSUME NEW q \in Requests, Create(q), FreeNumber(q)
      PROVE  \A k \in Tokens : session'[k] # None =>
               session[k] # None \/ account'[session'[k].account] # None
  <2>1. PICK a \in AccountIds, b \in Tokens :
          /\ account' = [account EXCEPT ![a] = NewAccount(q)]
          /\ session' = [session EXCEPT ![b] = NewSession(a)]
    BY <1>2 DEF Create, FreeNumber
  <2>2. NewAccount(q) \in AccountRows
    BY <1>2, <1>t DEF Create, Holds, Naming, At
  <2> QED BY <2>1, <2>2, <1>t DEF TypeOK, NewSession
<1>3. ASSUME NEW q \in Requests, CreateSession(q)
      PROVE  \A k \in Tokens : session'[k] # None =>
               session[k] # None \/ account'[session'[k].account] # None
  <2>1. PICK b \in Tokens :
          session' = [session EXCEPT ![b] = NewSession(request[q].account)]
    BY <1>3 DEF CreateSession
  <2>2. account' = account /\ account[request[q].account] # None
    BY <1>3, <1>t DEF CreateSession, Holds, At
  <2> QED BY <2>1, <2>2, <1>t DEF TypeOK, NewSession
<1>4. ASSUME NEW q \in Requests, SignOut(q)
      PROVE  \A k \in Tokens : session'[k] # None => session[k] # None
  <2>1. request[q].token \in Tokens /\ session[request[q].token] # None
    BY <1>4, <1>t DEF SignOut, Handles, Holds, At
  <2> QED BY <1>4, <2>1, <1>t DEF SignOut, RevokeSession, TypeOK
<1>5. ASSUME NEW k \in Tokens, Expire(k)
      PROVE  \A l \in Tokens : session'[l] # None => session[l] # None
  BY <1>5, <1>t DEF Expire, TypeOK
<1>6. ASSUME NEW q \in Requests, Updates(q) PROVE UNCHANGED session
  BY <1>6 DEF Updates, UpdateProfile, UpdatePaymentProfile, Write
<1> QED BY <1>1, <1>2, <1>3, <1>4, <1>5, <1>6, RowSteps DEF rows

LEMMA NextSessionsBelong == RowsInv /\ [Next]_vars => SessionsBelong'
<1> SUFFICES ASSUME RowsInv, [Next]_vars, NEW k \in Tokens, session'[k] # None
             PROVE  account'[session'[k].account] # None
  BY DEF SessionsBelong
<1>1. CASE session[k] = None
  BY <1>1, SessionOrigin
<1>2. CASE session[k] # None
  <2>1. session'[k].account = session[k].account /\ account[session[k].account] # None
    BY <1>2, NextRowsKept DEF RowsKept, RowsInv, SessionsBelong
  <2>2. session[k].account \in AccountIds
    BY <1>2 DEF RowsInv, TypeOK, SessionRows
  <2> QED BY <2>1, <2>2, NextRowsKept DEF RowsKept
<1> QED BY <1>1, <1>2

LEMMA NextProfilesBelong == RowsInv /\ [Next]_vars => ProfilesBelong'
<1> SUFFICES ASSUME RowsInv, [Next]_vars PROVE ProfilesBelong'
  OBVIOUS
<1> USE RowsAssumption
<1>t. TypeOK /\ ProfilesBelong /\ SessionsBelong /\ \A q \in Requests : Holds(q)
  BY DEF RowsInv
<1>1. CASE UNCHANGED <<account, profile>>
  BY <1>1, <1>t DEF ProfilesBelong
<1>2. ASSUME NEW q \in Requests, Create(q), FreeNumber(q) PROVE ProfilesBelong'
  <2>1. PICK a \in AccountIds : /\ account' = [account EXCEPT ![a] = NewAccount(q)]
                                /\ profile' = [profile EXCEPT ![a] = Blank]
    BY <1>2 DEF Create, FreeNumber
  <2>2. NewAccount(q) \in AccountRows
    BY <1>2, <1>t DEF Create, Holds, Naming, At
  <2>3. Blank \in Fields
    BY DEF Blank, Fields
  <2> QED BY <2>1, <2>2, <2>3, <1>t DEF TypeOK, ProfilesBelong
<1>3. ASSUME NEW q \in Requests, NEW new \in Fields, Write(q, new), At(q, "handle")
      PROVE  ProfilesBelong'
  <2>1. request[q].account \in AccountIds /\ account[request[q].account] # None
    <3>1. Serving(q)
      BY <1>3, <1>t DEF Holds, Serving, At
    <3> QED BY <3>1, ServingAccount
  <2>2. profile' = [profile EXCEPT ![request[q].account] = new] /\ account' = account
    BY <1>3 DEF Write
  <2> QED BY <2>1, <2>2, <1>t DEF TypeOK, ProfilesBelong
<1>4. ASSUME NEW q \in Requests, CreateSession(q) \/ SignOut(q) \/ UNCHANGED rows
             \/ \E k \in Tokens : Expire(k)
      PROVE  UNCHANGED <<account, profile>>
  BY <1>4 DEF CreateSession, SignOut, Expire, rows
<1>5. ASSUME NEW q \in Requests, Updates(q) PROVE ProfilesBelong'
  BY <1>5, <1>3, UpdatesWriteFields DEF Updates
<1>6. CASE UNCHANGED rows \/ \E k \in Tokens : Expire(k)
  BY <1>6, <1>1 DEF rows, Expire
<1> QED BY <1>1, <1>2, <1>4, <1>5, <1>6, RowSteps

LEMMA NextGivenLive == RowsInv /\ [Next]_vars => GivenLive'
<1> SUFFICES ASSUME RowsInv, [Next]_vars PROVE GivenLive'
  OBVIOUS
<1>t. TypeOK /\ RowsKept /\ GivenLive /\ \A q \in Requests : Holds(q)
  BY NextRowsKept DEF RowsInv
<1>1. CASE UNCHANGED given
  BY <1>1, <1>t DEF TypeOK, RowsKept, GivenLive
<1>2. ASSUME NEW q \in Requests, Deliver(q) PROVE GivenLive'
  <2>1. /\ request[q].token \in Tokens /\ session[request[q].token] # None
        /\ session' = session
    BY <1>2, <1>t DEF Deliver, Holds, At, rows
  <2>2. \A c \in Clients : given'[c] \subseteq given[c] \cup {request[q].token}
    BY <1>2, <1>t DEF Deliver, TypeOK
  <2> QED BY <2>1, <2>2, <1>t DEF GivenLive
<1>3. ASSUME NEW q \in Requests, Step(q) PROVE Deliver(q) \/ UNCHANGED given
  <2>1. CASE Create(q) \/ FindAccount(q) \/ CreateSession(q)
    BY <2>1 DEF Create, FindAccount, CreateSession, clientVars
  <2>2. CASE Authenticate(q) \/ Me(q) \/ SignOut(q)
    BY <2>2 DEF Authenticate, Me, SignOut, clientVars
  <2>3. CASE \/ \E bio, payout \in Values : UpdateProfile(q, bio, payout)
             \/ \E payout \in Values \cup {None} : UpdatePaymentProfile(q, payout)
    BY <2>3 DEF UpdateProfile, UpdatePaymentProfile, Write, clientVars
  <2>4. CASE Reload(q) \/ GetProfile(q) \/ Fail(q)
    BY <2>4 DEF Reload, GetProfile, Fail, clientVars
  <2> QED BY <1>3, <2>1, <2>2, <2>3, <2>4 DEF Step
<1>4. ASSUME NEW q \in Requests, NEW c \in Clients, NEW page \in Pages, Send(q, c, page)
      PROVE  UNCHANGED given
  BY <1>4 DEF Send, SendOpen, SendProtected, clientVars
<1>5. ASSUME NEW k \in Tokens, Expire(k) PROVE UNCHANGED given
  BY <1>5 DEF Expire, clientVars
<1>6. CASE UNCHANGED vars
  BY <1>6, <1>1 DEF vars, clientVars
<1> QED
  BY <1>1, <1>2, <1>3, <1>4, <1>5, <1>6 DEF Next

LEMMA NextRowsInv == RowsInv /\ [Next]_vars => RowsInv'
  BY NextTypeOK, NextHolds, NextSessionsBelong, NextProfilesBelong, NextGivenLive
     DEF RowsInv

LEMMA InitRowsInv == Init => RowsInv
<1> SUFFICES ASSUME Init PROVE RowsInv
  OBVIOUS
<1>1. SessionsBelong /\ ProfilesBelong /\ GivenLive
  BY DEF Init, SessionsBelong, ProfilesBelong, GivenLive
<1>2. \A q \in Requests : Holds(q)
  BY DEF Init, Holds, Naming, Serving, At, IdleRequest
<1> QED BY <1>1, <1>2, InitTypeOK DEF RowsInv

THEOREM RowsAlways == Spec => []RowsInv
  BY InitRowsInv, NextRowsInv, PTL DEF Spec

\* The stored rows and the requests in flight keep their types.
THEOREM AccountsTypeCorrect == Spec => []TypeOK
<1>1. RowsInv => TypeOK
  BY DEF RowsInv
<1> QED BY <1>1, RowsAlways, PTL

-----------------------------------------------------------------------------
(* Accounts.                                                               *)

\* What is stored is what was typed, normalised; a number is stored once; and
\* its first session came with it.
StoredOnce ==
  /\ \A a \in AccountIds : account[a] # None =>
       /\ account[a].number = NormalizePhoneNumber(account[a].typed)
       /\ \E k \in Tokens : session[k] # None /\ session[k].account = a
  /\ \A a, b \in AccountIds :
       /\ account[a] # None /\ account[b] # None
       /\ account[a].number = account[b].number
       => a = b

LEMMA NextStoredOnce == RowsInv /\ StoredOnce /\ [Next]_vars => StoredOnce'
<1> SUFFICES ASSUME RowsInv, StoredOnce, [Next]_vars PROVE StoredOnce'
  OBVIOUS
<1>t. TypeOK /\ RowsKept /\ SessionsBelong /\ \A q \in Requests : Holds(q)
  BY NextRowsKept DEF RowsInv
<1>1. CASE UNCHANGED account
  BY <1>1, <1>t DEF StoredOnce, RowsKept
<1>2. ASSUME NEW q \in Requests, Create(q), FreeNumber(q) PROVE StoredOnce'
  <2>1. PICK a \in AccountIds, k \in Tokens :
          /\ account[a] = None /\ session[k] = None
          /\ account' = [account EXCEPT ![a] = NewAccount(q)]
          /\ session' = [session EXCEPT ![k] = NewSession(a)]
    BY <1>2 DEF Create, FreeNumber
  <2>2. NewAccount(q) \in AccountRows
    BY <1>2, <1>t DEF Create, Holds, Naming, At
  <2>3. /\ account'[a] = NewAccount(q)
        /\ \A b \in AccountIds \ {a} : account'[b] = account[b]
    BY <2>1, <1>t DEF TypeOK
  <2>4. account'[a].number = NormalizePhoneNumber(account'[a].typed)
    BY <2>3 DEF NewAccount
  <2>5. session'[k] # None /\ session'[k].account = a
    <3>1. NewSession(a) \in SessionRows /\ NewSession(a).account = a
      BY DEF NewSession, SessionRows
    <3> QED BY <2>1, <3>1, <1>t, RowsAssumption DEF TypeOK
  <2>6. ASSUME NEW b \in AccountIds, account'[b] # None
        PROVE  /\ account'[b].number = NormalizePhoneNumber(account'[b].typed)
               /\ \E l \in Tokens : session'[l] # None /\ session'[l].account = b
    <3>1. CASE b = a
      BY <3>1, <2>4, <2>5
    <3>2. CASE b # a
      BY <3>2, <2>3, <2>6, <1>t DEF StoredOnce, RowsKept
    <3> QED BY <3>1, <3>2
  <2>7. \A b \in AccountIds \ {a} : account[b] # None => account[b].number # NewAccount(q).number
    BY <1>2 DEF FreeNumber, Owner
  <2>8. ASSUME NEW b \in AccountIds, NEW c \in AccountIds,
               account'[b] # None, account'[c] # None,
               account'[b].number = account'[c].number
        PROVE  b = c
    BY <2>3, <2>7, <2>8 DEF StoredOnce
  <2> QED BY <2>6, <2>8 DEF StoredOnce
<1>3. ASSUME NEW q \in Requests, CreateSession(q) \/ SignOut(q) \/ Updates(q)
      PROVE  UNCHANGED account
  BY <1>3 DEF CreateSession, SignOut, Updates, UpdateProfile, UpdatePaymentProfile, Write
<1> QED BY <1>1, <1>2, <1>3, RowSteps DEF rows, Expire

LEMMA StoredAlways == Spec => [](RowsInv /\ StoredOnce)
<1>1. Init => StoredOnce
  BY DEF Init, StoredOnce
<1> QED BY <1>1, InitRowsInv, NextRowsInv, NextStoredOnce, PTL DEF Spec

\* normalizePhoneNumber and the unique column give a number one account,
\* however it is typed and whatever registrations overlap.
THEOREM OneAccountAlways == Spec => []OneAccountPerNumber
<1>1. RowsInv /\ StoredOnce => OneAccountPerNumber
  <2> SUFFICES ASSUME RowsInv, StoredOnce, NEW a \in AccountIds, NEW b \in AccountIds,
                      account[a] # None, account[b] # None,
                      Significant(account[a].typed) = Significant(account[b].typed)
               PROVE  a = b
    BY DEF OneAccountPerNumber
  <2>1. /\ account[a].number = NormalizePhoneNumber(account[a].typed)
        /\ account[b].number = NormalizePhoneNumber(account[b].typed)
    BY DEF StoredOnce
  <2>2. account[a].number # None /\ account[b].number # None
    BY DEF RowsInv, TypeOK, AccountRows, Numbers
  <2>3. account[a].number = account[b].number
    BY <2>1, <2>2 DEF NormalizePhoneNumber
  <2> QED BY <2>3 DEF StoredOnce
<1> QED BY <1>1, StoredAlways, PTL

\* No account is ever left partly created.
THEOREM UsableAlways == Spec => []AccountsAreUsable
<1>1. RowsInv /\ StoredOnce => AccountsAreUsable
  BY DEF RowsInv, StoredOnce, ProfilesBelong, SessionsBelong, AccountsAreUsable
<1> QED BY <1>1, StoredAlways, PTL

\* Every handler acts for the account of the session its cookie carried.
THEOREM CookieOwnerAlways == Spec => []ActsForCookieOwner
<1>1. RowsInv => ActsForCookieOwner
  BY DEF RowsInv, Holds, Serving, ActsForCookieOwner
<1> QED BY <1>1, RowsAlways, PTL

-----------------------------------------------------------------------------
(* Tokens.                                                                 *)

\* How a request may move in one step.
Rests(q) == request'[q] = IdleRequest
Names(q) == request'[q].stage \in {"create", "find", "store"}
Presents(q) ==
  /\ request'[q].stage = "auth"
  /\ request'[q].client \in Clients /\ request'[q].token \in given[request'[q].client]
  /\ request'[q].barred => request'[q].token \in ended \/ Expired(request'[q].token)
Carries(q) ==
  /\ request'[q].token = request[q].token /\ request'[q].client = request[q].client
  /\ request'[q].kind = request[q].kind /\ request'[q].barred = request[q].barred
Enters(q) ==
  /\ Carries(q) /\ At(q, "auth") /\ request'[q].stage = "handle"
  /\ GetBySessionHash(request[q].token)
Serves(q) ==
  /\ Carries(q)
  /\ \/ /\ At(q, "handle") /\ request'[q].stage = "reload"
        /\ request[q].kind # "signout"
     \/ At(q, "reload") /\ request'[q].stage = "answer"
     \/ /\ At(q, "handle") /\ request'[q].stage = "answer"
        /\ request[q].kind = "signout" /\ session'[request[q].token].revoked
Opens(q) ==
  /\ Naming(q) /\ ~ At(q, "answer") /\ request'[q].stage = "answer"
  /\ request'[q].kind = request[q].kind /\ request'[q].client = request[q].client
  /\ request'[q].text = request[q].text /\ request'[q].password = request[q].password
  /\ request'[q].token \in Tokens /\ session[request'[q].token] = None
  /\ LET a == session'[request'[q].token].account
     IN  /\ account'[a].number = NewAccount(q).number
         /\ account'[a].password = NewAccount(q).password

Moves(q) ==
  \/ Rests(q) \/ Names(q) \/ Presents(q) \/ Enters(q) \/ Serves(q) \/ Opens(q)

Alone(q) == \A r \in Requests \ {q} : request'[r] = request[r]

LEMMA RequestSteps ==
  ASSUME RowsInv, [Next]_vars
  PROVE  \/ UNCHANGED request
         \/ \E q \in Requests : Moves(q) /\ Alone(q)
<1>t. /\ TypeOK /\ TypeOK' /\ RowsKept
      /\ \A q \in Requests : Holds(q) /\ request[q] \in RequestRows
  BY NextRowsKept, NextTypeOK DEF RowsInv, TypeOK
<1>f. request \in [Requests -> RequestRows]
  BY <1>t DEF TypeOK
<1>i. ASSUME NEW q \in Requests, Idle(q) PROVE Moves(q) /\ Alone(q)
  BY <1>i, <1>f DEF Idle, Moves, Rests, Alone
<1>1. ASSUME NEW q \in Requests, NEW c \in Clients, NEW page \in Pages,
             NEW kind \in OpenKinds, NEW text \in Texts, NEW password \in Passwords,
             SendOpen(q, c, kind, page, text, password)
      PROVE  Moves(q) /\ Alone(q)
  <2>1. /\ request'[q] = [IdleRequest EXCEPT
             !.stage = IF kind = "register" THEN "create" ELSE "find",
             !.kind = kind, !.client = c, !.text = text, !.password = password]
        /\ Alone(q)
    BY <1>1, <1>f DEF SendOpen, Alone
  <2>2. Names(q)
    BY <2>1 DEF IdleRequest, Names
  <2> QED BY <2>1, <2>2 DEF Moves
<1>2. ASSUME NEW q \in Requests, NEW c \in Clients, NEW page \in Pages,
             NEW kind \in ProtectedKinds, NEW k \in given[c],
             SendProtected(q, c, kind, page, k)
      PROVE  Moves(q) /\ Alone(q)
  <2>1. /\ request'[q] = [IdleRequest EXCEPT
             !.stage = "auth", !.kind = kind, !.client = c, !.token = k,
             !.barred = k \in ended \/ Expired(k)]
        /\ Alone(q)
    BY <1>2, <1>f DEF SendProtected, Alone
  <2>2. /\ request'[q].stage = "auth" /\ request'[q].client = c
        /\ request'[q].token = k /\ request'[q].barred = (k \in ended \/ Expired(k))
    BY <2>1 DEF IdleRequest
  <2>3. Presents(q)
    BY <2>2 DEF Presents
  <2> QED BY <2>1, <2>3 DEF Moves
<1>3. ASSUME NEW q \in Requests, Create(q) PROVE Moves(q) /\ Alone(q)
  <2>1. CASE ~ FreeNumber(q)
    BY <1>3, <2>1, <1>i DEF Create, FreeNumber, Refuse
  <2>2. CASE FreeNumber(q)
    <3>1. PICK a \in AccountIds, k \in Tokens :
            /\ account[a] = None /\ session[k] = None
            /\ account' = [account EXCEPT ![a] = NewAccount(q)]
            /\ session' = [session EXCEPT ![k] = NewSession(a)]
            /\ request' = [request EXCEPT ![q].stage = "answer",
                                          ![q].account = a, ![q].token = k]
      BY <1>3, <2>2 DEF Create, FreeNumber
    <3>2. /\ request'[q] = [request[q] EXCEPT !.stage = "answer", !.account = a,
                                              !.token = k]
          /\ Alone(q)
      BY <3>1, <1>f DEF Alone
    <3>3. /\ request'[q].stage = "answer" /\ request'[q].token = k
          /\ request'[q].kind = request[q].kind /\ request'[q].client = request[q].client
          /\ request'[q].text = request[q].text
          /\ request'[q].password = request[q].password
      BY <3>2, <1>t DEF RequestRows
    <3>4. session'[k].account = a /\ account'[a] = NewAccount(q)
      BY <3>1, <1>t DEF TypeOK, NewSession
    <3>5. Naming(q) /\ ~ At(q, "answer")
      BY <1>3 DEF Create, Naming, At
    <3>6. Opens(q)
      BY <3>1, <3>3, <3>4, <3>5 DEF Opens
    <3> QED BY <3>2, <3>6 DEF Moves
  <2> QED BY <2>1, <2>2
<1>4. ASSUME NEW q \in Requests, FindAccount(q) PROVE Moves(q) /\ Alone(q)
  <2>1. CASE Refuse(q)
    BY <2>1, <1>i DEF Refuse
  <2>2. ASSUME NEW a, request' = [request EXCEPT ![q].stage = "store", ![q].account = a]
        PROVE  Moves(q) /\ Alone(q)
    <3>1. request'[q] = [request[q] EXCEPT !.stage = "store", !.account = a] /\ Alone(q)
      BY <2>2, <1>f DEF Alone
    <3>2. Names(q)
      BY <3>1, <1>t DEF RequestRows, Names
    <3> QED BY <3>1, <3>2 DEF Moves
  <2> QED BY <1>4, <2>1, <2>2 DEF FindAccount
<1>5. ASSUME NEW q \in Requests, CreateSession(q) PROVE Moves(q) /\ Alone(q)
  <2>1. PICK k \in Tokens :
          /\ session[k] = None
          /\ session' = [session EXCEPT ![k] = NewSession(request[q].account)]
          /\ request' = [request EXCEPT ![q].stage = "answer", ![q].token = k]
    BY <1>5 DEF CreateSession
  <2>2. request'[q] = [request[q] EXCEPT !.stage = "answer", !.token = k] /\ Alone(q)
    BY <2>1, <1>f DEF Alone
  <2>3. /\ request'[q].stage = "answer" /\ request'[q].token = k
        /\ request'[q].kind = request[q].kind /\ request'[q].client = request[q].client
        /\ request'[q].text = request[q].text
        /\ request'[q].password = request[q].password
    BY <2>2, <1>t DEF RequestRows
  <2>4. session'[k].account = request[q].account /\ account' = account
    BY <1>5, <2>1, <1>t DEF TypeOK, NewSession, CreateSession
  <2>5. Naming(q) /\ ~ At(q, "answer")
    BY <1>5 DEF CreateSession, Naming, At
  <2>6. /\ account[request[q].account].number = NewAccount(q).number
        /\ account[request[q].account].password = NewAccount(q).password
    BY <1>5, <1>t DEF CreateSession, Holds, At
  <2>7. Opens(q)
    BY <2>1, <2>3, <2>4, <2>5, <2>6 DEF Opens
  <2> QED BY <2>2, <2>7 DEF Moves
<1>6. ASSUME NEW q \in Requests, Authenticate(q) PROVE Moves(q) /\ Alone(q)
  <2>1. CASE Refuse(q)
    BY <2>1, <1>i DEF Refuse
  <2>2. ASSUME NEW a, a = AuthenticatedUser(request[q].token), a # None,
               request' = [request EXCEPT ![q].stage = "handle", ![q].account = a]
        PROVE  Moves(q) /\ Alone(q)
    <3>1. request'[q] = [request[q] EXCEPT !.stage = "handle", !.account = a] /\ Alone(q)
      BY <2>2, <1>f DEF Alone
    <3>2. Carries(q) /\ request'[q].stage = "handle"
      BY <3>1, <1>t DEF RequestRows, Carries
    <3>3. At(q, "auth") /\ GetBySessionHash(request[q].token)
      BY <1>6, <2>2 DEF Authenticate, AuthenticatedUser
    <3> QED BY <3>1, <3>2, <3>3 DEF Moves, Enters
  <2> QED BY <1>6, <2>1, <2>2 DEF Authenticate
<1>s. ASSUME NEW q \in Requests, NEW stage \in {"reload", "answer"},
             request' = [request EXCEPT ![q].stage = stage]
      PROVE  Carries(q) /\ Alone(q) /\ request'[q].stage = stage
  <2>1. request'[q] = [request[q] EXCEPT !.stage = stage] /\ Alone(q)
    BY <1>s, <1>f DEF Alone
  <2> QED BY <2>1, <1>t DEF RequestRows, Carries
<1>7. ASSUME NEW q \in Requests, SignOut(q) PROVE Moves(q) /\ Alone(q)
  <2>1. /\ At(q, "handle") /\ request[q].kind = "signout"
        /\ session' = [session EXCEPT ![request[q].token].revoked = TRUE]
        /\ request' = [request EXCEPT ![q].stage = "answer"]
    BY <1>7 DEF SignOut, Handles, Answer, RevokeSession
  <2>2. request[q].token \in Tokens /\ session[request[q].token] \in SessionRows
    BY <2>1, <1>t DEF Holds, At, TypeOK
  <2>3. session'[request[q].token].revoked
    BY <2>1, <2>2, <1>t DEF TypeOK, SessionRows
  <2> QED BY <2>1, <2>3, <1>s DEF Moves, Serves
<1>8. ASSUME NEW q \in Requests, Reload(q) PROVE Moves(q) /\ Alone(q)
  BY <1>8, <1>s DEF Reload, Answer, Moves, Serves
<1>9. ASSUME NEW q \in Requests, Updates(q) PROVE Moves(q) /\ Alone(q)
  <2>1. /\ At(q, "handle") /\ request[q].kind # "signout"
        /\ request' = [request EXCEPT ![q].stage = "reload"]
    BY <1>9 DEF Updates, UpdateProfile, UpdatePaymentProfile, Write, Handles
  <2> QED BY <2>1, <1>s DEF Moves, Serves
<1>10. ASSUME NEW q \in Requests, Me(q) \/ GetProfile(q) \/ Deliver(q) \/ Fail(q)
       PROVE  Moves(q) /\ Alone(q)
  BY <1>10, <1>i DEF Me, GetProfile, Deliver, Fail
<1>11. ASSUME NEW q \in Requests, NEW c \in Clients, NEW page \in Pages, Send(q, c, page)
       PROVE  Moves(q) /\ Alone(q)
  BY <1>1, <1>2, <1>11 DEF Send
<1>12. ASSUME NEW q \in Requests, Step(q) PROVE Moves(q) /\ Alone(q)
  BY <1>3, <1>4, <1>5, <1>6, <1>7, <1>8, <1>9, <1>10, <1>12 DEF Step, Updates
<1>13. ASSUME NEW k \in Tokens, Expire(k) PROVE UNCHANGED request
  BY <1>13 DEF Expire
<1> QED BY <1>11, <1>12, <1>13 DEF Next, vars

\* An ended session stays ended.
EndsKept ==
  \A k \in Tokens : session[k] # None =>
    /\ session[k].revoked => session'[k].revoked
    /\ session[k].expired => session'[k].expired

LEMMA NextEndsKept == RowsInv /\ [Next]_vars => EndsKept
<1> SUFFICES ASSUME RowsInv, [Next]_vars PROVE EndsKept
  OBVIOUS
<1>t. TypeOK /\ \A q \in Requests : Holds(q)
  BY DEF RowsInv
<1>1. CASE UNCHANGED session
  BY <1>1 DEF EndsKept
<1>2. ASSUME NEW k \in Tokens, NEW row, session[k] = None,
             session' = [session EXCEPT ![k] = row]
      PROVE  EndsKept
  BY <1>2, <1>t DEF TypeOK, EndsKept
<1>3. ASSUME NEW q \in Requests, (Create(q) /\ FreeNumber(q)) \/ CreateSession(q)
      PROVE  EndsKept
  BY <1>3, <1>2 DEF Create, CreateSession, FreeNumber
<1>4. ASSUME NEW k \in Tokens, session[k] # None,
             \/ session' = [session EXCEPT ![k].revoked = TRUE]
             \/ session' = [session EXCEPT ![k].expired = TRUE]
      PROVE  EndsKept
  <2>1. session[k] \in SessionRows
    BY <1>4, <1>t DEF TypeOK
  <2>2. /\ \/ session'[k] = [session[k] EXCEPT !.revoked = TRUE]
           \/ session'[k] = [session[k] EXCEPT !.expired = TRUE]
        /\ \A l \in Tokens \ {k} : session'[l] = session[l]
    BY <1>4, <1>t DEF TypeOK
  <2>3. /\ session[k].revoked => session'[k].revoked
        /\ session[k].expired => session'[k].expired
    BY <2>1, <2>2 DEF SessionRows
  <2> QED BY <2>2, <2>3 DEF EndsKept
<1>5. ASSUME NEW q \in Requests, SignOut(q) PROVE EndsKept
  <2>1. request[q].token \in Tokens /\ session[request[q].token] # None
    BY <1>5, <1>t DEF SignOut, Handles, Holds, At
  <2> QED BY <1>4, <1>5, <2>1 DEF SignOut, RevokeSession
<1>6. ASSUME NEW k \in Tokens, Expire(k) PROVE EndsKept
  BY <1>4, <1>6 DEF Expire
<1>7. ASSUME NEW q \in Requests, Updates(q) PROVE UNCHANGED session
  BY <1>7 DEF Updates, UpdateProfile, UpdatePaymentProfile, Write
<1> QED BY <1>1, <1>3, <1>5, <1>6, <1>7, RowSteps DEF rows

LEMMA ClientSteps ==
  ASSUME [Next]_vars
  PROVE  UNCHANGED clientVars \/ \E q \in Requests : Deliver(q)
<1>1. ASSUME NEW q \in Requests, NEW c \in Clients, NEW page \in Pages, Send(q, c, page)
      PROVE  UNCHANGED clientVars
  BY <1>1 DEF Send, SendOpen, SendProtected
<1>2. ASSUME NEW q \in Requests, Step(q) PROVE UNCHANGED clientVars \/ Deliver(q)
  BY <1>2 DEF Step, Create, FindAccount, CreateSession, Authenticate, Me, SignOut,
              UpdateProfile, UpdatePaymentProfile, Write, Reload, GetProfile, Fail
<1>3. ASSUME NEW k \in Tokens, Expire(k) PROVE UNCHANGED clientVars
  BY <1>3 DEF Expire
<1> QED BY <1>1, <1>2, <1>3 DEF Next, vars, clientVars

\* An answer with a token its client has not got yet.
Pending(q) == At(q, "answer") /\ request[q].kind \in OpenKinds

\* A request with a token of its client's.
Bearing(q) ==
  \/ request[q].stage \in {"auth", "handle", "reload"}
  \/ At(q, "answer") /\ request[q].kind \in ProtectedKinds

TokenOf(q) ==
  /\ Bearing(q) => request[q].token \in given[request[q].client]
  /\ At(q, "auth") /\ request[q].barred =>
       session[request[q].token].revoked \/ session[request[q].token].expired
  /\ Serving(q) => ~ request[q].barred
  /\ At(q, "reload") => request[q].kind # "signout"
  /\ At(q, "answer") /\ request[q].kind = "signout" => session[request[q].token].revoked
  /\ Pending(q) => \A c \in Clients : request[q].token \notin given[c]

PendingApart ==
  \A q, r \in Requests :
    q # r /\ Pending(q) /\ Pending(r) => request[q].token # request[r].token

GivenApart == \A c, d \in Clients : c # d => given[c] \cap given[d] = {}

EndedGiven ==
  \A k \in ended : /\ session[k] # None /\ session[k].revoked
                   /\ \E c \in Clients : k \in given[c]

TokensInv ==
  /\ \A q \in Requests : TokenOf(q)
  /\ PendingApart /\ GivenApart /\ EndedGiven /\ EndedCookiesAreCleared

\* What is known of a request's token outlives the steps of the others.
LEMMA TokenOfKept ==
  ASSUME RowsInv, RowsKept, EndsKept, NEW q \in Requests, TokenOf(q),
         request'[q] = request[q],
         \A c \in Clients : given[c] \subseteq given'[c],
         Pending(q) => \A c \in Clients : request[q].token \notin given'[c]
  PROVE  TokenOf(q)'
<1>1. At(q, "auth")' = At(q, "auth") /\ At(q, "answer")' = At(q, "answer")
      /\ At(q, "reload")' = At(q, "reload") /\ Serving(q)' = Serving(q)
      /\ Bearing(q)' = Bearing(q) /\ Pending(q)' = Pending(q)
  BY DEF At, Serving, Bearing, Pending
<1>2. Bearing(q) => /\ request[q].client \in Clients /\ request[q].token \in Tokens
                    /\ session[request[q].token] # None
  BY DEF Bearing, RowsInv, Holds, At
<1>3. (Bearing(q) => request[q].token \in given[request[q].client])'
  BY <1>1, <1>2 DEF TokenOf
<1>4. /\ (At(q, "auth") /\ request[q].barred =>
            session[request[q].token].revoked \/ session[request[q].token].expired)'
      /\ (At(q, "answer") /\ request[q].kind = "signout" =>
            session[request[q].token].revoked)'
  BY <1>1, <1>2 DEF TokenOf, EndsKept, Bearing, At, ProtectedKinds
<1> QED BY <1>1, <1>3, <1>4 DEF TokenOf

\* While no answer arrives, clients stay as they are and one request moves.
LEMMA QuietTokens ==
  ASSUME RowsInv, RowsInv', TokensInv, [Next]_vars, UNCHANGED clientVars
  PROVE  TokensInv'
<1>t. RowsKept /\ EndsKept /\ \A q \in Requests : Holds(q) /\ Holds(q)' /\ TokenOf(q)
  BY NextRowsKept, NextEndsKept DEF RowsInv, TokensInv
<1>c. given' = given /\ ended' = ended /\ cookie' = cookie
  BY DEF clientVars
<1>k. /\ given \in [Clients -> SUBSET Tokens] /\ ended \in SUBSET Tokens
      /\ \A c \in Clients : \A k \in given[c] : session[k] # None
  BY DEF RowsInv, TypeOK, GivenLive
<1>1. GivenApart' /\ EndedCookiesAreCleared'
  BY <1>c DEF TokensInv, GivenApart, EndedCookiesAreCleared
<1>2. EndedGiven'
  BY <1>c, <1>k, <1>t DEF TokensInv, EndedGiven, RowsKept, EndsKept
<1>3. ASSUME NEW q \in Requests, request'[q] = request[q] PROVE TokenOf(q)'
  BY <1>3, <1>t, <1>c, TokenOfKept DEF TokenOf
<1>4. ASSUME NEW q \in Requests, Moves(q) PROVE TokenOf(q)'
  <2>0. request[q].stage \in {"auth", "handle", "reload"} =>
          /\ request[q].kind \in ProtectedKinds
          /\ request[q].client \in Clients /\ request[q].token \in Tokens
          /\ session[request[q].token] # None
    BY <1>t DEF Holds, At
  <2>1. CASE Rests(q) \/ Names(q)
    BY <2>1 DEF Rests, Names, IdleRequest, TokenOf, At, Serving, Bearing, Pending
  <2>2. CASE Presents(q)
    <3>1. /\ request'[q].stage = "auth"
          /\ request'[q].token \in given[request'[q].client]
          /\ request'[q].token \in Tokens /\ session[request'[q].token] # None
      BY <2>2, <1>k DEF Presents
    <3>2. request'[q].barred =>
            session'[request'[q].token].revoked \/ session'[request'[q].token].expired
      BY <2>2, <3>1, <1>t DEF Presents, TokensInv, EndedGiven, EndsKept, Expired
    <3> QED BY <3>1, <3>2, <1>c DEF TokenOf, At, Serving, Bearing, Pending
  <2>3. CASE Enters(q)
    <3>1. ~ request[q].barred
      BY <2>3, <1>t DEF Enters, TokenOf, GetBySessionHash
    <3> QED BY <2>0, <2>3, <3>1, <1>t, <1>c
            DEF Enters, Carries, TokenOf, At, Serving, Bearing, Pending
  <2>4. CASE Serves(q)
    <3>1. ~ request[q].barred
      BY <2>0, <2>4, <1>t DEF Serves, TokenOf, At, Serving
    <3>2. request[q].kind \notin OpenKinds
      BY <2>0, <2>4 DEF Serves, At, OpenKinds, ProtectedKinds
    <3> QED BY <2>0, <2>4, <3>1, <3>2, <1>t, <1>c
            DEF Serves, Carries, TokenOf, At, Serving, Bearing, Pending
  <2>5. CASE Opens(q)
    <3>1. request'[q].kind \in OpenKinds /\ request'[q].stage = "answer"
      BY <2>5, <1>t DEF Opens, Holds
    <3>2. \A c \in Clients : request'[q].token \notin given'[c]
      BY <2>5, <1>c, <1>k DEF Opens
    <3> QED BY <3>1, <3>2
            DEF TokenOf, At, Serving, Bearing, Pending, OpenKinds, ProtectedKinds
  <2> QED BY <1>4, <2>1, <2>2, <2>3, <2>4, <2>5 DEF Moves
<1>5. PendingApart'
  <2>1. CASE UNCHANGED request
    BY <2>1 DEF TokensInv, PendingApart, Pending, At
  <2>2. ASSUME NEW q \in Requests, Moves(q), Alone(q) PROVE PendingApart'
    <3>1. ASSUME Pending(q)' PROVE Opens(q)
      <4>1. ~ Rests(q) /\ ~ Names(q) /\ ~ Presents(q) /\ ~ Enters(q)
        BY <3>1 DEF Pending, At, Rests, IdleRequest, Names, Presents, Enters
      <4>2. ~ Serves(q)
        BY <3>1, <1>t DEF Serves, Carries, Pending, At, Holds, OpenKinds, ProtectedKinds
      <4> QED BY <2>2, <4>1, <4>2 DEF Moves
    <3>2. \A r \in Requests \ {q} :
            /\ Pending(r)' = Pending(r) /\ request'[r].token = request[r].token
            /\ Pending(r) => session[request[r].token] # None
      BY <2>2, <1>t DEF Alone, Pending, At, Holds
    <3>3. \A r \in Requests \ {q} :
            Pending(q)' /\ Pending(r)' => request'[q].token # request'[r].token
      BY <3>1, <3>2 DEF Opens
    <3> QED BY <3>2, <3>3 DEF TokensInv, PendingApart
  <2> QED BY <2>1, <2>2, RequestSteps
<1>6. \A q \in Requests : TokenOf(q)'
  BY <1>3, <1>4, RequestSteps DEF Alone
<1> QED BY <1>1, <1>2, <1>5, <1>6 DEF TokensInv

LEMMA DeliverTokens ==
  ASSUME RowsInv, RowsInv', TokensInv, NEW q \in Requests, Deliver(q)
  PROVE  TokensInv'
<1> DEFINE c == request[q].client
           k == request[q].token
<1>t. /\ TypeOK /\ \A r \in Requests : Holds(r) /\ TokenOf(r)
      /\ c \in Clients /\ k \in Tokens /\ session[k] # None /\ At(q, "answer")
      /\ request[q].kind \in OpenKinds \cup ProtectedKinds
  BY DEF RowsInv, TokensInv, Deliver, Holds, At
<1>k. /\ given \in [Clients -> SUBSET Tokens] /\ cookie \in [Clients -> Tokens \cup {None}]
      /\ request \in [Requests -> RequestRows]
  BY <1>t DEF TypeOK
<1>r. /\ session' = session /\ account' = account
      /\ request'[q] = IdleRequest
      /\ \A r \in Requests \ {q} : request'[r] = request[r]
  BY <1>k DEF Deliver, Idle, rows
<1>e. RowsKept /\ EndsKept
  BY <1>r DEF RowsKept, EndsKept
<1>1. CASE Pending(q)
  <2>1. /\ \A d \in Clients : given'[d] = IF d = c THEN given[d] \cup {k} ELSE given[d]
        /\ \A d \in Clients : cookie'[d] = IF d = c THEN k ELSE cookie[d]
        /\ ended' = ended
    BY <1>1, <1>k, <1>t DEF Deliver, Pending, NextCookie, OpenKinds
  <2>2. \A d \in Clients : k \notin given[d]
    BY <1>1, <1>t DEF TokenOf
  <2>3. GivenApart' /\ EndedGiven'
    <3>1. ASSUME NEW d \in Clients, NEW e \in Clients, d # e
          PROVE  given'[d] \cap given'[e] = {}
      <4>1. given[d] \cap given[e] = {}
        BY <3>1 DEF TokensInv, GivenApart
      <4> HIDE DEF c, k
      <4> QED BY <2>1, <2>2, <3>1, <4>1
    <3>2. ASSUME NEW l \in ended'
          PROVE  /\ session'[l] # None /\ session'[l].revoked
                 /\ \E d \in Clients : l \in given'[d]
      <4>1. /\ session[l] # None /\ session[l].revoked
            /\ \E d \in Clients : l \in given[d]
        BY <2>1 DEF TokensInv, EndedGiven
      <4> HIDE DEF c, k
      <4> QED BY <2>1, <4>1, <1>r
    <3> QED BY <3>1, <3>2 DEF GivenApart, EndedGiven
  <2>4. EndedCookiesAreCleared'
    <3>1. k \notin ended
      BY <2>2 DEF TokensInv, EndedGiven
    <3>2. ASSUME NEW d \in Clients, cookie'[d] # None
          PROVE  cookie'[d] \in given'[d] \ ended'
      <4>1. cookie[d] # None => cookie[d] \in given[d] \ ended
        BY DEF TokensInv, EndedCookiesAreCleared
      <4> QED BY <2>1, <3>1, <3>2, <4>1
    <3> QED BY <3>2 DEF EndedCookiesAreCleared
  <2>5. ASSUME NEW r \in Requests \ {q} PROVE TokenOf(r)'
    <3>1. Pending(r) => \A d \in Clients : request[r].token \notin given'[d]
      <4>1. Pending(r) => request[r].token # k
        BY <1>1 DEF TokensInv, PendingApart
      <4>2. Pending(r) => \A d \in Clients : request[r].token \notin given[d]
        BY <1>t DEF TokenOf
      <4> QED BY <2>1, <4>1, <4>2
    <3> HIDE DEF c, k
    <3>2. \A d \in Clients : given[d] \subseteq given'[d]
      BY <2>1
    <3> QED BY <3>1, <3>2, <1>t, <1>e, <1>r, TokenOfKept
  <2> QED BY <2>3, <2>4, <2>5, <1>r DEF TokensInv, TokenOf, PendingApart, Pending, Bearing,
          Serving, At, IdleRequest
<1>2. CASE request[q].kind \in ProtectedKinds
  <2>1. given' = given
    BY <1>2, <1>k, <1>t DEF Deliver, OpenKinds, ProtectedKinds
  <2>2. k \in given[c] /\ \A d \in Clients \ {c} : k \notin given[d]
    BY <1>2, <1>t DEF TokenOf, Bearing, TokensInv, GivenApart
  <2>3. \/ /\ request[q].kind = "signout" /\ ended' = ended \cup {k}
           /\ session[k].revoked
           /\ \A d \in Clients : cookie'[d] = IF d = c THEN None ELSE cookie[d]
        \/ ended' = ended /\ cookie' = cookie
    BY <1>2, <1>k, <1>t DEF Deliver, NextCookie, TokenOf, OpenKinds, ProtectedKinds
  <2>4. EndedGiven'
    BY <2>1, <2>2, <2>3, <1>r, <1>t DEF TokensInv, EndedGiven
  <2>5. EndedCookiesAreCleared'
    BY <2>1, <2>2, <2>3, <1>t DEF TokensInv, EndedCookiesAreCleared
  <2>6. GivenApart'
    BY <2>1 DEF TokensInv, GivenApart
  <2>7. ASSUME NEW r \in Requests \ {q} PROVE TokenOf(r)'
    BY <2>1, <2>7, <1>t, <1>e, <1>r, TokenOfKept DEF TokenOf
  <2> QED BY <2>4, <2>5, <2>6, <2>7, <1>r DEF TokensInv, TokenOf, PendingApart, Pending,
          Bearing, Serving, At, IdleRequest
<1> QED BY <1>1, <1>2, <1>t DEF Pending

LEMMA TokensAlways == Spec => [](RowsInv /\ TokensInv)
<1>1. Init => TokensInv
  BY DEF Init, TokensInv, TokenOf, PendingApart, GivenApart, EndedGiven, Pending, Bearing,
         Serving, At, IdleRequest, EndedCookiesAreCleared
<1>2. RowsInv /\ TokensInv /\ [Next]_vars => (RowsInv /\ TokensInv)'
  BY NextRowsInv, ClientSteps, QuietTokens, DeliverTokens
<1> QED BY <1>1, <1>2, InitRowsInv, PTL DEF Spec

\* A session whose end was answered, or whose time had passed, serves nothing
\* that is sent afterwards.
THEOREM EndedServeNothingAlways == Spec => []EndedSessionsServeNothing
<1>1. TokensInv => EndedSessionsServeNothing
  BY DEF TokensInv, TokenOf, EndedSessionsServeNothing
<1> QED BY <1>1, TokensAlways, PTL

\* No client keeps the cookie of a session whose end it was told of.
THEOREM CookiesClearedAlways == Spec => []EndedCookiesAreCleared
<1>1. TokensInv => EndedCookiesAreCleared
  BY DEF TokensInv
<1> QED BY <1>1, TokensAlways, PTL

\* Whoever is told to be signed in has a session of the account the number and
\* the password of the request belong to.
THEOREM SignedInAlways == Spec => []SignedInAsNamed
<1>1. Init => SignedInAsNamed
  BY DEF Init, SignedInAsNamed, At, IdleRequest
<1>2. RowsInv /\ SignedInAsNamed /\ [Next]_vars => SignedInAsNamed'
  <2> SUFFICES ASSUME RowsInv, SignedInAsNamed, [Next]_vars, NEW q \in Requests, Pending(q)'
               PROVE  /\ session'[request'[q].token] # None
                      /\ LET a == session'[request'[q].token].account
                         IN  /\ account'[a].number = NewAccount(q)'.number
                             /\ account'[a].password = NewAccount(q)'.password
    BY DEF SignedInAsNamed, Pending
  <2>t. RowsInv' /\ RowsKept /\ Holds(q) /\ Holds(q)' /\ TypeOK
    BY NextRowsInv, NextRowsKept DEF RowsInv
  <2>1. CASE request'[q] = request[q]
    <3>1. Pending(q) /\ NewAccount(q)' = NewAccount(q)
      BY <2>1 DEF Pending, At, NewAccount
    <3>2. request[q].token \in Tokens /\ session[request[q].token] # None
      BY <3>1, <2>t DEF Pending, Holds, At
    <3>3. /\ session[request[q].token].account \in AccountIds
          /\ account[session[request[q].token].account] # None
      BY <3>2, <2>t DEF RowsInv, TypeOK, SessionRows, SessionsBelong
    <3>4. /\ account[session[request[q].token].account].number = NewAccount(q).number
          /\ account[session[request[q].token].account].password = NewAccount(q).password
      BY <3>1 DEF SignedInAsNamed, Pending
    <3> QED BY <2>1, <3>1, <3>2, <3>3, <3>4, <2>t DEF RowsKept
  <2>2. CASE Moves(q)
    <3>1. Opens(q)
      <4>1. ~ Rests(q) /\ ~ Names(q) /\ ~ Presents(q) /\ ~ Enters(q)
        BY DEF Pending, At, Rests, IdleRequest, Names, Presents, Enters
      <4>2. ~ Serves(q)
        BY <2>t DEF Serves, Carries, Pending, At, Holds, OpenKinds, ProtectedKinds
      <4> QED BY <2>2, <4>1, <4>2 DEF Moves
    <3>2. NewAccount(q)' = NewAccount(q)
      BY <3>1 DEF Opens, NewAccount
    <3>3. session'[request'[q].token] # None
      BY <2>t DEF Pending, Holds, At
    <3> QED BY <3>1, <3>2, <3>3 DEF Opens
  <2> QED BY <2>1, <2>2, RequestSteps DEF Alone
<1> QED BY <1>1, <1>2, RowsAlways, PTL DEF Spec

\* Signing out ends the presented session alone.
THEOREM OtherDevicesStayAlways == Spec => OtherDevicesStay
<1>1. RowsInv /\ [Next]_vars =>
        \A k \in Tokens :
          session[k] # None /\ ~ session[k].revoked /\ session'[k].revoked =>
            \E q \in Requests : Handles(q, "signout") /\ request[q].token = k
  <2> SUFFICES ASSUME RowsInv, [Next]_vars, NEW k \in Tokens,
                      session[k] # None, ~ session[k].revoked, session'[k].revoked
               PROVE  \E q \in Requests : Handles(q, "signout") /\ request[q].token = k
    OBVIOUS
  <2>t. TypeOK /\ session[k] \in SessionRows
    BY DEF RowsInv, TypeOK
  <2>1. CASE UNCHANGED session
    BY <2>1
  <2>2. ASSUME NEW q \in Requests, (Create(q) /\ FreeNumber(q)) \/ CreateSession(q)
        PROVE  session'[k] = session[k]
    BY <2>2, <2>t DEF Create, CreateSession, FreeNumber, TypeOK
  <2>3. ASSUME NEW q \in Requests, SignOut(q)
        PROVE  Handles(q, "signout") /\ (request[q].token = k \/ session'[k] = session[k])
    BY <2>3, <2>t DEF SignOut, RevokeSession, TypeOK
  <2>4. ASSUME NEW l \in Tokens, Expire(l) PROVE ~ session'[k].revoked
    <3>1. session'[k] = session[k] \/ session'[k] = [session[k] EXCEPT !.expired = TRUE]
      BY <2>4, <2>t DEF Expire, TypeOK
    <3> QED BY <3>1, <2>t DEF SessionRows
  <2>5. ASSUME NEW q \in Requests, Updates(q) PROVE UNCHANGED session
    BY <2>5 DEF Updates, UpdateProfile, UpdatePaymentProfile, Write
  <2> QED BY <2>1, <2>2, <2>3, <2>4, <2>5, RowSteps DEF rows
<1> QED BY <1>1, RowsAlways, PTL DEF Spec, OtherDevicesStay

-----------------------------------------------------------------------------
(* Profiles.                                                               *)

\* Saving payout addresses leaves the rest of the row alone.
THEOREM BioKeptAlways == Spec => BioKeptByPayments
<1>1. RowsInv /\ [Next]_vars =>
        \A a \in AccountIds :
          profile[a] # None /\ profile'[a].bio # profile[a].bio =>
            \E q \in Requests : Handles(q, "put_profile") /\ request[q].account = a
  <2> SUFFICES ASSUME RowsInv, [Next]_vars, NEW a \in AccountIds,
                      profile[a] # None, profile'[a].bio # profile[a].bio
               PROVE  \E q \in Requests : Handles(q, "put_profile") /\ request[q].account = a
    OBVIOUS
  <2>t. TypeOK /\ ProfilesBelong /\ profile[a] \in Fields
    BY DEF RowsInv, TypeOK
  <2>1. CASE UNCHANGED profile
    BY <2>1
  <2>2. ASSUME NEW q \in Requests, Create(q), FreeNumber(q)
        PROVE  profile'[a] = profile[a]
    BY <2>2, <2>t DEF Create, FreeNumber, TypeOK, ProfilesBelong
  <2>3. ASSUME NEW q \in Requests, NEW payout, UpdatePaymentProfile(q, payout)
        PROVE  profile'[a].bio = profile[a].bio
    <3>1. profile' = [profile EXCEPT ![request[q].account] =
                        WithPayout(profile[request[q].account], payout)]
      BY <2>3 DEF UpdatePaymentProfile, Write
    <3>2. profile'[a] = profile[a] \/ profile'[a] = WithPayout(profile[a], payout)
      BY <3>1, <2>t DEF TypeOK
    <3> QED BY <3>2, <2>t DEF WithPayout, Fields
  <2>4. ASSUME NEW q \in Requests, NEW bio, NEW payout, UpdateProfile(q, bio, payout)
        PROVE  /\ Handles(q, "put_profile")
               /\ request[q].account = a \/ profile'[a] = profile[a]
    BY <2>4, <2>t DEF UpdateProfile, Write, TypeOK
  <2>5. ASSUME NEW q \in Requests,
               CreateSession(q) \/ SignOut(q) \/ (\E k \in Tokens : Expire(k))
        PROVE  UNCHANGED profile
    BY <2>5 DEF CreateSession, SignOut, Expire
  <2>6. CASE \E k \in Tokens : Expire(k)
    BY <2>1, <2>6 DEF Expire
  <2> QED BY <2>1, <2>2, <2>3, <2>4, <2>5, <2>6, RowSteps DEF Updates, rows
<1> QED BY <1>1, RowsAlways, PTL DEF Spec, BioKeptByPayments

\* What a profile update wrote is in the row until it is read back, unless it
\* was overwritten.
UpdatesStand ==
  \A q \in Requests :
    /\ At(q, "reload") /\ edit[q].written # None =>
         profile[request[q].account] = edit[q].written
    /\ request[q].stage \notin {"reload", "answer"} => edit[q].written = None

EditInv == UpdatesStand /\ AnswersShowTheUpdate

LEMMA NextEditInv == RowsInv /\ EditInv /\ [Next]_vars => EditInv'
<1> SUFFICES ASSUME RowsInv, EditInv, [Next]_vars PROVE EditInv'
  OBVIOUS
<1>t. /\ TypeOK /\ ProfilesBelong /\ \A q \in Requests : Holds(q)
      /\ UpdatesStand /\ AnswersShowTheUpdate
  BY DEF RowsInv, EditInv
<1>f. /\ request \in [Requests -> RequestRows] /\ edit \in [Requests -> EditRows]
      /\ profile \in [AccountIds -> Fields \cup {None}]
  BY <1>t DEF TypeOK
<1>a. \A q \in Requests : At(q, "reload") =>
        request[q].account \in AccountIds /\ account[request[q].account] # None
  <2>1. \A q \in Requests : At(q, "reload") => Serving(q)
    BY <1>t DEF At, Serving, Holds
  <2> QED BY <2>1, ServingAccount
\* Steps of requests that update nothing.
<1>1. ASSUME UNCHANGED edit,
             \A a \in AccountIds : account[a] # None => profile'[a] = profile[a],
             \A q \in Requests :
               \/ request'[q] = request[q]
               \/ request[q].stage \notin {"reload", "answer"} /\ request'[q].stage # "reload"
      PROVE  EditInv'
  BY <1>1, <1>a, <1>t DEF EditInv, UpdatesStand, AnswersShowTheUpdate, At
<1>2. ASSUME NEW q \in Requests, Idle(q), UNCHANGED rows PROVE EditInv'
  <2>1. /\ request'[q] = IdleRequest /\ edit'[q] = IdleEdit /\ profile' = profile
        /\ \A r \in Requests \ {q} : request'[r] = request[r] /\ edit'[r] = edit[r]
    BY <1>2, <1>f DEF Idle, rows
  <2> QED BY <2>1, <1>t
          DEF EditInv, UpdatesStand, AnswersShowTheUpdate, At, IdleRequest, IdleEdit
<1>3. ASSUME NEW q \in Requests, Reload(q) PROVE EditInv'
  <2>1. /\ request'[q] = [request[q] EXCEPT !.stage = "answer"]
        /\ edit'[q] = [edit[q] EXCEPT !.reply = profile[request[q].account]]
        /\ At(q, "reload") /\ profile' = profile
        /\ \A r \in Requests \ {q} : request'[r] = request[r] /\ edit'[r] = edit[r]
    BY <1>3, <1>f DEF Reload, Answer, rows, OwnProfile
  <2>2. /\ request'[q].stage = "answer" /\ edit'[q].written = edit[q].written
        /\ edit'[q].reply = profile[request[q].account]
    BY <2>1, <1>f DEF RequestRows, EditRows
  <2>3. edit'[q].written # None => edit'[q].reply = edit'[q].written
    BY <2>1, <2>2, <1>t DEF UpdatesStand
  <2>4. ASSUME NEW r \in Requests \ {q}
        PROVE  /\ At(r, "reload")' /\ edit'[r].written # None =>
                    profile'[request'[r].account] = edit'[r].written
               /\ request'[r].stage \notin {"reload", "answer"} => edit'[r].written = None
               /\ At(r, "answer")' /\ edit'[r].written # None =>
                    edit'[r].reply = edit'[r].written
    <3>1. /\ request'[r] = request[r] /\ edit'[r] = edit[r] /\ profile' = profile
          /\ r \in Requests
      BY <2>1
    <3> QED BY <3>1, <1>t DEF UpdatesStand, AnswersShowTheUpdate, At
  <2>5. UpdatesStand'
    BY <2>2, <2>4 DEF UpdatesStand, At
  <2>6. AnswersShowTheUpdate'
    BY <2>2, <2>3, <2>4 DEF AnswersShowTheUpdate, At
  <2> QED BY <2>5, <2>6 DEF EditInv
<1>4. ASSUME NEW q \in Requests, NEW new \in Fields, Write(q, new), At(q, "handle")
      PROVE  EditInv'
  <2>1. /\ request'[q] = [request[q] EXCEPT !.stage = "reload"]
        /\ edit'[q] = [IdleEdit EXCEPT !.written = new]
        /\ \A r \in Requests \ {q} :
             /\ request'[r] = request[r]
             /\ edit'[r] = IF At(r, "reload") /\ request[r].account = request[q].account
                             THEN IdleEdit ELSE edit[r]
    BY <1>4, <1>f DEF Write
  <2>2. request[q].account \in AccountIds
    <3>1. Serving(q)
      BY <1>4, <1>t DEF Serving, At, Holds
    <3> QED BY <3>1, ServingAccount
  <2>3. \A a \in AccountIds : profile'[a] = IF a = request[q].account THEN new ELSE profile[a]
    BY <1>4, <1>f DEF Write
  <2>4. /\ request'[q].stage = "reload" /\ request'[q].account = request[q].account
        /\ edit'[q].written = new
    BY <2>1, <1>f DEF RequestRows, IdleEdit
  <2>5. IdleEdit.written = None
    BY DEF IdleEdit
  <2>6. ASSUME NEW r \in Requests \ {q}
        PROVE  /\ At(r, "reload")' /\ edit'[r].written # None =>
                    profile'[request'[r].account] = edit'[r].written
               /\ request'[r].stage \notin {"reload", "answer"} => edit'[r].written = None
               /\ At(r, "answer")' /\ edit'[r].written # None =>
                    edit'[r].reply = edit'[r].written
    BY <2>1, <2>3, <2>5, <1>a, <1>t DEF UpdatesStand, AnswersShowTheUpdate, At
  <2> QED BY <2>2, <2>3, <2>4, <2>6 DEF EditInv, UpdatesStand, AnswersShowTheUpdate, At
\* The other steps, one by one.
<1>5. ASSUME NEW q \in Requests, NEW c \in Clients, NEW page \in Pages, Send(q, c, page)
      PROVE  EditInv'
  <2>1. /\ At(q, "idle") /\ UNCHANGED <<profile, edit>>
    BY <1>5 DEF Send, SendOpen, SendProtected, rows
  <2>2. request'[q].stage # "reload" /\ \A r \in Requests \ {q} : request'[r] = request[r]
    <3>1. ASSUME NEW kind, NEW text, NEW password, SendOpen(q, c, kind, page, text, password)
          PROVE  /\ request'[q].stage # "reload"
                 /\ \A r \in Requests \ {q} : request'[r] = request[r]
      BY <3>1, <1>f DEF SendOpen, IdleRequest
    <3>2. ASSUME NEW kind, NEW k, SendProtected(q, c, kind, page, k)
          PROVE  /\ request'[q].stage # "reload"
                 /\ \A r \in Requests \ {q} : request'[r] = request[r]
      BY <3>2, <1>f DEF SendProtected, IdleRequest
    <3> QED BY <1>5, <3>1, <3>2 DEF Send
  <2> QED BY <1>1, <2>1, <2>2 DEF At
<1>6. ASSUME NEW q \in Requests,
             \/ Create(q) /\ FreeNumber(q)
             \/ FindAccount(q) /\ ~ Refuse(q)
             \/ CreateSession(q)
             \/ Authenticate(q) /\ ~ Refuse(q)
             \/ SignOut(q)
      PROVE  EditInv'
  <2>1. request[q].stage \notin {"reload", "answer"} /\ UNCHANGED edit
    BY <1>6 DEF Create, FreeNumber, FindAccount, CreateSession, Authenticate, SignOut, At, Handles
  <2>2. \A r \in Requests \ {q} : request'[r] = request[r]
    BY <1>6, <1>f DEF Create, FreeNumber, FindAccount, CreateSession, Authenticate, SignOut, Answer
  <2>3. \A a \in AccountIds : account[a] # None => profile'[a] = profile[a]
    BY <1>6, <1>f DEF Create, FreeNumber, FindAccount, CreateSession, Authenticate, SignOut, rows
  <2>4. request'[q].stage # "reload"
    <3>1. PICK stage \in {"answer", "store", "handle"} :
            \/ \E a, k : request' = [request EXCEPT ![q].stage = stage, ![q].account = a,
                                                    ![q].token = k]
            \/ \E a : request' = [request EXCEPT ![q].stage = stage, ![q].account = a]
            \/ \E k : request' = [request EXCEPT ![q].stage = stage, ![q].token = k]
            \/ request' = [request EXCEPT ![q].stage = stage]
      BY <1>6 DEF Create, FreeNumber, FindAccount, CreateSession, Authenticate, SignOut, Answer
    <3> QED BY <3>1, <1>f DEF RequestRows
  <2> QED BY <1>1, <2>1, <2>2, <2>3, <2>4
<1>7. ASSUME NEW q \in Requests,
             \/ Create(q) /\ ~ FreeNumber(q)
             \/ FindAccount(q) /\ Refuse(q)
             \/ Authenticate(q) /\ Refuse(q)
             \/ Me(q) \/ GetProfile(q) \/ Deliver(q) \/ Fail(q)
      PROVE  EditInv'
  <2>1. Idle(q) /\ UNCHANGED rows
    BY <1>7 DEF Create, FreeNumber, FindAccount, Authenticate, Me, GetProfile, Deliver,
                Fail, Refuse
  <2> QED BY <1>2, <2>1
<1>8. ASSUME NEW q \in Requests, Updates(q) PROVE EditInv'
  BY <1>8, <1>4, UpdatesWriteFields DEF Updates
<1>9. ASSUME NEW k \in Tokens, Expire(k) PROVE EditInv'
  BY <1>9, <1>1 DEF Expire
<1>10. CASE UNCHANGED vars
  BY <1>10, <1>1 DEF vars, rows
<1>11. ASSUME NEW q \in Requests, Step(q) PROVE EditInv'
  <2>1. Create(q) \/ FindAccount(q) \/ Authenticate(q) => EditInv'
    BY <1>6, <1>7
  <2>2. CreateSession(q) \/ SignOut(q) => EditInv'
    BY <1>6
  <2>3. Me(q) \/ GetProfile(q) \/ Deliver(q) \/ Fail(q) => EditInv'
    BY <1>7
  <2>4. Reload(q) \/ Updates(q) => EditInv'
    BY <1>3, <1>8
  <2> QED BY <1>11, <2>1, <2>2, <2>3, <2>4 DEF Step, Updates
<1> QED BY <1>5, <1>9, <1>10, <1>11 DEF Next

\* The answer to an update shows it, unless another update came in between.
THEOREM AnswersShowAlways == Spec => []AnswersShowTheUpdate
<1>1. Init => EditInv
  BY DEF Init, EditInv, UpdatesStand, AnswersShowTheUpdate, At, IdleRequest, IdleEdit
<1>2. EditInv => AnswersShowTheUpdate
  BY DEF EditInv
<1> QED BY <1>1, <1>2, NextEditInv, RowsAlways, PTL DEF Spec
=============================================================================
