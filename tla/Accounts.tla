------------------------------ MODULE Accounts ------------------------------
(***************************************************************************)
(* Accounts, their sessions and their profiles behind the HTTP interface.  *)
(* A request passes the middleware, is authenticated by the session token  *)
(* its cookie carries, runs its handler's statements one by one beside     *)
(* other requests, and is answered; the answer may set or clear the        *)
(* client's cookie, and may be lost.                                       *)
(*                                                                         *)
(* Clients are external: each keeps the last cookie it was given and may   *)
(* go on presenting an earlier one.  A password stands for its bcrypt      *)
(* hash, a token for its SHA-256; newSession's 32 random bytes never       *)
(* repeat.  Time is one step: the expiry of a session.                     *)
(***************************************************************************)
EXTENDS Naturals, Sequences

CONSTANTS
  Texts,      \* phone numbers as they are typed: sequences of characters
  MinDigits, MaxDigits,  \* digits an international number may have
  Passwords,
  AccountIds,
  Tokens,     \* session tokens newSession can draw
  Clients,
  Requests,   \* requests that can be in flight at once
  Values,     \* what a bio or a payout address can be set to
  None

ASSUME AccountsAssumption ==
  /\ MinDigits \in Nat /\ MaxDigits \in Nat
  /\ \A text \in Texts : text \in Seq(STRING)
  /\ None \notin AccountIds /\ None \notin Tokens /\ None \notin Seq(STRING)

VARIABLES
  account,    \* account[a]: users row of a, or None
  profile,    \* profile[a]: volunteer_profiles row of a, or None
  session,    \* session[k]: user_sessions row of token k, or None
  cookie,     \* cookie[c]: the token in client c's cookie, or None
  given,      \* given[c]: tokens client c has been given so far
  ended,      \* tokens whose sign-out a client has been told of
  request,    \* request[q]: where request q is
  edit        \* edit[q]: the profile q wrote, if it is still so, and read back

rows == <<account, profile, session>>
clientVars == <<cookie, given, ended>>
vars == <<rows, clientVars, request, edit>>

-----------------------------------------------------------------------------
(* normalizePhoneNumber.                                                   *)

Digits == {"0", "1", "2", "3", "4", "5", "6", "7", "8", "9"}
Separators == {" ", "-", "(", ")"}

IsDigit(c) == c \in Digits
IsVisible(c) == c # " "

Significant(text) == SelectSeq(text, IsDigit)

\* Spaces do not count, wherever they are.
WellFormed(text) ==
  LET visible == SelectSeq(text, IsVisible)
  IN  /\ visible # <<>> /\ visible[1] = "+"
      /\ \A i \in 2..Len(visible) : visible[i] \in Digits \cup Separators
      /\ Len(Significant(text)) \in MinDigits..MaxDigits

\* Faulty variant: what was typed is stored.
NormalizeNothing(text) == IF WellFormed(text) THEN text ELSE None

NormalizePhoneNumber(text) ==
  IF WellFormed(text) THEN <<"+">> \o Significant(text) ELSE None

Numbers == {NormalizePhoneNumber(text) : text \in Texts} \ {None}

-----------------------------------------------------------------------------
(* Requests.                                                               *)

OpenKinds == {"register", "signin"}
ProtectedKinds == {"signout", "read", "put_profile", "put_payment"}

\* By its method; all but GET and OPTIONS do.
ChangesState(kind) == kind # "read"

\* Where a request comes from: a page of an allowed origin (or no page), a page
\* the browser calls cross-site, a page of an origin that is not listed.
Pages == {"own", "cross_site", "unlisted"}

BrowserSecurity(kind, page) ==
  /\ ChangesState(kind) => page # "cross_site"
  /\ ChangesState(kind) => page # "unlisted"

IdleRequest ==
  [stage |-> "idle", kind |-> None, client |-> None, text |-> None,
   password |-> None, token |-> None, account |-> None,
   barred |-> FALSE]  \* its session had ended when it was sent

IdleEdit == [written |-> None, reply |-> None]

Blank == [bio |-> None, payout |-> None]

AccountRows == [number: Numbers, password: Passwords, typed: Texts]
Fields == [bio: Values \cup {None}, payout: Values \cup {None}]
SessionRows == [account: AccountIds, revoked: BOOLEAN, expired: BOOLEAN]

ASSUME RowsAssumption ==
  None \notin AccountRows /\ None \notin Fields /\ None \notin SessionRows

Stages == {"idle", "create", "find", "store", "auth", "handle", "reload", "answer"}

RequestRows ==
  [stage: Stages, kind: OpenKinds \cup ProtectedKinds \cup {None},
   client: Clients \cup {None}, text: Texts \cup {None},
   password: Passwords \cup {None}, token: Tokens \cup {None},
   account: AccountIds \cup {None}, barred: BOOLEAN]

EditRows == [written: Fields \cup {None}, reply: Fields \cup {None}]

TypeOK ==
  /\ account \in [AccountIds -> AccountRows \cup {None}]
  /\ profile \in [AccountIds -> Fields \cup {None}]
  /\ session \in [Tokens -> SessionRows \cup {None}]
  /\ cookie \in [Clients -> Tokens \cup {None}]
  /\ given \in [Clients -> SUBSET Tokens]
  /\ ended \in SUBSET Tokens
  /\ request \in [Requests -> RequestRows]
  /\ edit \in [Requests -> EditRows]

Init ==
  /\ account = [a \in AccountIds |-> None]
  /\ profile = [a \in AccountIds |-> None]
  /\ session = [k \in Tokens |-> None]
  /\ cookie = [c \in Clients |-> None]
  /\ given = [c \in Clients |-> {}]
  /\ ended = {}
  /\ request = [q \in Requests |-> IdleRequest]
  /\ edit = [q \in Requests |-> IdleEdit]

At(q, stage) == request[q].stage = stage

Idle(q) == /\ request' = [request EXCEPT ![q] = IdleRequest]
           /\ edit' = [edit EXCEPT ![q] = IdleEdit]

\* An answer the client keeps nothing of (a refusal, a read) is the end of the
\* request; the others travel.
Refuse(q) == Idle(q)

Answer(q) == request' = [request EXCEPT ![q].stage = "answer"]

\* Faulty variant: the number is not checked.
SendOpenUnchecked(q, c, kind, page, text, password) ==
  /\ At(q, "idle")
  /\ BrowserSecurity(kind, page)
  /\ request' = [request EXCEPT ![q] =
       [IdleRequest EXCEPT !.stage = IF kind = "register" THEN "create" ELSE "find",
                           !.kind = kind, !.client = c,
                           !.text = text, !.password = password]]
  /\ UNCHANGED <<rows, clientVars, edit>>

\* Registration and sign-in come with a number and a password; a text that is
\* no number is refused before any statement.
SendOpen(q, c, kind, page, text, password) ==
  /\ At(q, "idle")
  /\ BrowserSecurity(kind, page)
  /\ NormalizePhoneNumber(text) # None
  /\ request' = [request EXCEPT ![q] =
       [IdleRequest EXCEPT !.stage = IF kind = "register" THEN "create" ELSE "find",
                           !.kind = kind, !.client = c,
                           !.text = text, !.password = password]]
  /\ UNCHANGED <<rows, clientVars, edit>>

Expired(k) == session[k] # None /\ session[k].expired

\* Everything else comes with a token the client holds, or held.
SendProtected(q, c, kind, page, k) ==
  /\ At(q, "idle")
  /\ BrowserSecurity(kind, page)
  /\ request' = [request EXCEPT ![q] =
       [IdleRequest EXCEPT !.stage = "auth", !.kind = kind, !.client = c,
                           !.token = k,
                           !.barred = k \in ended \/ Expired(k)]]
  /\ UNCHANGED <<rows, clientVars, edit>>

-----------------------------------------------------------------------------
(* Register and SignIn.                                                    *)

Owner(number) == {a \in AccountIds : account[a] # None /\ account[a].number = number}

NewSession(a) == [account |-> a, revoked |-> FALSE, expired |-> FALSE]

\* The row's columns, and the text it was registered with, for the properties.
NewAccount(q) == [number |-> NormalizePhoneNumber(request[q].text),
                  password |-> request[q].password,
                  typed |-> request[q].text]

\* Faulty variant: the account is committed before its profile and session.
CreateInSteps(q) ==
  /\ At(q, "create")
  /\ Owner(NewAccount(q).number) = {}
  /\ \E a \in AccountIds :
       /\ account[a] = None
       /\ account' = [account EXCEPT ![a] = NewAccount(q)]
       /\ request' = [request EXCEPT ![q].stage = "find"]
  /\ UNCHANGED <<profile, session, clientVars, edit>>

\* Account, profile and first session in one transaction; a number that has an
\* account is a conflict.
Create(q) ==
  /\ At(q, "create")
  /\ IF Owner(NewAccount(q).number) # {}
       THEN Refuse(q) /\ UNCHANGED rows
       ELSE \E a \in AccountIds, k \in Tokens :
              /\ account[a] = None /\ session[k] = None
              /\ account' = [account EXCEPT ![a] = NewAccount(q)]
              /\ profile' = [profile EXCEPT ![a] = Blank]
              /\ session' = [session EXCEPT ![k] = NewSession(a)]
              /\ request' = [request EXCEPT ![q].stage = "answer",
                                            ![q].account = a, ![q].token = k]
              /\ UNCHANGED edit
  /\ UNCHANGED clientVars

\* GetByPhone and the comparison of the password.
FindAccount(q) ==
  /\ At(q, "find")
  /\ LET found == {a \in Owner(NormalizePhoneNumber(request[q].text)) :
                     account[a].password = request[q].password}
     IN  IF found = {}
           THEN Refuse(q)
           ELSE /\ \E a \in found :
                     request' = [request EXCEPT ![q].stage = "store",
                                                ![q].account = a]
                /\ UNCHANGED edit
  /\ UNCHANGED <<rows, clientVars>>

\* Faulty variant: the error of the insert is dropped.
CreateSessionIgnoreError(q) ==
  /\ At(q, "store")
  /\ \E k \in Tokens :
       /\ session[k] = None
       /\ request' = [request EXCEPT ![q].stage = "answer", ![q].token = k]
  /\ UNCHANGED <<rows, clientVars, edit>>

CreateSession(q) ==
  /\ At(q, "store")
  /\ \E k \in Tokens :
       /\ session[k] = None
       /\ session' = [session EXCEPT ![k] = NewSession(request[q].account)]
       /\ request' = [request EXCEPT ![q].stage = "answer", ![q].token = k]
  /\ UNCHANGED <<account, profile, clientVars, edit>>

-----------------------------------------------------------------------------
(* AuthMiddleware and SignOut.                                             *)

\* Faulty variant: revoked rows are found too.
FoundRevokedToo(k) == session[k] # None /\ ~ session[k].expired

\* GetBySessionHash: a row that is neither revoked nor expired.
GetBySessionHash(k) ==
  session[k] # None /\ ~ session[k].revoked /\ ~ session[k].expired

\* AuthService.Authenticate: the account of a live session, or None.
AuthenticatedUser(k) == IF GetBySessionHash(k) THEN session[k].account ELSE None

\* Faulty variant: the account is kept in a variable that requests share.
AuthenticateShared(q) ==
  /\ At(q, "auth")
  /\ LET user == AuthenticatedUser(request[q].token)
     IN  IF user = None
           THEN Refuse(q)
           ELSE /\ request' = [r \in Requests |->
                     IF r = q \/ At(r, "handle")
                       THEN [request[r] EXCEPT !.stage = "handle", !.account = user]
                       ELSE request[r]]
                /\ UNCHANGED edit
  /\ UNCHANGED <<rows, clientVars>>

\* AuthMiddleware: the account goes into the request's context.
Authenticate(q) ==
  /\ At(q, "auth")
  /\ LET user == AuthenticatedUser(request[q].token)
     IN  IF user = None
           THEN Refuse(q)
           ELSE /\ request' = [request EXCEPT ![q].stage = "handle",
                                              ![q].account = user]
                /\ UNCHANGED edit
  /\ UNCHANGED <<rows, clientVars>>

\* The handler of a request of this kind is next.
Handles(q, kind) == At(q, "handle") /\ request[q].kind = kind

\* The account is in the request's context already.
Me(q) ==
  /\ Handles(q, "read")
  /\ Idle(q)
  /\ UNCHANGED <<rows, clientVars>>

\* The presented session's row, revoked before or not.
RevokeSession(k) == [session EXCEPT ![k].revoked = TRUE]

SignOut(q) ==
  /\ Handles(q, "signout")
  /\ session' = RevokeSession(request[q].token)
  /\ Answer(q)
  /\ UNCHANGED <<account, profile, clientVars, edit>>

-----------------------------------------------------------------------------
(* Profiles.                                                               *)

\* Update: every editable column.
Replaced(bio, payout) == [bio |-> bio, payout |-> payout]

\* UpdatePaymentProfile: the payout addresses alone.
WithPayout(old, payout) == [old EXCEPT !.payout = payout]

\* At least one address must be given.
ValidPayout(payout) == payout # None

\* The row is written; requests of the same account that wrote before and have
\* still to reload will see this write instead of theirs.
Write(q, new) ==
  LET a == request[q].account
  IN  /\ profile' = [profile EXCEPT ![a] = new]
      /\ edit' = [r \in Requests |->
           IF r = q THEN [IdleEdit EXCEPT !.written = new]
           ELSE IF At(r, "reload") /\ request[r].account = a THEN IdleEdit
           ELSE edit[r]]
      /\ request' = [request EXCEPT ![q].stage = "reload"]
      /\ UNCHANGED <<account, session, clientVars>>

UpdateProfile(q, bio, payout) ==
  /\ Handles(q, "put_profile")
  /\ Write(q, Replaced(bio, payout))

UpdatePaymentProfile(q, payout) ==
  /\ Handles(q, "put_payment")
  /\ ValidPayout(payout)
  /\ Write(q, WithPayout(profile[request[q].account], payout))

\* Faulty variant: profiles are read from a cache of what was registered.
CachedProfile(q) == Blank

\* The account's row.
OwnProfile(q) == profile[request[q].account]

\* Both updates are answered with the profile as it is read back.
Reload(q) ==
  /\ At(q, "reload")
  /\ edit' = [edit EXCEPT ![q].reply = OwnProfile(q)]
  /\ Answer(q)
  /\ UNCHANGED <<rows, clientVars>>

\* Of the profile or its payout addresses; registration made the row.
GetProfile(q) ==
  /\ Handles(q, "read")
  /\ OwnProfile(q) # None
  /\ Idle(q)
  /\ UNCHANGED <<rows, clientVars>>

-----------------------------------------------------------------------------
(* Answers, failures and time.                                             *)

\* Faulty variant: the cookie is left alone by sign-out.
NextCookieNotCleared(q) ==
  IF request[q].kind \in OpenKinds THEN request[q].token
  ELSE cookie[request[q].client]

\* Registration and sign-in set the cookie, sign-out clears it.
NextCookie(q) ==
  IF request[q].kind \in OpenKinds THEN request[q].token
  ELSE IF request[q].kind = "signout" THEN None
  ELSE cookie[request[q].client]

Deliver(q) ==
  LET c == request[q].client
      k == request[q].token
  IN  /\ At(q, "answer")
      /\ cookie' = [cookie EXCEPT ![c] = NextCookie(q)]
      /\ given' = [given EXCEPT ![c] =
           IF request[q].kind \in OpenKinds THEN @ \cup {k} ELSE @]
      /\ ended' = IF request[q].kind = "signout"
                    THEN ended \cup {k} ELSE ended
      /\ Idle(q)
      /\ UNCHANGED rows

\* A statement fails or a handler panics (500), the answer is lost, or the
\* process dies with all it has in hand: what was committed stays.
Fail(q) ==
  /\ ~ At(q, "idle")
  /\ Idle(q)
  /\ UNCHANGED <<rows, clientVars>>

Expire(k) ==
  /\ session[k] # None /\ ~ session[k].expired
  /\ session' = [session EXCEPT ![k].expired = TRUE]
  /\ UNCHANGED <<account, profile, clientVars, request, edit>>

Step(q) ==
  \/ Create(q) \/ FindAccount(q) \/ CreateSession(q)
  \/ Authenticate(q) \/ Me(q) \/ SignOut(q)
  \/ \E bio, payout \in Values : UpdateProfile(q, bio, payout)
  \/ \E payout \in Values \cup {None} : UpdatePaymentProfile(q, payout)
  \/ Reload(q) \/ GetProfile(q)
  \/ Deliver(q) \/ Fail(q)

Send(q, c, page) ==
  \/ \E kind \in OpenKinds, text \in Texts, password \in Passwords :
       SendOpen(q, c, kind, page, text, password)
  \/ \E kind \in ProtectedKinds, k \in given[c] :
       SendProtected(q, c, kind, page, k)

Next ==
  \/ \E q \in Requests :
       Step(q) \/ \E c \in Clients, page \in Pages : Send(q, c, page)
  \/ \E k \in Tokens : Expire(k)

Spec == Init /\ [][Next]_vars

-----------------------------------------------------------------------------
(* Properties.                                                             *)

\* However a number is typed, and however registrations of it overlap, it gets
\* one account.
OneAccountPerNumber ==
  \A a, b \in AccountIds :
    /\ account[a] # None /\ account[b] # None
    /\ Significant(account[a].typed) = Significant(account[b].typed)
    => a = b

\* A partial registration never leaves an account its owner cannot use: every
\* account has its profile and a session, and sessions belong to accounts.
AccountsAreUsable ==
  /\ \A a \in AccountIds :
       account[a] # None =>
         /\ profile[a] # None
         /\ \E k \in Tokens : session[k] # None /\ session[k].account = a
  /\ \A k \in Tokens : session[k] # None => account[session[k].account] # None

\* Whoever is told to be signed in has a session, of the account with the
\* number and the password of the request.
SignedInAsNamed ==
  \A q \in Requests :
    At(q, "answer") /\ request[q].kind \in OpenKinds =>
      /\ session[request[q].token] # None
      /\ LET a == session[request[q].token].account
         IN  /\ account[a].number = NewAccount(q).number
             /\ account[a].password = NewAccount(q).password

\* A handler has been reached, of a request that needed a session.
Serving(q) ==
  /\ request[q].kind \in ProtectedKinds
  /\ request[q].stage \in {"handle", "reload", "answer"}

\* Every request acts for the account whose session its own cookie carried,
\* whichever requests are authenticated beside it.
ActsForCookieOwner ==
  \A q \in Requests :
    Serving(q) => /\ session[request[q].token] # None
                  /\ request[q].account = session[request[q].token].account

\* A request sent after its session had expired, or after its sign-out had been
\* answered, never reaches a handler.
EndedSessionsServeNothing ==
  \A q \in Requests : Serving(q) => ~ request[q].barred

\* Sign-out ends the presented session; other devices remain signed in.
OtherDevicesStay ==
  [][\A k \in Tokens :
       session[k] # None /\ ~ session[k].revoked /\ session'[k].revoked =>
         \E q \in Requests : Handles(q, "signout") /\ request[q].token = k]_vars

\* No client is left with the cookie of a session it was told has ended.
EndedCookiesAreCleared ==
  \A c \in Clients : cookie[c] # None => cookie[c] \in given[c] \ ended

\* Only an update of the whole profile changes the bio: saving payout addresses
\* overwrites nothing else, whatever it overlaps with.
BioKeptByPayments ==
  [][\A a \in AccountIds :
       profile[a] # None /\ profile'[a].bio # profile[a].bio =>
         \E q \in Requests :
           Handles(q, "put_profile") /\ request[q].account = a]_vars

\* An update is answered with the profile as it left it, unless another update
\* of the account came in between.
AnswersShowTheUpdate ==
  \A q \in Requests :
    At(q, "answer") /\ edit[q].written # None =>
      edit[q].reply = edit[q].written
=============================================================================
