------------------------------- MODULE Sessions -------------------------------
(***************************************************************************)
(* Accounts and the sessions of the web console: the service that issues   *)
(* and verifies tokens (services/api/app/services/auth_service.py), the    *)
(* provider component that keeps a session in a browser                    *)
(* (apps/frontend/lib/auth.tsx) and the request function that ends it      *)
(* (apps/frontend/lib/api.ts).                                             *)
(*                                                                         *)
(* The tabs of a browser share the stored token and user; each has a user  *)
(* of its own on the screen and its own requests under way.  An answer may *)
(* come after the tab, or another one, has logged out or in again.         *)
(***************************************************************************)
EXTENDS Naturals, Sequences

CONSTANTS
  Tabs,        \* the tabs of one browser
  FormTabs,    \* bound: those in which someone logs in or registers
  Usernames,
  Ids,         \* user ids that uuid4 will yield
  None,        \* null
  MaxTokens,   \* bound on the tokens issued
  MaxProfiles  \* bound on the profile requests under way at once, in all tabs

ASSUME ConstantsAssumption ==
  /\ FormTabs \subseteq Tabs
  /\ None \notin Ids \union Usernames
  /\ MaxTokens \in Nat \ {0}
  /\ MaxProfiles \in Nat \ {0}

VARIABLES
  accounts,   \* the table users
  issued,     \* the user of each token, in the order they were issued
  expired,    \* the tokens whose exp has passed
  storage,    \* gmf_token and gmf_user in the local storage
  tab         \* what each tab shows and waits for

vars == <<accounts, issued, expired, storage, tab>>

-----------------------------------------------------------------------------

Tokens == 0..MaxTokens   \* 0: no token

UserRow == [id : Ids, username : Usernames]

Slots == 1..MaxProfiles

\* A profile request under way, with the token it carries.  alive: it had not expired when
\* the request was sent.  stored: there was a stored user then.  slot: tells the
\* requests apart.
Request == [slot : Slots, token : Tokens, alive : BOOLEAN, stored : BOOLEAN]

\* The login or registration form.
Form == [stage : {"none", "login", "register", "checked", "accepted"},
         username : Usernames \union {None}, id : Ids \union {None}, token : Tokens]

NoForm == [stage |-> "none", username |-> None, id |-> None, token |-> 0]

\* me: the profile requests of the effect.  data: the token of a request of the page.
Tab == [user : Ids \union {None}, loading : BOOLEAN, me : SUBSET Request,
        data : SUBSET Tokens, form : Form]

Alive(token) == token # 0 /\ token \notin expired

-----------------------------------------------------------------------------

EmptyTab == [user |-> None, loading |-> FALSE, me |-> {}, data |-> {}, form |-> NoForm]

\* A browser with nothing stored, or with a token whose stored user does not parse.
Init ==
  /\ \E a \in UserRow :
       \/ accounts = {} /\ issued = <<>> /\ storage = [token |-> 0, user |-> None]
       \/ accounts = {a} /\ issued = <<a.id>> /\ storage = [token |-> 1, user |-> None]
  /\ expired \in SUBSET DOMAIN issued
  /\ tab = [t \in Tabs |-> EmptyTab]

Server == <<accounts, issued, expired>>

clearAuth == storage' = [token |-> 0, user |-> None]

storeAuth(token, user) == storage' = [token |-> token, user |-> user]

Expire ==
  /\ \E k \in DOMAIN issued \ expired : expired' = expired \union {k}
  /\ UNCHANGED <<accounts, issued, storage, tab>>

-----------------------------------------------------------------------------
(* The service.                                                              *)

_create_token(id) == Len(issued) < MaxTokens /\ issued' = Append(issued, id)

Answers(t, stage, id, token) ==
  tab' = [tab EXCEPT ![t].form = [@ EXCEPT !.stage = stage, !.id = id, !.token = token]]

\* The user is there and the password is right.  (Otherwise: FormRefused.)
login(t) ==
  /\ tab[t].form.stage = "login"
  /\ \E a \in accounts :
       /\ a.username = tab[t].form.username
       /\ _create_token(a.id)
       /\ Answers(t, "accepted", a.id, Len(issued'))
  /\ UNCHANGED <<accounts, expired, storage>>

\* uuid4 yields an id that nobody has.
FreshIds == Ids \ ({a.id : a \in accounts} \union {tab[t].form.id : t \in Tabs})

UsernameExists(username) == \E a \in accounts : a.username = username

\* Mutant: the row is inserted without an id.
RegisterChecks_without_id(t) ==
  /\ tab[t].form.stage = "register"
  /\ ~UsernameExists(tab[t].form.username)
  /\ Answers(t, "checked", None, 0)
  /\ UNCHANGED <<Server, storage>>

\* The name is looked up before the password is hashed; another server may insert it
\* meanwhile.
RegisterChecks(t) ==
  /\ tab[t].form.stage = "register"
  /\ ~UsernameExists(tab[t].form.username)
  /\ \E id \in FreshIds : Answers(t, "checked", id, 0)
  /\ UNCHANGED <<Server, storage>>

\* Mutant: the column username is not unique.
UsernameIsFree_unchecked(username) == TRUE

\* The unique index of the column username: an insert that breaks it raises, and the request
\* fails without a token.
UsernameIsFree(username) == ~UsernameExists(username)

register(t) ==
  /\ tab[t].form.stage = "checked"
  /\ UsernameIsFree(tab[t].form.username)
  /\ accounts' = accounts \union {[id |-> tab[t].form.id, username |-> tab[t].form.username]}
  /\ _create_token(tab[t].form.id)
  /\ Answers(t, "accepted", tab[t].form.id, Len(issued'))
  /\ UNCHANGED <<expired, storage>>

\* Somebody registers in another browser.
OtherRegisters ==
  /\ \E id \in FreshIds, username \in Usernames :
       /\ UsernameIsFree(username)
       /\ accounts' = accounts \union {[id |-> id, username |-> username]}
  /\ UNCHANGED <<issued, expired, storage, tab>>

\* verify_token, when the token is still good at some moment between the request and the
\* answer, or no longer good at some such moment (or there is none).
verify_token(r) == r.token # 0 /\ r.alive
Unauthorized(token) == token = 0 \/ token \in expired

-----------------------------------------------------------------------------
(* The browser.                                                              *)

\* The slot for the next request, if one is free when tab t waits for what x does.
FreeSlots(t, x) ==
  LET used == {r.slot : r \in x.me \union UNION {tab[u].me : u \in Tabs \ {t}}}
  IN {n \in Slots \ used : 1..(n - 1) \subseteq used}

\* The effect that loads the profile.  It shows the stored user, if there is one, while it
\* asks for the profile.
Effect(t, x) ==
  IF storage.token = 0
  THEN tab' = [tab EXCEPT ![t] = [x EXCEPT !.loading = FALSE]]
  ELSE \E n \in FreeSlots(t, x) :
         tab' = [tab EXCEPT ![t] =
           [x EXCEPT !.user = IF storage.user # None THEN storage.user ELSE @,
                     !.loading = @ /\ storage.user = None,
                     !.me = @ \union {[slot |-> n, token |-> storage.token,
                                      alive |-> Alive(storage.token),
                                      stored |-> storage.user # None]}]]

\* A tab is opened or reloaded: what it waited for is dropped.
Mount(t) == Effect(t, [EmptyTab EXCEPT !.loading = TRUE]) /\ UNCHANGED <<Server, storage>>

\* The user goes to another page: useNavigate yields another function, so logout is another
\* one, and the effect that depends on it runs again, beside the requests under way.
Navigate(t) == Effect(t, tab[t]) /\ UNCHANGED <<Server, storage>>

\* Mutant: the profile is stored with the token of the moment.
ProfileArrives_with_current_token(t) ==
  /\ \E r \in tab[t].me : verify_token(r) /\ storeAuth(storage.token, issued[r.token])
                          /\ tab' = [tab EXCEPT ![t].user = issued[r.token],
                                                ![t].me = @ \ {r}, ![t].loading = FALSE]
  /\ UNCHANGED Server

\* fetchMe().then
ProfileArrives(t) ==
  /\ \E r \in tab[t].me : verify_token(r) /\ storeAuth(r.token, issued[r.token])
                          /\ tab' = [tab EXCEPT ![t].user = issued[r.token],
                                                ![t].me = @ \ {r}, ![t].loading = FALSE]
  /\ UNCHANGED Server

\* request() has called logout when the answer was 401.
ProfileUnauthorized(t) ==
  /\ \E r \in tab[t].me :
       /\ Unauthorized(r.token)
       /\ tab' = [tab EXCEPT ![t].user = None, ![t].me = @ \ {r}, ![t].loading = FALSE]
  /\ clearAuth
  /\ UNCHANGED Server

\* Any other failure ends the session only when there was no stored user to show.
ProfileFails(t) ==
  /\ \E r \in tab[t].me :
       IF r.stored
       THEN /\ tab' = [tab EXCEPT ![t].me = @ \ {r}, ![t].loading = FALSE]
            /\ UNCHANGED storage
       ELSE /\ tab' = [tab EXCEPT ![t].user = None, ![t].me = @ \ {r}, ![t].loading = FALSE]
            /\ clearAuth
  /\ UNCHANGED Server

\* A page of the console requests something, with whatever token is stored now.
RequestData(t) ==
  /\ tab[t].user # None
  /\ tab[t].data = {}
  /\ tab' = [tab EXCEPT ![t].data = {storage.token}]
  /\ UNCHANGED <<Server, storage>>

DataArrives(t) ==
  /\ tab[t].data # {}
  /\ tab' = [tab EXCEPT ![t].data = {}]
  /\ UNCHANGED <<Server, storage>>

\* Mutant: the callback is not called.
DataUnauthorized_no_callback(t) ==
  /\ \E token \in tab[t].data : Unauthorized(token)
  /\ tab' = [tab EXCEPT ![t].data = {}]
  /\ clearAuth
  /\ UNCHANGED Server

\* request() clears what is stored and calls onUnauthorized, which is logout, although
\* the token stored now may be another one.
DataUnauthorized(t) ==
  /\ \E token \in tab[t].data : Unauthorized(token)
  /\ tab' = [tab EXCEPT ![t].data = {}, ![t].user = None]
  /\ clearAuth
  /\ UNCHANGED Server

logout(t) ==
  /\ tab[t].user # None
  /\ tab' = [tab EXCEPT ![t].user = None]
  /\ clearAuth
  /\ UNCHANGED Server

\* The forms are on public pages, which a tab with a user leaves at once.
Submit(t, kind, username) ==
  /\ t \in FormTabs
  /\ tab[t].user = None /\ ~tab[t].loading
  /\ tab[t].form.stage = "none"
  /\ tab' = [tab EXCEPT ![t].form = [NoForm EXCEPT !.stage = kind, !.username = username]]
  /\ UNCHANGED <<Server, storage>>

\* handleLogin and handleRegister.
FormAccepted(t) ==
  /\ tab[t].form.stage = "accepted"
  /\ storeAuth(tab[t].form.token, tab[t].form.id)
  /\ tab' = [tab EXCEPT ![t].user = tab[t].form.id, ![t].form = NoForm]
  /\ UNCHANGED Server

\* Mutant: the 401 of a login is taken for an expired session.
FormRefused_as_expired(t) ==
  /\ tab[t].form.stage \in {"login", "register", "checked"}
  /\ tab' = [tab EXCEPT ![t].form = NoForm, ![t].user = None]
  /\ clearAuth
  /\ UNCHANGED Server

\* An error message: the wrong password, a name that exists or that another server has
\* just inserted, or no answer in time, whatever the service made of the request.
\* isAuthEndpoint keeps what is stored.
FormRefused(t) ==
  /\ tab[t].form.stage # "none"
  /\ tab' = [tab EXCEPT ![t].form = NoForm]
  /\ UNCHANGED <<Server, storage>>

-----------------------------------------------------------------------------

Service(t) == login(t) \/ RegisterChecks(t) \/ register(t)

Answer(t) ==
  \/ ProfileArrives(t) \/ ProfileUnauthorized(t) \/ ProfileFails(t)
  \/ DataArrives(t) \/ DataUnauthorized(t)
  \/ FormAccepted(t) \/ FormRefused(t)

User(t) ==
  \/ Mount(t) \/ Navigate(t) \/ RequestData(t) \/ logout(t)
  \/ \E kind \in {"login", "register"}, username \in Usernames : Submit(t, kind, username)

Next == Expire \/ OtherRegisters \/ \E t \in Tabs : Service(t) \/ Answer(t) \/ User(t)

Spec == Init /\ [][Next]_vars

\* A tab that shows a user is in use: it requests something again and again.  Every
\* request ends, because request() aborts it after a time.  A tab that asks with a dead
\* token again and again is told so some day: it is not always reloaded before the answer
\* arrives, and the network does not always fail.
FairSpec ==
  /\ Spec
  /\ \A t \in Tabs :
       /\ WF_vars(RequestData(t))
       /\ WF_vars(DataArrives(t) \/ DataUnauthorized(t))
       /\ SF_vars(DataUnauthorized(t))

-----------------------------------------------------------------------------

TypeOK ==
  /\ accounts \subseteq UserRow
  /\ issued \in Seq(Ids)
  /\ expired \subseteq DOMAIN issued
  /\ storage \in [token : Tokens, user : Ids \union {None}]
  /\ tab \in [Tabs -> Tab]

\* The stored user is the one the stored token was issued to, whatever answers arrive in
\* whatever order in whatever tab: a tab that is opened never shows one user while it
\* works for another.
StoredUserOwnsToken ==
  storage.user # None => storage.token # 0 /\ storage.user = issued[storage.token]

\* Every token was issued to an account, and the account is the only one of its name,
\* although two registrations of a name may both have found it free.
TokensNameAccounts ==
  \A k \in DOMAIN issued :
    \E a \in accounts : a.id = issued[k] /\ \A b \in accounts : b.username = a.username => b = a

\* A session ends only by a logout, by a request that carried no token or an expired one,
\* or when a tab had no stored user to show and cannot load one; never because a login
\* or a registration in another tab was refused.
SessionEndsForAReason ==
  [][storage.token # 0 /\ storage'.token = 0 =>
       \E t \in Tabs :
         \/ logout(t)
         \/ \E r \in tab[t].me \ tab'[t].me : Unauthorized(r.token) \/ ~r.stored
         \/ \E token \in tab[t].data \ tab'[t].data : Unauthorized(token)]_vars

\* A tab does not show a user for ever after the session is gone, even when it was another
\* tab that ended it.  (FairSpec.)
DeadSessionIsLeft ==
  \A t \in Tabs :
    (tab[t].user # None /\ ~Alive(storage.token)) ~> (tab[t].user = None \/ Alive(storage.token))
=============================================================================
