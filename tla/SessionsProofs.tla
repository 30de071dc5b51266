--------------------------- MODULE SessionsProofs ---------------------------
(***************************************************************************)
(* Proofs about Sessions, for every number of tabs, users and tokens.      *)
(*                                                                         *)
(* The argument.  A token is never issued again, and who it was issued to  *)
(* never changes.  A profile request and a form carry their token with     *)
(* them, so what they store when the answer arrives is a pair that agrees, *)
(* whatever has been stored meanwhile (TabInv).  A token is issued by the  *)
(* same commit that inserts its account, or for one that is there, and the *)
(* unique index keeps the account the only one of its name (AccountInv).   *)
(***************************************************************************)
EXTENDS Sessions, TLAPS

\* What a tab waits for belongs to tokens that were issued.
TabOf(x) ==
  /\ \A r \in x.me : r.token <= Len(issued)
  /\ x.form.stage # "none" => x.form.username \in Usernames
  /\ x.form.stage \in {"checked", "accepted"} => x.form.id \in Ids
  /\ x.form.stage = "accepted" => /\ x.form.token \in 1..Len(issued)
                                  /\ x.form.id = issued[x.form.token]

TabInv == \A t \in Tabs : TabOf(tab[t])

StorageInv ==
  /\ Len(issued) <= MaxTokens
  /\ storage.token <= Len(issued)
  /\ StoredUserOwnsToken

AccountInv ==
  /\ \A a, b \in accounts : a.username = b.username => a = b
  /\ \A k \in DOMAIN issued : \E a \in accounts : a.id = issued[k]

IInv == TypeOK /\ TabInv /\ StorageInv /\ AccountInv

-----------------------------------------------------------------------------
(* Types.                                                                    *)

\* The limits of the constants.
LEMMA Constants == FormTabs \subseteq Tabs /\ None \notin Ids /\ None \notin Usernames /\ MaxTokens \in Nat \ {0}
  BY ConstantsAssumption

LEMMA EmptyTabType ==
  /\ EmptyTab \in Tab /\ EmptyTab.me = {} /\ EmptyTab.form = NoForm
  /\ NoForm \in Form /\ NoForm.stage = "none"
<1>1. NoForm \in Form /\ NoForm.stage = "none"
    BY Constants DEF NoForm, Form, Tokens
<1> QED
    BY <1>1 DEF EmptyTab, Tab

LEMMA IssuedType ==
  ASSUME IInv
  PROVE  /\ issued \in Seq(Ids) /\ Len(issued) \in Nat /\ DOMAIN issued = 1..Len(issued)
         /\ \A k \in 1..Len(issued) : issued[k] \in Ids
         /\ Len(issued) <= MaxTokens
  BY DEF IInv, TypeOK, StorageInv

\* A tab that changes, while nothing is issued.
LEMMA TabStep ==
  ASSUME IInv, NEW t \in Tabs, NEW new \in Tab, TabOf(new),
         tab' = [tab EXCEPT ![t] = new], UNCHANGED Server,
         storage' \in [token : Tokens, user : Ids \union {None}],
         storage'.token <= Len(issued),
         storage'.user # None => storage'.token # 0 /\ storage'.user = issued[storage'.token]
  PROVE  IInv'
<1>1. TypeOK'
    BY DEF IInv, TypeOK, Server
<1>2. TabInv'
    BY DEF IInv, TypeOK, TabInv, TabOf, Server
<1>3. StorageInv' /\ AccountInv'
    BY DEF IInv, StorageInv, StoredUserOwnsToken, AccountInv, Server
<1> QED
    BY <1>1, <1>2, <1>3 DEF IInv

\* The three ways in which what is stored changes, or does not.
LEMMA Cleared ==
  ASSUME IInv, clearAuth
  PROVE  /\ storage' \in [token : Tokens, user : Ids \union {None}]
         /\ storage'.token <= Len(issued)
         /\ storage'.user # None => storage'.token # 0 /\ storage'.user = issued[storage'.token]
<1>1. storage' \in [token : Tokens, user : Ids \union {None}]
      /\ storage'.token = 0 /\ storage'.user = None
    BY Constants DEF clearAuth, Tokens
<1>2. 0 <= Len(issued)
    BY IssuedType
<1> QED
    BY <1>1, <1>2

LEMMA Stored ==
  ASSUME IInv, NEW k \in 1..Len(issued), storeAuth(k, issued[k])
  PROVE  /\ storage' \in [token : Tokens, user : Ids \union {None}]
         /\ storage'.token = k /\ storage'.user = issued[k] /\ k <= Len(issued) /\ k # 0
<1>1. k \in Tokens
    BY Constants, IssuedType DEF Tokens
<1> QED
    BY <1>1, IssuedType DEF storeAuth

LEMMA Left ==
  ASSUME IInv, storage' = storage
  PROVE  /\ storage' \in [token : Tokens, user : Ids \union {None}]
         /\ storage'.token <= Len(issued)
         /\ storage'.user # None => storage'.token # 0 /\ storage'.user = issued[storage'.token]
  BY DEF IInv, TypeOK, StorageInv, StoredUserOwnsToken
-----------------------------------------------------------------------------
(* The invariant.                                                            *)

LEMMA InitIInv == Init => IInv
<1> SUFFICES ASSUME Init
             PROVE  IInv
    OBVIOUS
<1>1. \A t \in Tabs : tab[t] = EmptyTab
    BY DEF Init
<1>2. tab \in [Tabs -> Tab] /\ TabInv
    BY <1>1, EmptyTabType DEF Init, TabInv, TabOf
<1>3. PICK a \in UserRow :
        \/ accounts = {} /\ issued = <<>> /\ storage = [token |-> 0, user |-> None]
        \/ accounts = {a} /\ issued = <<a.id>> /\ storage = [token |-> 1, user |-> None]
    BY DEF Init
<1>4. a.id \in Ids /\ 0 \in Tokens /\ 1 \in Tokens
    BY <1>3, Constants DEF UserRow, Tokens
<1>5. issued \in Seq(Ids) /\ accounts \subseteq UserRow /\ Len(issued) <= MaxTokens
  <2>1. accounts \subseteq UserRow
    BY <1>3
  <2>2. <<>> \in Seq(Ids) /\ Len(<<>>) = 0
    OBVIOUS
  <2>3. <<a.id>> \in Seq(Ids) /\ Len(<<a.id>>) = 1
    BY <1>4
  <2>4. 0 <= MaxTokens /\ 1 <= MaxTokens
    BY Constants
  <2>5. CASE issued = <<>>
    BY <2>1, <2>2, <2>4, <2>5
  <2>6. CASE issued = <<a.id>>
    BY <2>1, <2>3, <2>4, <2>6
  <2> QED
    BY <1>3, <2>5, <2>6
<1>6. storage \in [token : Tokens, user : Ids \union {None}]
      /\ storage.token <= Len(issued) /\ storage.user = None
    BY <1>3, <1>4
<1>7. TypeOK
    BY <1>2, <1>5, <1>6 DEF Init, TypeOK
<1>8. StorageInv
    BY <1>5, <1>6 DEF StorageInv, StoredUserOwnsToken
<1>9. AccountInv
    BY <1>3 DEF AccountInv
<1> QED
    BY <1>2, <1>7, <1>8, <1>9 DEF IInv

\* A token is issued to an account that is there or is inserted with it.
LEMMA IssueKeepsIInv ==
  ASSUME IInv, NEW t \in Tabs, NEW id \in Ids, tab[t].form.stage \in {"login", "checked"},
         _create_token(id), Answers(t, "accepted", id, Len(issued')),
         accounts \subseteq accounts', accounts' \subseteq UserRow,
         \A a, b \in accounts' : a.username = b.username => a = b,
         \E a \in accounts' : a.id = id,
         UNCHANGED <<expired, storage>>
  PROVE  IInv'
<1>1. /\ issued' = Append(issued, id) /\ issued' \in Seq(Ids)
      /\ Len(issued') = Len(issued) + 1 /\ Len(issued') <= MaxTokens
      /\ issued'[Len(issued')] = id
      /\ \A k \in 1..Len(issued) : issued'[k] = issued[k]
    BY IssuedType, Constants DEF _create_token
<1>2. Len(issued') \in Tokens /\ Len(issued') \in 1..Len(issued') /\ DOMAIN issued' = 1..Len(issued')
    BY <1>1, IssuedType, Constants DEF Tokens
<1> DEFINE form == [tab[t].form EXCEPT !.stage = "accepted", !.id = id, !.token = Len(issued')]
           new == [tab[t] EXCEPT !.form = form]
<1>3. tab' = [tab EXCEPT ![t] = new]
    BY DEF Answers, IInv, TypeOK
<1>4. tab[t] \in Tab /\ tab[t].form \in Form /\ tab[t].form.username \in Usernames
    BY DEF IInv, TypeOK, Tab, TabInv, TabOf
<1>5. /\ form \in Form /\ form.stage = "accepted" /\ form.id = id /\ form.token = Len(issued')
      /\ form.username = tab[t].form.username
    BY <1>2, <1>4 DEF Form
<1> HIDE DEF form
<1>6. new \in Tab /\ new.form = form /\ new.me = tab[t].me
    BY <1>4, <1>5 DEF Tab
<1> HIDE DEF new
<1>7. TypeOK'
    BY <1>1, <1>2, <1>3, <1>6, IssuedType DEF IInv, TypeOK
<1>8. TabInv'
  <2> SUFFICES ASSUME NEW u \in Tabs
               PROVE  TabOf(tab[u])'
    BY DEF TabInv
  <2>1. tab[u] \in Tab /\ tab[u].me \subseteq Request /\ TabOf(tab[u]) /\ tab[u].form \in Form
    BY DEF IInv, TypeOK, Tab, TabInv
  <2>2. \A r \in tab[u].me : r.token <= Len(issued')
    BY <1>1, <2>1, IssuedType, Constants DEF TabOf, Request, Tokens
  <2>3. CASE u = t
    <3>1. tab'[u] = new
      BY <1>3, <2>3 DEF IInv, TypeOK
    <3> QED
      BY <1>1, <1>2, <1>4, <1>5, <1>6, <2>2, <2>3, <3>1 DEF TabOf
  <2>4. CASE u # t
    <3>1. tab'[u] = tab[u]
      BY <1>3, <2>4 DEF IInv, TypeOK
    <3> QED
      BY <1>1, <2>1, <2>2, <3>1, IssuedType DEF TabOf
  <2> QED
    BY <2>3, <2>4
<1>9. StorageInv'
  <2>1. storage.token \in 0..Len(issued) /\ StoredUserOwnsToken
    BY DEF IInv, TypeOK, StorageInv, Tokens
  <2> QED
    BY <1>1, <2>1, IssuedType DEF StorageInv, StoredUserOwnsToken
<1>10. AccountInv'
  <2>1. \A k \in 1..Len(issued) : \E a \in accounts : a.id = issued[k]
    BY IssuedType DEF IInv, AccountInv
  <2>2. \A k \in 1..Len(issued') : k = Len(issued') \/ k \in 1..Len(issued)
    BY <1>1, IssuedType
  <2>3. \A k \in DOMAIN issued' : \E a \in accounts' : a.id = issued'[k]
    BY <1>1, <1>2, <2>1, <2>2
  <2> QED
    BY <2>3 DEF AccountInv
<1> QED
    BY <1>7, <1>8, <1>9, <1>10 DEF IInv

\* The unique index keeps one account per name.
LEMMA InsertIsUnique ==
  ASSUME IInv, NEW id \in Ids, NEW username \in Usernames, UsernameIsFree(username),
         accounts' = accounts \union {[id |-> id, username |-> username]}
  PROVE  /\ accounts' \subseteq UserRow /\ accounts \subseteq accounts'
         /\ \A a, b \in accounts' : a.username = b.username => a = b
         /\ \E a \in accounts' : a.id = id
<1> DEFINE new == [id |-> id, username |-> username]
<1>1. new \in UserRow /\ new.id = id /\ new.username = username /\ accounts' = accounts \union {new}
    BY DEF UserRow
<1>2. \A a \in accounts : a.username # username
    BY DEF UsernameIsFree, UsernameExists
<1> HIDE DEF new
<1> QED
    BY <1>1, <1>2 DEF IInv, TypeOK, AccountInv

LEMMA OtherRegistersKeepsIInv ==
  ASSUME IInv, OtherRegisters
  PROVE  IInv'
<1>1. PICK id \in FreshIds, username \in Usernames :
        /\ UsernameIsFree(username)
        /\ accounts' = accounts \union {[id |-> id, username |-> username]}
    BY DEF OtherRegisters
<1>2. id \in Ids /\ UNCHANGED <<issued, expired, storage, tab>>
    BY <1>1 DEF FreshIds, OtherRegisters
<1>3. /\ accounts' \subseteq UserRow /\ accounts \subseteq accounts'
      /\ \A a, b \in accounts' : a.username = b.username => a = b
    BY <1>1, <1>2, InsertIsUnique
<1> QED
    BY <1>2, <1>3 DEF IInv, TypeOK, TabInv, TabOf, StorageInv, StoredUserOwnsToken, AccountInv

LEMMA ServiceKeepsIInv ==
  ASSUME IInv, NEW t \in Tabs, Service(t)
  PROVE  IInv'
<1>1. tab[t] \in Tab /\ tab[t].form \in Form /\ TabOf(tab[t])
    BY DEF IInv, TypeOK, Tab, TabInv
<1>2. CASE login(t)
  <2>1. PICK a \in accounts : _create_token(a.id) /\ Answers(t, "accepted", a.id, Len(issued'))
    BY <1>2 DEF login
  <2>2. a.id \in Ids
    BY <2>1 DEF IInv, TypeOK, UserRow
  <2>3. UNCHANGED <<accounts, expired, storage>> /\ tab[t].form.stage = "login"
    BY <1>2 DEF login
  <2> QED
    BY <2>1, <2>2, <2>3, IssueKeepsIInv DEF IInv, TypeOK, AccountInv
<1>3. CASE register(t)
  <2> DEFINE id == tab[t].form.id
             username == tab[t].form.username
  <2>1. /\ id \in Ids /\ username \in Usernames
        /\ tab[t].form.stage = "checked" /\ UsernameIsFree(username)
        /\ accounts' = accounts \union {[id |-> id, username |-> username]}
        /\ _create_token(id) /\ Answers(t, "accepted", id, Len(issued'))
        /\ UNCHANGED <<expired, storage>>
    BY <1>1, <1>3 DEF register, TabOf
  <2> HIDE DEF id, username
  <2> QED
    BY <2>1, InsertIsUnique, IssueKeepsIInv
<1>4. CASE RegisterChecks(t)
  <2>1. PICK id \in FreshIds : Answers(t, "checked", id, 0)
    BY <1>4 DEF RegisterChecks
  <2> DEFINE form == [tab[t].form EXCEPT !.stage = "checked", !.id = id, !.token = 0]
             new == [tab[t] EXCEPT !.form = form]
  <2>2. tab' = [tab EXCEPT ![t] = new] /\ UNCHANGED Server /\ storage' = storage
        /\ tab[t].form.stage = "register"
    BY <1>4, <2>1 DEF Answers, RegisterChecks, IInv, TypeOK
  <2>3. id \in Ids /\ 0 \in Tokens
    BY <2>1, Constants DEF FreshIds, Tokens
  <2>4. /\ form \in Form /\ form.stage = "checked" /\ form.id = id
        /\ form.username = tab[t].form.username
    BY <1>1, <2>3 DEF Form
  <2> HIDE DEF form
  <2>5. new \in Tab /\ new.form = form /\ new.me = tab[t].me
    BY <1>1, <2>4 DEF Tab
  <2> HIDE DEF new
  <2>6. TabOf(new)
    BY <1>1, <2>2, <2>3, <2>4, <2>5 DEF TabOf
  <2> QED
    BY <2>2, <2>5, <2>6, Left, TabStep
<1> QED
    BY <1>2, <1>3, <1>4 DEF Service
\* The answers that end what a tab waits for, and what the user does.
LEMMA AnswerKeepsIInv ==
  ASSUME IInv, NEW t \in Tabs, Answer(t)
  PROVE  IInv'
<1>1. tab[t] \in Tab /\ tab[t].form \in Form /\ TabOf(tab[t]) /\ tab[t].me \subseteq Request
    BY DEF IInv, TypeOK, Tab, TabInv
<1>2. UNCHANGED Server
    BY DEF Answer, ProfileArrives, ProfileUnauthorized, ProfileFails, DataArrives,
           DataUnauthorized, FormAccepted, FormRefused
<1>3. Len(issued) \in Nat /\ \A k \in 1..Len(issued) : issued[k] \in Ids
    BY IssuedType
\* A tab in which a profile request or a request of the page has ended.
<1>4. ASSUME NEW user \in Ids \union {None}, NEW loading \in BOOLEAN,
             NEW me \in SUBSET tab[t].me, NEW data \in SUBSET tab[t].data
      PROVE  LET new == [tab[t] EXCEPT !.user = user, !.loading = loading, !.me = me, !.data = data]
             IN new \in Tab /\ TabOf(new)
  <2> DEFINE new == [tab[t] EXCEPT !.user = user, !.loading = loading, !.me = me, !.data = data]
  <2>1. new \in Tab /\ new.me = me /\ new.form = tab[t].form
    BY <1>1, <1>4 DEF Tab
  <2> HIDE DEF new
  <2>2. TabOf(new)
    BY <1>1, <2>1 DEF TabOf
  <2> QED
    BY <2>1, <2>2 DEF new
<1>5. CASE ProfileArrives(t)
  <2>1. PICK r \in tab[t].me :
          /\ verify_token(r) /\ storeAuth(r.token, issued[r.token])
          /\ tab' = [tab EXCEPT ![t].user = issued[r.token], ![t].me = @ \ {r}, ![t].loading = FALSE]
    BY <1>5 DEF ProfileArrives
  <2>2. r.token \in 1..Len(issued)
    BY <1>1, <1>3, <2>1, Constants DEF verify_token, TabOf, Request, Tokens
  <2> DEFINE new == [tab[t] EXCEPT !.user = issued[r.token], !.loading = FALSE,
                                   !.me = tab[t].me \ {r}, !.data = tab[t].data]
  <2>3. new \in Tab /\ TabOf(new)
    BY <1>3, <1>4, <2>2
  <2>4. tab' = [tab EXCEPT ![t] = new]
    BY <1>1, <2>1 DEF IInv, TypeOK, Tab
  <2> HIDE DEF new
  <2> QED
    BY <1>2, <2>1, <2>2, <2>3, <2>4, Stored, TabStep
<1>6. CASE ProfileUnauthorized(t)
  <2>1. PICK r \in tab[t].me :
          tab' = [tab EXCEPT ![t].user = None, ![t].me = @ \ {r}, ![t].loading = FALSE]
    BY <1>6 DEF ProfileUnauthorized
  <2> DEFINE new == [tab[t] EXCEPT !.user = None, !.loading = FALSE, !.me = tab[t].me \ {r},
                                   !.data = tab[t].data]
  <2>2. new \in Tab /\ TabOf(new)
    BY <1>4
  <2>3. tab' = [tab EXCEPT ![t] = new] /\ clearAuth
    BY <1>1, <1>6, <2>1 DEF ProfileUnauthorized, IInv, TypeOK, Tab
  <2> HIDE DEF new
  <2> QED
    BY <1>2, <1>3, <2>2, <2>3, Cleared, TabStep
<1>7. CASE ProfileFails(t)
  <2>1. PICK r \in tab[t].me :
          \/ /\ tab' = [tab EXCEPT ![t].me = @ \ {r}, ![t].loading = FALSE]
             /\ storage' = storage
          \/ /\ tab' = [tab EXCEPT ![t].user = None, ![t].me = @ \ {r}, ![t].loading = FALSE]
             /\ clearAuth
    BY <1>7 DEF ProfileFails
  <2> DEFINE New(user) == [tab[t] EXCEPT !.user = user, !.loading = FALSE, !.me = tab[t].me \ {r},
                                         !.data = tab[t].data]
  <2>2. tab[t].user \in Ids \union {None}
    BY <1>1 DEF Tab
  <2>3. New(tab[t].user) \in Tab /\ TabOf(New(tab[t].user)) /\ New(None) \in Tab /\ TabOf(New(None))
    BY <1>4, <2>2
  <2>4. \/ tab' = [tab EXCEPT ![t] = New(tab[t].user)] /\ storage' = storage
        \/ tab' = [tab EXCEPT ![t] = New(None)] /\ clearAuth
    BY <1>1, <2>1 DEF IInv, TypeOK, Tab
  <2> HIDE DEF New
  <2>5. CASE tab' = [tab EXCEPT ![t] = New(tab[t].user)] /\ storage' = storage
    BY <1>2, <2>3, <2>5, Left, TabStep
  <2>6. CASE tab' = [tab EXCEPT ![t] = New(None)] /\ clearAuth
    BY <1>2, <1>3, <2>3, <2>6, Cleared, TabStep
  <2> QED
    BY <2>4, <2>5, <2>6
<1>8. CASE DataArrives(t)
  <2> DEFINE new == [tab[t] EXCEPT !.user = tab[t].user, !.loading = tab[t].loading,
                                   !.me = tab[t].me, !.data = {}]
  <2>1. tab[t].user \in Ids \union {None} /\ tab[t].loading \in BOOLEAN
    BY <1>1 DEF Tab
  <2>2. new \in Tab /\ TabOf(new)
    BY <1>4, <2>1
  <2>3. tab' = [tab EXCEPT ![t] = new] /\ storage' = storage
    BY <1>1, <1>8 DEF DataArrives, IInv, TypeOK, Tab
  <2> HIDE DEF new
  <2> QED
    BY <1>2, <2>2, <2>3, Left, TabStep
<1>9. CASE DataUnauthorized(t)
  <2> DEFINE new == [tab[t] EXCEPT !.user = None, !.loading = tab[t].loading,
                                   !.me = tab[t].me, !.data = {}]
  <2>1. tab[t].loading \in BOOLEAN
    BY <1>1 DEF Tab
  <2>2. new \in Tab /\ TabOf(new)
    BY <1>4, <2>1
  <2>3. tab' = [tab EXCEPT ![t] = new] /\ clearAuth
    BY <1>1, <1>9 DEF DataUnauthorized, IInv, TypeOK, Tab
  <2> HIDE DEF new
  <2> QED
    BY <1>2, <1>3, <2>2, <2>3, Cleared, TabStep
<1>10. ASSUME NEW user \in Ids \union {None}
       PROVE  LET new == [tab[t] EXCEPT !.user = user, !.form = NoForm]
              IN new \in Tab /\ TabOf(new)
  <2> DEFINE new == [tab[t] EXCEPT !.user = user, !.form = NoForm]
  <2>1. new \in Tab /\ new.me = tab[t].me /\ new.form = NoForm
    BY <1>1, <1>10, EmptyTabType DEF Tab
  <2> HIDE DEF new
  <2>2. TabOf(new)
    BY <1>1, <2>1, EmptyTabType DEF TabOf
  <2> QED
    BY <2>1, <2>2 DEF new
<1>11. CASE FormAccepted(t)
  <2> DEFINE k == tab[t].form.token
             new == [tab[t] EXCEPT !.user = issued[k], !.form = NoForm]
  <2>1. k \in 1..Len(issued) /\ tab[t].form.id = issued[k]
    BY <1>1, <1>11 DEF FormAccepted, TabOf
  <2>2. new \in Tab /\ TabOf(new)
    BY <1>3, <1>10, <2>1
  <2>3. tab' = [tab EXCEPT ![t] = new] /\ storeAuth(k, issued[k])
    BY <1>1, <1>11, <2>1 DEF FormAccepted, IInv, TypeOK, Tab
  <2> HIDE DEF new, k
  <2> QED
    BY <1>2, <2>1, <2>2, <2>3, Stored, TabStep
<1>12. CASE FormRefused(t)
  <2> DEFINE new == [tab[t] EXCEPT !.user = tab[t].user, !.form = NoForm]
  <2>1. tab[t].user \in Ids \union {None}
    BY <1>1 DEF Tab
  <2>2. new \in Tab /\ TabOf(new)
    BY <1>10, <2>1
  <2>3. tab' = [tab EXCEPT ![t] = new] /\ storage' = storage
    BY <1>1, <1>12 DEF FormRefused, IInv, TypeOK, Tab
  <2> HIDE DEF new
  <2> QED
    BY <1>2, <2>2, <2>3, Left, TabStep
<1> QED
    BY <1>5, <1>6, <1>7, <1>8, <1>9, <1>11, <1>12 DEF Answer

\* The effect adds a request with the stored token, which was issued.
LEMMA EffectKeepsIInv ==
  ASSUME IInv, NEW t \in Tabs, NEW x \in Tab, TabOf(x), Effect(t, x), UNCHANGED <<Server, storage>>
  PROVE  IInv'
<1>1. /\ storage \in [token : Tokens, user : Ids \union {None}] /\ storage.token <= Len(issued)
      /\ UNCHANGED Server /\ storage' = storage
    BY DEF IInv, TypeOK, StorageInv
<1>2. x.me \subseteq Request /\ x.user \in Ids \union {None} /\ x.loading \in BOOLEAN
    BY DEF Tab
<1>3. ASSUME NEW user \in Ids \union {None}, NEW loading \in BOOLEAN, NEW me \in SUBSET Request,
             \A r \in me : r.token <= Len(issued),
             tab' = [tab EXCEPT ![t] = [x EXCEPT !.user = user, !.loading = loading, !.me = me]]
      PROVE  IInv'
  <2> DEFINE new == [x EXCEPT !.user = user, !.loading = loading, !.me = me]
  <2>1. new \in Tab /\ new.me = me /\ new.form = x.form
    BY DEF Tab
  <2>2. tab' = [tab EXCEPT ![t] = new]
    BY <1>3
  <2> HIDE DEF new
  <2>3. TabOf(new)
    BY <1>3, <2>1 DEF TabOf
  <2> QED
    BY <1>1, <2>1, <2>2, <2>3, Left, TabStep
<1>4. CASE storage.token = 0
  <2>1. tab' = [tab EXCEPT ![t] = [x EXCEPT !.loading = FALSE]]
    BY <1>4 DEF Effect
  <2>2. [x EXCEPT !.loading = FALSE] = [x EXCEPT !.user = x.user, !.loading = FALSE, !.me = x.me]
    BY DEF Tab
  <2> QED
    BY <1>2, <1>3, <2>1, <2>2 DEF TabOf
<1>5. CASE storage.token # 0
  <2>1. PICK n \in FreeSlots(t, x) :
          tab' = [tab EXCEPT ![t] =
            [x EXCEPT !.user = IF storage.user # None THEN storage.user ELSE @,
                      !.loading = @ /\ storage.user = None,
                      !.me = @ \union {[slot |-> n, token |-> storage.token,
                                       alive |-> Alive(storage.token),
                                       stored |-> storage.user # None]}]]
    BY <1>5 DEF Effect
  <2> DEFINE user == IF storage.user # None THEN storage.user ELSE x.user
             loading == x.loading /\ storage.user = None
             r == [slot |-> n, token |-> storage.token, alive |-> Alive(storage.token),
                   stored |-> storage.user # None]
             me == x.me \union {r}
  <2>2. user \in Ids \union {None} /\ loading \in BOOLEAN
    BY <1>1, <1>2
  <2>3. n \in Slots
    BY DEF FreeSlots
  <2>4. r \in Request /\ r.token = storage.token
    BY <1>1, <2>3 DEF Request, Alive
  <2>5. tab' = [tab EXCEPT ![t] = [x EXCEPT !.user = user, !.loading = loading, !.me = me]]
    BY <2>1
  <2> HIDE DEF user, loading, r
  <2>6. me \in SUBSET Request /\ \A q \in me : q.token <= Len(issued)
    BY <1>1, <1>2, <2>4 DEF TabOf
  <2> HIDE DEF me
  <2> QED
    BY <1>3, <2>2, <2>5, <2>6
<1> QED
    BY <1>4, <1>5

LEMMA UserKeepsIInv ==
  ASSUME IInv, NEW t \in Tabs, User(t)
  PROVE  IInv'
<1>1. tab[t] \in Tab /\ tab[t].form \in Form /\ TabOf(tab[t])
      /\ storage.token \in Tokens
    BY DEF IInv, TypeOK, Tab, TabInv
<1>3. CASE Mount(t) \/ Navigate(t)
  <2> DEFINE opened == [EmptyTab EXCEPT !.loading = TRUE]
  <2>1. opened \in Tab /\ opened.me = {} /\ opened.form = NoForm
    BY EmptyTabType DEF Tab
  <2>2. UNCHANGED <<Server, storage>> /\ (Effect(t, opened) \/ Effect(t, tab[t]))
    BY <1>3 DEF Mount, Navigate
  <2> HIDE DEF opened
  <2>3. TabOf(opened)
    BY <2>1, EmptyTabType DEF TabOf
  <2> QED
    BY <1>1, <2>1, <2>2, <2>3, EffectKeepsIInv
<1>4. CASE RequestData(t)
  <2> DEFINE new == [tab[t] EXCEPT !.data = {storage.token}]
  <2>1. new \in Tab /\ new.me = tab[t].me /\ new.form = tab[t].form
    BY <1>1 DEF Tab
  <2>2. tab' = [tab EXCEPT ![t] = new] /\ UNCHANGED Server /\ storage' = storage
    BY <1>4 DEF RequestData, IInv, TypeOK
  <2> HIDE DEF new
  <2>3. TabOf(new)
    BY <1>1, <2>1 DEF TabOf
  <2> QED
    BY <2>1, <2>2, <2>3, Left, TabStep
<1>5. CASE logout(t)
  <2> DEFINE new == [tab[t] EXCEPT !.user = None]
  <2>1. new \in Tab /\ new.me = tab[t].me /\ new.form = tab[t].form
    BY <1>1 DEF Tab
  <2>2. tab' = [tab EXCEPT ![t] = new] /\ UNCHANGED Server /\ clearAuth
    BY <1>5 DEF logout, IInv, TypeOK
  <2> HIDE DEF new
  <2>3. TabOf(new)
    BY <1>1, <2>1 DEF TabOf
  <2> QED
    BY <2>1, <2>2, <2>3, Cleared, TabStep
<1>6. ASSUME NEW kind \in {"login", "register"}, NEW username \in Usernames,
             Submit(t, kind, username)
      PROVE  IInv'
  <2> DEFINE form == [NoForm EXCEPT !.stage = kind, !.username = username]
             new == [tab[t] EXCEPT !.form = form]
  <2>1. form \in Form /\ form.stage = kind /\ form.username = username
    BY EmptyTabType DEF Form
  <2>2. tab' = [tab EXCEPT ![t] = new] /\ UNCHANGED Server /\ storage' = storage
    BY <1>6 DEF Submit, IInv, TypeOK
  <2> HIDE DEF form
  <2>3. new \in Tab /\ new.me = tab[t].me /\ new.form = form
    BY <1>1, <2>1 DEF Tab
  <2> HIDE DEF new
  <2>4. TabOf(new)
    BY <1>1, <2>1, <2>3 DEF TabOf
  <2> QED
    BY <2>2, <2>3, <2>4, Left, TabStep
<1> QED
    BY <1>3, <1>4, <1>5, <1>6 DEF User

\* Every step keeps the invariant.
LEMMA NextIInv == IInv /\ [Next]_vars => IInv'
<1> SUFFICES ASSUME IInv, [Next]_vars
             PROVE  IInv'
    OBVIOUS
<1>1. CASE Expire
  <2>1. expired' \subseteq DOMAIN issued /\ UNCHANGED <<accounts, issued, storage, tab>>
    BY <1>1 DEF Expire, IInv, TypeOK
  <2> QED
    BY <2>1 DEF IInv, TypeOK, TabInv, TabOf, StorageInv, StoredUserOwnsToken, AccountInv
<1>2. CASE UNCHANGED vars
    BY <1>2 DEF vars, IInv, TypeOK, TabInv, TabOf, StorageInv, StoredUserOwnsToken, AccountInv
<1>3. CASE OtherRegisters
    BY <1>3, OtherRegistersKeepsIInv
<1>4. ASSUME NEW t \in Tabs, Service(t) \/ Answer(t) \/ User(t)
      PROVE  IInv'
    BY <1>4, ServiceKeepsIInv, AnswerKeepsIInv, UserKeepsIInv
<1> QED
    BY <1>1, <1>2, <1>3, <1>4 DEF Next

LEMMA Invariance == Spec => []IInv
  BY InitIInv, NextIInv, PTL DEF Spec

-----------------------------------------------------------------------------
(* The theorems.                                                             *)

\* Every variable keeps its type.
THEOREM TypeCorrect == Spec => []TypeOK
<1>1. IInv => TypeOK
    BY DEF IInv
<1> QED
    BY <1>1, Invariance, PTL

\* For every number of tabs and of answers under way, the stored user owns the stored token.
THEOREM StoredPairAgrees == Spec => []StoredUserOwnsToken
<1>1. IInv => StoredUserOwnsToken
    BY DEF IInv, StorageInv
<1> QED
    BY <1>1, Invariance, PTL

\* Every token names an account, which is the only one of its name.
THEOREM TokensAreNamed == Spec => []TokensNameAccounts
<1>1. IInv => TokensNameAccounts
    BY DEF IInv, AccountInv, TokensNameAccounts
<1> QED
    BY <1>1, Invariance, PTL

\* A session ends for one of the reasons that the code has for it.
THEOREM SessionEndIsCaused == Spec => SessionEndsForAReason
<1> DEFINE Reason == \E t \in Tabs :
             \/ logout(t)
             \/ \E r \in tab[t].me \ tab'[t].me : Unauthorized(r.token) \/ ~r.stored
             \/ \E token \in tab[t].data \ tab'[t].data : Unauthorized(token)
<1>1. ASSUME IInv, [Next]_vars, storage.token # 0, storage'.token = 0
      PROVE  Reason
  <2>1. PICK t \in Tabs : Answer(t) \/ logout(t)
    BY <1>1 DEF Next, vars, Expire, OtherRegisters, Service, login, RegisterChecks, register,
                User, Mount, Navigate, Effect, RequestData, Submit
  <2>2. tab[t] \in Tab /\ TabOf(tab[t])
    BY <1>1 DEF IInv, TypeOK, TabInv
  <2>3. ~ProfileArrives(t)
    <3> SUFFICES ASSUME NEW r \in tab[t].me, r.token # 0, storeAuth(r.token, issued[r.token])
                 PROVE  FALSE
      BY DEF ProfileArrives, verify_token
    <3>1. storage'.token = r.token
      BY DEF storeAuth
    <3> QED
      BY <1>1, <3>1
  <2>4. ~FormAccepted(t)
    BY <1>1, <2>2, IssuedType DEF FormAccepted, storeAuth, TabOf
  <2>5. ~DataArrives(t) /\ ~FormRefused(t)
    BY <1>1 DEF DataArrives, FormRefused
  <2>6. CASE ProfileUnauthorized(t)
    <3>1. PICK r \in tab[t].me :
            /\ Unauthorized(r.token)
            /\ tab' = [tab EXCEPT ![t].user = None, ![t].me = @ \ {r}, ![t].loading = FALSE]
      BY <2>6 DEF ProfileUnauthorized
    <3>2. tab'[t].me = tab[t].me \ {r}
      BY <1>1, <2>2, <3>1 DEF IInv, TypeOK, Tab
    <3> QED
      BY <3>1, <3>2
  <2>7. CASE ProfileFails(t)
    <3>1. PICK r \in tab[t].me :
            /\ ~r.stored
            /\ tab' = [tab EXCEPT ![t].user = None, ![t].me = @ \ {r}, ![t].loading = FALSE]
      BY <1>1, <2>7 DEF ProfileFails
    <3>2. tab'[t].me = tab[t].me \ {r}
      BY <1>1, <2>2, <3>1 DEF IInv, TypeOK, Tab
    <3> QED
      BY <3>1, <3>2
  <2>8. CASE DataUnauthorized(t)
    <3>1. tab'[t].data = {}
      BY <1>1, <2>2, <2>8 DEF DataUnauthorized, IInv, TypeOK, Tab
    <3> QED
      BY <2>8, <3>1 DEF DataUnauthorized
  <2> QED
    BY <2>1, <2>3, <2>4, <2>5, <2>6, <2>7, <2>8 DEF Answer
<1>2. IInv /\ [Next]_vars => [storage.token # 0 /\ storage'.token = 0 => Reason]_vars
    BY <1>1
<1>3. Spec => [][storage.token # 0 /\ storage'.token = 0 => Reason]_vars
    BY <1>2, Invariance, PTL DEF Spec
<1> QED
    BY <1>3 DEF SessionEndsForAReason
=============================================================================
