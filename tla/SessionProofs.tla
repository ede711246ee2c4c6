--------------------------- MODULE SessionProofs ---------------------------
(***************************************************************************)
(* Theorems about Session, for any tabs, submissions, names and passwords: *)
(* one account per name, the name a ready page shows, and what signing out *)
(* leaves behind.                                                          *)
(***************************************************************************)
EXTENDS Session, TLAPS

-----------------------------------------------------------------------------
(* What the helpers of the actions keep. *)

LEMMA SettledType ==
    ASSUME NEW p \in Pages, NEW ph \in Phases
    PROVE  Settled(p, ph) \in Document
BY DEF Settled, Document

LEMMA LeaveType ==
    ASSUME doc \in [Tabs -> Document], NEW t \in Tabs, NEW p \in Pages
    PROVE  /\ Leave(t, p) \in [Tabs -> Document]
           /\ Leave(t, p)[t].phase = "leaving"
           /\ \A u \in Tabs \ {t} : Leave(t, p)[u] = doc[u]
BY DEF Leave, Document, Phases

LEMMA SetType ==
    ASSUME TypeOK, NEW t \in Tabs, NEW token \in Token, NEW role \in Roles,
           NEW name \in Texts \cup Names \cup {"", "user"},
           SetAuthState(t, token, role, name)
    PROVE  /\ auth' \in [Tabs -> Auth]
           /\ legacy' \in Auth
           /\ legacy' = NoAuth
           /\ auth'[t] = [token |-> token, role |-> role, name |-> name]
           /\ \A u \in Tabs \ {t} : auth'[u] = auth[u]
BY DEF TypeOK, SetAuthState, Auth, NoAuth

LEMMA ClearType ==
    ASSUME TypeOK, NEW t \in Tabs, ClearAuthState(t)
    PROVE  /\ auth' \in [Tabs -> Auth]
           /\ legacy' \in Auth
           /\ legacy' = NoAuth
           /\ \A u \in Tabs \ {t} : auth'[u] = auth[u]
BY DEF TypeOK, ClearAuthState, Auth, NoAuth

LEMMA FinishType ==
    ASSUME TypeOK, NEW s \in Submits, Finish(s)
    PROVE  /\ job' \in [Submits -> Job \cup {NoJob}]
           /\ form' \in [Tabs -> Fields]
BY OwnerAssumption DEF TypeOK, Finish, Fields

LEMMA RequestType ==
    /\ \A fields \in Fields : Request("login", fields) \in Job
    /\ \A fields \in Entries : Request("check", fields) \in Job
BY DEF Request, Job

-----------------------------------------------------------------------------
(* The inductive invariant is the conjunction of the four: a page can only  *)
(* become ready by having its user synced, and every write to a session     *)
(* empties the shared storage.                                              *)

IInv == TypeOK /\ OneAccountPerName /\ ShownIsOwner /\ SignedOutMeansOut

\* The initial states satisfy the invariant.
LEMMA InitInv == Init => IInv
<1> SUFFICES ASSUME Init PROVE IInv
  OBVIOUS
<1>1. TypeOK
  <2>1. NoAuth \in Auth
    BY DEF NoAuth, Auth
  <2>2. \A p \in Pages : Settled(p, "fetched") \in Document
    BY SettledType DEF Phases
  <2>3. doc \in [Tabs -> Document]
    <3>1. {Settled(p, "fetched") : p \in Pages} \subseteq Document
      BY <2>2
    <3>2. doc \in [Tabs -> {Settled(p, "fetched") : p \in Pages}]
      BY DEF Init
    <3> QED BY <3>1, <3>2
  <2>4. form \in [Tabs -> Fields] /\ job \in [Submits -> Job \cup {NoJob}]
    BY DEF Init, Fields
  <2>5. rows \in SUBSET Account
    BY AccountsAssumption DEF Init
  <2>6. epoch \in 0 .. MaxEpoch
    BY TokenAssumption DEF Init
  <2>7. legacy \in Auth
    BY <2>1, TokenAssumption DEF Init
  <2>8. auth \in [Tabs -> Auth]
    BY <2>1, TokenAssumption DEF Init
  <2> QED BY <2>3, <2>4, <2>5, <2>6, <2>7, <2>8 DEF TypeOK
<1>2. \A t \in Tabs : doc[t].phase = "fetched"
  <2>1. \A d \in {Settled(p, "fetched") : p \in Pages} : d.phase = "fetched"
    BY DEF Settled
  <2> QED BY <2>1 DEF Init
<1>3. OneAccountPerName
  BY AccountsAssumption DEF Init, OneAccountPerName
<1>4. ShownIsOwner /\ SignedOutMeansOut
  BY <1>2 DEF ShownIsOwner, SignedOutMeansOut
<1> QED BY <1>1, <1>3, <1>4 DEF IInv

\* Signing a tab out keeps the invariant, whatever signed it out.
LEMMA LogOutInv ==
    ASSUME IInv, NEW t \in Tabs, LogOut(t), UNCHANGED <<rows, epoch, form, job>>
    PROVE  IInv'
<1> USE DEF IInv
<1>1. /\ auth' \in [Tabs -> Auth] /\ legacy' \in Auth /\ legacy' = NoAuth
      /\ \A u \in Tabs \ {t} : auth'[u] = auth[u]
  BY ClearType DEF LogOut
<1>2. /\ doc' \in [Tabs -> Document] /\ doc'[t].phase = "leaving"
      /\ \A u \in Tabs \ {t} : doc'[u] = doc[u]
  BY LeaveType DEF LogOut, TypeOK, Pages
<1>3. TypeOK'
  BY <1>1, <1>2 DEF TypeOK
<1>4. OneAccountPerName'
  BY DEF OneAccountPerName
<1>5. ShownIsOwner'
  BY <1>1, <1>2 DEF ShownIsOwner
<1>6. SignedOutMeansOut'
  BY <1>1 DEF SignedOutMeansOut
<1> QED BY <1>3, <1>4, <1>5, <1>6

\* The steps of a page keep the invariant.
LEMMA PageStepInv ==
    ASSUME IInv, NEW t \in Tabs, PageStep(t)
    PROVE  IInv'
<1> USE DEF IInv
<1>1. CASE Load(t)
  <2>1. doc[t].to \in Pages
    BY DEF TypeOK, Document
  <2>2. Settled(doc[t].to, "fetched") \in Document
    BY <2>1, SettledType DEF Phases
  <2>3. doc' = [doc EXCEPT ![t] = Settled(doc[t].to, "fetched")]
    BY <1>1 DEF Load
  <2>4. doc' \in [Tabs -> Document] /\ doc'[t].phase = "fetched"
        /\ \A u \in Tabs \ {t} : doc'[u] = doc[u]
    BY <2>2, <2>3 DEF TypeOK, Settled
  <2>5. \A s \in Submits : job[s] \in Job =>
                             [job[s] EXCEPT !.live = FALSE] \in Job
    BY DEF Job
  <2>6. \A s \in Submits : Live(s) => job[s] \in Job
    BY DEF Live, TypeOK
  <2>7. job' \in [Submits -> Job \cup {NoJob}]
    <3>1. \A s \in Submits :
            (IF ~Live(s) \/ Owner(s) # t THEN job[s]
             ELSE IF At(s, "login") THEN NoJob
             ELSE [job[s] EXCEPT !.live = FALSE]) \in Job \cup {NoJob}
      BY <2>5, <2>6 DEF TypeOK
    <3> QED BY <1>1, <3>1, Zenon DEF Load
  <2>8. form' \in [Tabs -> Fields]
    BY <1>1 DEF Load, TypeOK, Fields
  <2>9. TypeOK'
    BY <1>1, <2>4, <2>7, <2>8 DEF Load, TypeOK
  <2>10. OneAccountPerName'
    BY <1>1 DEF Load, OneAccountPerName
  <2>11. ShownIsOwner' /\ SignedOutMeansOut'
    BY <1>1, <2>4 DEF Load, ShownIsOwner, SignedOutMeansOut
  <2> QED BY <2>9, <2>10, <2>11
<1>2. CASE RunScript(t)
  <2>1. /\ auth' \in [Tabs -> Auth] /\ legacy' \in Auth
        /\ \A u \in Tabs \ {t} : auth'[u] = auth[u]
        /\ legacy' \in {legacy, NoAuth}
        /\ auth'[t] = NoAuth => legacy' = NoAuth
    BY <1>2 DEF RunScript, Migrate, Migrated, TypeOK, Auth, NoAuth
  <2>2. /\ doc' \in [Tabs -> Document]
        /\ doc'[t].page = "app" => doc'[t].phase # "ready"
        /\ \A u \in Tabs \ {t} : doc'[u] = doc[u]
    <3>1. CASE doc' = Leave(t, "app") \/ doc' = Leave(t, "login")
      BY <3>1, LeaveType DEF TypeOK, Pages
    <3>2. CASE doc[t].page = "login" /\ doc' = [doc EXCEPT ![t].phase = "ready"]
      BY <3>2 DEF TypeOK, Document, Phases
    <3>3. CASE doc' = [doc EXCEPT ![t].phase = "syncing"]
      BY <3>3 DEF TypeOK, Document, Phases
    <3> QED BY <1>2, <3>1, <3>2, <3>3 DEF RunScript
  <2>3. TypeOK'
    BY <1>2, <2>1, <2>2 DEF RunScript, TypeOK
  <2>4. OneAccountPerName'
    BY <1>2 DEF RunScript, OneAccountPerName
  <2>5. ShownIsOwner'
    BY <2>1, <2>2 DEF ShownIsOwner
  <2>6. SignedOutMeansOut'
    BY <2>1, <2>2 DEF SignedOutMeansOut
  <2> QED BY <2>3, <2>4, <2>5, <2>6
<1>3. CASE SyncAnswer(t)
  <2>1. CASE ~Valid(auth[t].token)
    BY <1>3, <2>1, LogOutInv DEF SyncAnswer
  <2>2. CASE Valid(auth[t].token)
    <3>1. auth[t].token \in Token /\ auth[t].token.sub \in Names
      BY <2>2 DEF Valid, TypeOK, Auth, Token
    <3>2. SetAuthState(t, auth[t].token, "user", auth[t].token.sub)
      BY <1>3, <2>2 DEF SyncAnswer
    <3>3. /\ auth' \in [Tabs -> Auth] /\ legacy' \in Auth /\ legacy' = NoAuth
          /\ auth'[t] = [token |-> auth[t].token, role |-> "user",
                          name |-> auth[t].token.sub]
          /\ \A u \in Tabs \ {t} : auth'[u] = auth[u]
      <4>1. "user" \in Roles
        BY DEF Roles
      <4> DEFINE token == auth[t].token
                 name == auth[t].token.sub
      <4>2. token \in Token /\ name \in Texts \cup Names \cup {"", "user"}
        BY <3>1
      <4>3. SetAuthState(t, token, "user", name)
        BY <3>2
      <4> HIDE DEF token, name
      <4>4. /\ auth' \in [Tabs -> Auth] /\ legacy' \in Auth /\ legacy' = NoAuth
            /\ auth'[t] = [token |-> token, role |-> "user", name |-> name]
            /\ \A u \in Tabs \ {t} : auth'[u] = auth[u]
        BY <4>1, <4>2, <4>3, SetType
      <4> QED BY <4>4 DEF token, name
    <3>4. /\ doc' \in [Tabs -> Document]
          /\ \A u \in Tabs \ {t} : doc'[u] = doc[u]
      <4>1. doc' = [doc EXCEPT ![t].phase = "ready"]
        BY <1>3, <2>2 DEF SyncAnswer
      <4>2. doc \in [Tabs -> Document]
        BY DEF TypeOK
      <4> QED BY <4>1, <4>2 DEF Document, Phases
    <3>5. TypeOK'
      BY <1>3, <3>3, <3>4 DEF SyncAnswer, TypeOK
    <3>6. OneAccountPerName'
      BY <1>3 DEF SyncAnswer, OneAccountPerName
    <3>7. auth[t].token # NoToken
      BY <2>2 DEF Valid
    <3>8. ShownIsOwner'
      BY <3>3, <3>4, <3>7 DEF ShownIsOwner
    <3>9. SignedOutMeansOut'
      BY <3>3 DEF SignedOutMeansOut
    <3> QED BY <3>5, <3>6, <3>8, <3>9
  <2> QED BY <2>1, <2>2
<1>4. CASE SyncFails(t)
  BY <1>4, LogOutInv DEF SyncFails
<1> QED BY <1>1, <1>2, <1>3, <1>4 DEF PageStep

\* What the user does on a page keeps the invariant.
LEMMA UserStepInv ==
    ASSUME IInv, NEW t \in Tabs, UserStep(t)
    PROVE  IInv'
<1> USE DEF IInv
<1>1. CASE Refused(t)
  BY <1>1, LogOutInv DEF Refused
<1>2. CASE PressLogOut(t)
  BY <1>2, LogOutInv DEF PressLogOut
<1>3. ASSUME NEW page \in Pages, Navigate(t, page)
      PROVE  IInv'
  <2>1. /\ doc' \in [Tabs -> Document] /\ doc'[t].phase = "leaving"
        /\ \A u \in Tabs \ {t} : doc'[u] = doc[u]
    BY <1>3, LeaveType DEF Navigate, TypeOK
  <2>2. doc[t].phase # "fetched"
    BY <1>3 DEF Navigate
  <2>3. TypeOK'
    BY <1>3, <2>1 DEF Navigate, TypeOK
  <2>4. OneAccountPerName'
    BY <1>3 DEF Navigate, OneAccountPerName
  <2>5. ShownIsOwner' /\ SignedOutMeansOut'
    BY <1>3, <2>1, <2>2 DEF Navigate, ShownIsOwner, SignedOutMeansOut
  <2> QED BY <2>3, <2>4, <2>5
<1>4. ASSUME NEW fields \in Fields, Edit(t, fields)
      PROVE  IInv'
  BY <1>4 DEF Edit, TypeOK, OneAccountPerName, ShownIsOwner, SignedOutMeansOut
<1> QED BY <1>1, <1>2, <1>3, <1>4 DEF UserStep

\* A submission that only changes what is under way keeps the invariant.
LEMMA FormInv ==
    ASSUME IInv, job' \in [Submits -> Job \cup {NoJob}], form' \in [Tabs -> Fields],
           UNCHANGED <<rows, epoch, legacy, auth, doc>>
    PROVE  IInv'
BY DEF IInv, TypeOK, OneAccountPerName, ShownIsOwner, SignedOutMeansOut

\* The steps of a submission keep the invariant.
LEMMA JobStepInv ==
    ASSUME IInv, NEW s \in Submits, JobStep(s)
    PROVE  IInv'
<1> USE DEF IInv
<1>1. ASSUME NEW mode \in {"login", "register"}, NEW fields \in Entries,
             Submit(s, mode, fields)
      PROVE  IInv'
  <2>1. Request(IF mode = "register" THEN "check" ELSE "login", fields) \in Job
    BY RequestType DEF Fields
  <2>2. job' \in [Submits -> Job \cup {NoJob}]
    BY <1>1, <2>1 DEF Submit, TypeOK
  <2>3. form' \in [Tabs -> Fields]
    BY <1>1, OwnerAssumption DEF Submit, TypeOK, Fields
  <2> QED BY <1>1, <2>2, <2>3, FormInv DEF Submit
<1>2. CASE RegisterCheck(s)
  <2>1. CASE Finish(s)
    BY <1>2, <2>1, FinishType, FormInv DEF RegisterCheck
  <2>2. CASE job' = [job EXCEPT ![s].stage = "insert"] /\ UNCHANGED form
    <3>1. job[s] \in Job /\ job[s].stage = "check"
      BY <1>2 DEF RegisterCheck, At, TypeOK
    <3>2. [job[s] EXCEPT !.stage = "insert"] \in Job
      BY <3>1 DEF Job
    <3>3. job' \in [Submits -> Job \cup {NoJob}]
      BY <2>2, <3>2 DEF TypeOK
    <3> QED BY <1>2, <2>2, <3>3, FormInv DEF RegisterCheck, TypeOK
  <2> QED BY <1>2, <2>1, <2>2 DEF RegisterCheck
<1>3. ASSUME NEW heard \in BOOLEAN, RegisterInsert(s, heard)
      PROVE  IInv'
  <2>1. job[s] \in Job
    BY <1>3 DEF RegisterInsert, At, TypeOK
  <2>2. job' \in [Submits -> Job \cup {NoJob}] /\ form' \in [Tabs -> Fields]
    <3>1. CASE Finish(s)
      BY <3>1, FinishType
    <3>2. CASE /\ job' = [job EXCEPT ![s] = Request("login", form[Owner(s)])]
               /\ UNCHANGED form
      <4>1. form[Owner(s)] \in Fields
        BY OwnerAssumption DEF TypeOK
      <4>2. Request("login", form[Owner(s)]) \in Job
        BY <4>1, RequestType
      <4> QED BY <3>2, <4>2 DEF TypeOK
    <3> QED BY <1>3, <3>1, <3>2 DEF RegisterInsert
  <2>3. CASE Taken(NameOf(job[s].fields))
    <3>1. UNCHANGED <<rows, epoch, legacy, auth, doc>>
      BY <1>3, <2>3 DEF RegisterInsert
    <3> QED BY <2>2, <3>1, FormInv
  <2>4. CASE ~Taken(NameOf(job[s].fields))
    <3> DEFINE new == Row(job[s].fields, "analyst")
    <3>1. rows' = rows \cup {new}
      BY <1>3, <2>4 DEF RegisterInsert
    <3>2. UNCHANGED <<epoch, legacy, auth, doc>>
      BY <1>3 DEF RegisterInsert
    <3>3. job[s].fields \in Entries
      BY <1>3, <2>1 DEF RegisterInsert, At, Job
    <3>4. new \in Account /\ new.name = NameOf(job[s].fields)
      BY <3>3, CanonicalAssumption, EntriesAssumption DEF Row, Account, NameOf
    <3>5. \A r \in rows : r.name # new.name
      BY <2>4, <3>4 DEF Taken
    <3>6. OneAccountPerName'
      BY <3>1, <3>5 DEF OneAccountPerName
    <3>7. TypeOK'
      BY <2>2, <3>1, <3>2, <3>4 DEF TypeOK
    <3>8. ShownIsOwner' /\ SignedOutMeansOut'
      BY <3>2 DEF ShownIsOwner, SignedOutMeansOut
    <3> QED BY <3>6, <3>7, <3>8
  <2> QED BY <2>3, <2>4
<1>4. CASE LoginAnswer(s)
  <2> DEFINE t == Owner(s)
  <2>1. t \in Tabs
    BY OwnerAssumption
  <2>2. PICK r \in Authenticated(job[s].fields) :
          SetAuthState(t, [sub |-> r.name, epoch |-> epoch], r.role,
                       IF form[t].text = "" THEN "user" ELSE form[t].text)
    BY <1>4 DEF LoginAnswer
  <2>3. r \in Account
    BY <2>2 DEF Authenticated, TypeOK
  <2>4. /\ [sub |-> r.name, epoch |-> epoch] \in Token
        /\ r.role \in Roles
    BY <2>3 DEF Account, Token, Roles, TypeOK
  <2>5. form[t] \in Fields
    BY <2>1 DEF TypeOK
  <2>6. form[t].text \in Texts \cup {""}
    <3> HIDE DEF t
    <3>1. CASE form[t] = Blank
      <4>1. Blank.text = ""
        BY DEF Blank
      <4>2. form[t].text = ""
        BY <3>1, <4>1
      <4> QED BY <4>2
    <3>2. CASE form[t] \in Entries
      BY <3>2, EntriesAssumption
    <3> QED BY <2>5, <3>1, <3>2 DEF Fields
  <2>7. (IF form[t].text = "" THEN "user" ELSE form[t].text)
           \in Texts \cup Names \cup {"", "user"}
    BY <2>6
  <2>8. /\ auth' \in [Tabs -> Auth] /\ legacy' \in Auth /\ legacy' = NoAuth
        /\ \A u \in Tabs \ {t} : auth'[u] = auth[u]
    <3> HIDE DEF t
    <3> QED BY <2>1, <2>2, <2>4, <2>7, SetType
  <2>9. /\ doc' \in [Tabs -> Document] /\ doc'[t].phase = "leaving"
        /\ \A u \in Tabs \ {t} : doc'[u] = doc[u]
    BY <1>4, <2>1, LeaveType DEF LoginAnswer, TypeOK, Pages
  <2>10. job' \in [Submits -> Job \cup {NoJob}] /\ form' \in [Tabs -> Fields]
    BY <1>4, FinishType DEF LoginAnswer
  <2>11. TypeOK'
    BY <1>4, <2>8, <2>9, <2>10 DEF LoginAnswer, TypeOK
  <2>12. OneAccountPerName'
    BY <1>4 DEF LoginAnswer, OneAccountPerName
  <2>13. ShownIsOwner'
    BY <2>8, <2>9 DEF ShownIsOwner
  <2>14. SignedOutMeansOut'
    BY <2>8 DEF SignedOutMeansOut
  <2> QED BY <2>11, <2>12, <2>13, <2>14
<1>5. CASE LoginFails(s)
  BY <1>5, FinishType, FormInv DEF LoginFails
<1> QED BY <1>1, <1>2, <1>3, <1>4, <1>5 DEF JobStep

\* Every step keeps the invariant.
LEMMA StepInv == IInv /\ [Next]_vars => IInv'
<1> SUFFICES ASSUME IInv, [Next]_vars PROVE IInv'
  OBVIOUS
<1>1. CASE Expire
  <2>1. UNCHANGED <<rows, legacy, auth, doc, form, job>>
    BY <1>1 DEF Expire
  <2>2. epoch' \in 0 .. MaxEpoch
    BY <1>1, TokenAssumption DEF Expire, IInv, TypeOK
  <2>3. TypeOK'
    BY <2>1, <2>2 DEF IInv, TypeOK
  <2> QED
    BY <2>1, <2>3 DEF IInv, OneAccountPerName, ShownIsOwner, SignedOutMeansOut
<1>2. CASE \E t \in Tabs : PageStep(t) \/ UserStep(t)
  BY <1>2, PageStepInv, UserStepInv
<1>3. CASE \E s \in Submits : JobStep(s)
  BY <1>3, JobStepInv
<1>4. CASE UNCHANGED vars
  BY <1>4 DEF vars, IInv, TypeOK, OneAccountPerName, ShownIsOwner, SignedOutMeansOut
<1> QED BY <1>1, <1>2, <1>3, <1>4 DEF Next

-----------------------------------------------------------------------------
(* The theorems. *)

\* The invariant holds in every behaviour.
THEOREM Invariance == Spec => []IInv
BY InitInv, StepInv, PTL DEF Spec

\* Every variable keeps its type: user_service.py:48 stores names normalised,
\* the pages store whole triples.
THEOREM TypeCorrect == Spec => []TypeOK
BY Invariance, PTL DEF IInv

\* Two registrations of one name never both become accounts: the commit in
\* user_service.py:51 looks again, through the unique index.
THEOREM AccountsUnique == Spec => []OneAccountPerName
BY Invariance, PTL DEF IInv

\* A ready page shows the name its token was issued to (app.js:1385).
THEOREM OwnerShown == Spec => []ShownIsOwner
BY Invariance, PTL DEF IInv

\* A page without a session leaves no shared login behind (app.js:87, :964).
THEOREM SignedOutStays == Spec => []SignedOutMeansOut
BY Invariance, PTL DEF IInv
=============================================================================
