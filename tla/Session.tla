------------------------------ MODULE Session ------------------------------
(***************************************************************************)
(* The users of the platform and the tabs of one browser.                  *)
(*                                                                         *)
(* The server keeps the users table (user_service.py).  A tab is one       *)
(* document at a time: the login page or a page of the application         *)
(* (src/frontend/app.js).  A signed-in tab holds a token, a role and a     *)
(* name in its own sessionStorage; older builds left the same three in the *)
(* localStorage all tabs share, from where the first page that finds no    *)
(* session takes them.                                                     *)
(*                                                                         *)
(* Time passes between a submit and its answer: the form may be edited, it *)
(* may be submitted again, the page may be left.  What a tab reads after   *)
(* an await it reads here when the answer arrives.                         *)
(***************************************************************************)
EXTENDS Naturals

CONSTANTS
    Tabs,           \* the open tabs
    Submits,        \* submissions of the login form that can be under way
    Owner(_),       \* the tab whose form a submission is from
    Texts,          \* what can be typed as a username
    Names,          \* usernames as the users table holds them
    Canonical(_),   \* strip().lower()
    Passwords,      \* passwords the policy accepts
    Entries,        \* names with passwords that are typed into the form
    Accounts,       \* users table at the start
    LegacyLogins,   \* logins from before: in localStorage left by an older
                    \* build, in sessionStorage of a tab already signed in
    NoToken,        \* no token stored
    NoJob,          \* a submission not under way
    MaxEpoch        \* bound: how often all tokens issued so far expire

VARIABLES
    rows,     \* users table
    epoch,    \* tokens are good in the epoch they were issued in
    legacy,   \* the three keys in localStorage
    auth,     \* per tab: the three keys in sessionStorage
    doc,      \* per tab: the document, and where it is in its life
    form,     \* per tab: the login form's fields, while a submission runs
    job       \* submissions under way

vars == <<rows, epoch, legacy, auth, doc, form, job>>

Roles == {"user", "analyst", "admin"}
Token == [sub : Names, epoch : 0 .. MaxEpoch]
Auth == [token : Token \cup {NoToken}, role : Roles \cup {""},
         name : Texts \cup Names \cup {"", "user"}]
NoAuth == [token |-> NoToken, role |-> "", name |-> ""]

Account == [name : Names, password : Passwords, role : {"analyst", "admin"}]

ASSUME CanonicalAssumption ==
    /\ "" \notin Texts
    /\ \A text \in Texts : Canonical(text) \in Names

ASSUME EntriesAssumption == Entries \subseteq [text : Texts, password : Passwords]

ASSUME OwnerAssumption == \A s \in Submits : Owner(s) \in Tabs

ASSUME AccountsAssumption ==
    /\ Accounts \subseteq Account
    /\ \A r, s \in Accounts : r.name = s.name => r = s

ASSUME TokenAssumption ==
    /\ MaxEpoch \in Nat
    /\ NoToken \notin Token
    /\ LegacyLogins \subseteq Auth

(***************************************************************************)
(* A document: fetched (its script has not run), syncing (/auth/me is in   *)
(* flight), ready, or leaving (window.location.href was assigned; the      *)
(* script keeps running until the next document takes over).               *)
(***************************************************************************)
Pages == {"login", "app"}
Phases == {"fetched", "syncing", "ready", "leaving"}
Document == [page : Pages, phase : Phases, to : Pages]

Settled(page, phase) == [page |-> page, phase |-> phase, to |-> page]
Leave(t, page) == [doc EXCEPT ![t].phase = "leaving", ![t].to = page]

Blank == [text |-> "", password |-> ""]
Fields == Entries \cup {Blank}

\* A submission: the two halves of a registration, then the login with what
\* the form holds by then (live: the page that sent it is still there).
Job == [stage : {"check", "insert"}, live : BOOLEAN, fields : Entries]
       \cup [stage : {"login"}, live : BOOLEAN, fields : Fields]
ASSUME NoJobAssumption == NoJob \notin Job

Request(stage, fields) == [stage |-> stage, live |-> TRUE, fields |-> fields]

TypeOK ==
    /\ rows \in SUBSET Account
    /\ epoch \in 0 .. MaxEpoch
    /\ legacy \in Auth
    /\ auth \in [Tabs -> Auth]
    /\ doc \in [Tabs -> Document]
    /\ form \in [Tabs -> Fields]
    /\ job \in [Submits -> Job \cup {NoJob}]

Init ==
    /\ rows = Accounts
    /\ epoch = 0
    /\ legacy \in LegacyLogins \cup {NoAuth}
    /\ auth \in [Tabs -> LegacyLogins \cup {NoAuth}]
    /\ doc \in [Tabs -> {Settled(p, "fetched") : p \in Pages}]
    /\ form = [t \in Tabs |-> Blank]
    /\ job = [s \in Submits |-> NoJob]

-----------------------------------------------------------------------------
(* The server. *)

NameOf(fields) == IF fields.text = "" THEN "" ELSE Canonical(fields.text)
Taken(name) == \E r \in rows : r.name = name
\* Mutant: the name is inserted as it was typed.
RowAsTyped(fields, role) ==
    [name |-> fields.text, password |-> fields.password, role |-> role]

Row(fields, role) ==
    [name |-> Canonical(fields.text), password |-> fields.password, role |-> role]

\* authenticate_user: the row of that name, if the password is its own.
Authenticated(fields) ==
    {r \in rows : r.name = NameOf(fields) /\ r.password = fields.password}

\* get_current_user: signed, not expired, and the user is still there.
Valid(token) == token # NoToken /\ token.epoch = epoch /\ Taken(token.sub)

\* Every token issued so far runs out.
Expire ==
    /\ epoch < MaxEpoch
    /\ epoch' = epoch + 1
    /\ UNCHANGED <<rows, legacy, auth, doc, form, job>>

-----------------------------------------------------------------------------
(* Storage and leaving a page. *)

SetAuthState(t, token, role, name) ==
    /\ auth' = [auth EXCEPT ![t] = [token |-> token, role |-> role, name |-> name]]
    /\ legacy' = NoAuth

\* Mutant: the shared storage is forgotten.
ClearSessionOnly(t) == auth' = [auth EXCEPT ![t] = NoAuth] /\ UNCHANGED legacy

\* Mutant: the tab's own storage is forgotten.
ClearSharedOnly(t) == legacy' = NoAuth /\ UNCHANGED auth

ClearAuthState(t) ==
    /\ auth' = [auth EXCEPT ![t] = NoAuth]
    /\ legacy' = NoAuth

LogOut(t) == ClearAuthState(t) /\ doc' = Leave(t, "login")

-----------------------------------------------------------------------------
(* The login form. *)

At(s, stage) == job[s] # NoJob /\ job[s].stage = stage
Live(s) == job[s] # NoJob /\ job[s].live

\* A submission is over; the fields matter only while one runs.
Finish(s) ==
    /\ job' = [job EXCEPT ![s] = NoJob]
    /\ form' = IF \E o \in Submits \ {s} : Live(o) /\ Owner(o) = Owner(s)
               THEN form
               ELSE [form EXCEPT ![Owner(s)] = Blank]

CanType(t) == doc[t].page = "login" /\ doc[t].phase \in {"ready", "leaving"}

\* The form is submitted.  The button is never disabled, so a second
\* submission may overtake the first.  (A registration without a name, or whose
\* two passwords differ, is not sent; a login without them is refused.)
Submit(s, mode, fields) ==
    /\ CanType(Owner(s))
    /\ job[s] = NoJob
    /\ job' = [job EXCEPT ![s] =
                 Request(IF mode = "register" THEN "check" ELSE "login", fields)]
    /\ form' = [form EXCEPT ![Owner(s)] = fields]
    /\ UNCHANGED <<rows, epoch, legacy, auth, doc>>

\* The fields are edited while a submission is under way.
Edit(t, fields) ==
    /\ CanType(t)
    /\ \E s \in Submits : Live(s) /\ Owner(s) = t
    /\ form' = [form EXCEPT ![t] = fields]
    /\ UNCHANGED <<rows, epoch, legacy, auth, doc, job>>

\* create_user looks the name up ...
RegisterCheck(s) ==
    /\ At(s, "check")
    /\ IF Taken(NameOf(job[s].fields))
       THEN Finish(s)
       ELSE /\ job' = [job EXCEPT ![s].stage = "insert"]
            /\ UNCHANGED form
    /\ UNCHANGED <<rows, epoch, legacy, auth, doc>>

\* Mutant: no unique index on the name.
InsertUnchecked(s, heard) ==
    /\ At(s, "insert")
    /\ rows' = rows \cup {Row(job[s].fields, "analyst")}
    /\ Finish(s)
    /\ UNCHANGED <<epoch, legacy, auth, doc>>

\* ... and commits the row, which the unique index may refuse.  On success the
\* page, if it is still there and hears of it, logs in with what its fields
\* hold now.
RegisterInsert(s, heard) ==
    /\ At(s, "insert")
    /\ IF Taken(NameOf(job[s].fields))
       THEN Finish(s) /\ UNCHANGED rows
       ELSE /\ rows' = rows \cup {Row(job[s].fields, "analyst")}
            /\ IF heard /\ job[s].live
               THEN /\ job' = [job EXCEPT ![s] = Request("login", form[Owner(s)])]
                    /\ UNCHANGED form
               ELSE Finish(s)
    /\ UNCHANGED <<epoch, legacy, auth, doc>>

\* The login is answered: the token is the one of the credentials sent, the
\* name is what the field holds now.
LoginAnswer(s) ==
    LET t == Owner(s) IN
    /\ At(s, "login")
    /\ \E r \in Authenticated(job[s].fields) :
         SetAuthState(t, [sub |-> r.name, epoch |-> epoch], r.role,
                      IF form[t].text = "" THEN "user" ELSE form[t].text)
    /\ doc' = Leave(t, "app")
    /\ Finish(s)
    /\ UNCHANGED <<rows, epoch>>

\* Wrong credentials, or no answer at all: a message on the page.
LoginFails(s) ==
    /\ At(s, "login")
    /\ Finish(s)
    /\ UNCHANGED <<rows, epoch, legacy, auth, doc>>

-----------------------------------------------------------------------------
(* The life of a page. *)

\* The next document takes over: its script is new, the old page's requests
\* go on at the server only.
Load(t) ==
    /\ doc[t].phase = "leaving"
    /\ doc' = [doc EXCEPT ![t] = Settled(@.to, "fetched")]
    /\ form' = [form EXCEPT ![t] = Blank]
    /\ job' = [s \in Submits |->
                 IF ~Live(s) \/ Owner(s) # t THEN job[s]
                 ELSE IF At(s, "login") THEN NoJob
                 ELSE [job[s] EXCEPT !.live = FALSE]]
    /\ UNCHANGED <<rows, epoch, legacy, auth>>

\* migrateLegacyAuthState: a tab without a session takes the shared one over.
Migrated(t) == IF auth[t] # NoAuth THEN auth[t] ELSE legacy
Migrate(t) ==
    /\ auth' = [auth EXCEPT ![t] = Migrated(t)]
    /\ legacy' = IF auth[t] # NoAuth THEN legacy ELSE NoAuth

\* The script runs and initApp begins: the login page sends a signed-in user
\* on, a page of the application asks the server who the token is, or sends
\* the visitor to the login page.
RunScript(t) ==
    LET signedIn == Migrated(t).token # NoToken
        login == doc[t].page = "login"
    IN
    /\ doc[t].phase = "fetched"
    /\ Migrate(t)
    /\ doc' = IF login /\ signedIn THEN Leave(t, "app")
              ELSE IF login THEN [doc EXCEPT ![t].phase = "ready"]
              ELSE IF signedIn THEN [doc EXCEPT ![t].phase = "syncing"]
              ELSE Leave(t, "login")
    /\ UNCHANGED <<rows, epoch, form, job>>

\* Mutant: the stored name is kept.
SyncKeepsName(t) ==
    /\ doc[t].phase = "syncing"
    /\ IF Valid(auth[t].token)
       THEN /\ SetAuthState(t, auth[t].token, "user", auth[t].name)
            /\ doc' = [doc EXCEPT ![t].phase = "ready"]
       ELSE LogOut(t)
    /\ UNCHANGED <<rows, epoch, form, job>>

\* syncAuthenticatedUser: /auth/me names the user; it has no field `role`, so
\* the stored role falls back to "user".
SyncAnswer(t) ==
    /\ doc[t].phase = "syncing"
    /\ IF Valid(auth[t].token)
       THEN /\ SetAuthState(t, auth[t].token, "user", auth[t].token.sub)
            /\ doc' = [doc EXCEPT ![t].phase = "ready"]
       ELSE LogOut(t)
    /\ UNCHANGED <<rows, epoch, form, job>>

\* Any failure of that request, the network's too, logs the tab out.
SyncFails(t) ==
    /\ doc[t].phase = "syncing"
    /\ LogOut(t)
    /\ UNCHANGED <<rows, epoch, form, job>>

\* A later request is answered 401.
Refused(t) ==
    /\ doc[t].page = "app" /\ doc[t].phase \in {"ready", "leaving"}
    /\ ~Valid(auth[t].token)
    /\ LogOut(t)
    /\ UNCHANGED <<rows, epoch, form, job>>

\* The button in the top bar.
PressLogOut(t) ==
    /\ doc[t].page = "app" /\ doc[t].phase = "ready"
    /\ LogOut(t)
    /\ UNCHANGED <<rows, epoch, form, job>>

\* A link, an address typed, a reload.
Navigate(t, page) ==
    /\ doc[t].phase = "ready"
    /\ doc' = Leave(t, page)
    /\ UNCHANGED <<rows, epoch, legacy, auth, form, job>>

-----------------------------------------------------------------------------
PageStep(t) == Load(t) \/ RunScript(t) \/ SyncAnswer(t) \/ SyncFails(t)

UserStep(t) ==
    \/ Refused(t)
    \/ PressLogOut(t)
    \/ \E page \in Pages : Navigate(t, page)
    \/ \E fields \in Fields : Edit(t, fields)

JobStep(s) ==
    \/ \E mode \in {"login", "register"}, fields \in Entries : Submit(s, mode, fields)
    \/ RegisterCheck(s)
    \/ \E heard \in BOOLEAN : RegisterInsert(s, heard)
    \/ LoginAnswer(s)
    \/ LoginFails(s)

Next ==
    \/ Expire
    \/ \E t \in Tabs : PageStep(t) \/ UserStep(t)
    \/ \E s \in Submits : JobStep(s)

Fairness == \A t \in Tabs : WF_vars(PageStep(t))

Spec == Init /\ [][Next]_vars /\ Fairness

-----------------------------------------------------------------------------
(* Properties. *)

\* However two registrations of one name interleave between the look-up and
\* the commit of create_user, the users table holds one account of that name
\* (user_service.py:37 and :49).
OneAccountPerName == \A r, s \in rows : r.name = s.name => r = s

\* A page of the application that is ready shows the name of the account its
\* token belongs to, whatever was typed into the login form while the login
\* was under way and whichever of two logins answered last.
ShownIsOwner ==
    \A t \in Tabs :
      doc[t].page = "app" /\ doc[t].phase = "ready" =>
        auth[t].token # NoToken /\ auth[t].name = auth[t].token.sub

\* Once a page whose script has run holds no session, the shared storage holds
\* none either: no later page of any tab signs the user in again by itself.
SignedOutMeansOut ==
    \A t \in Tabs :
      auth[t] = NoAuth /\ doc[t].phase # "fetched" => legacy = NoAuth

\* Login page and application never send a tab to and fro for ever: the page
\* being loaded comes to rest, with an expired token and without the network
\* too (logout forgets the token that would send the login page on).
PagesSettle == \A t \in Tabs : []<>(doc[t].phase = "ready")
=============================================================================
