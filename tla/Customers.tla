----------------------------- MODULE Customers -----------------------------
(* The Customers of the Stores and their sessions: the storefront's sign-up,
   sign-in, sign-out and account requests (apps/web/app/actions/customers.ts,
   packages/db/src/index.ts).  A request reads its browser's cookie when it is
   sent, runs its transactions one after another, and its answer changes the
   cookie when it arrives; a browser may have several on the way.  A person
   types one password everywhere, so an account whose password is not theirs
   is somebody else's.  A transaction may fail, or commit and have its answer
   lost; an answer may never reach the browser.                             *)
EXTENDS Naturals

CONSTANTS
  Stores, Hosts, Emails, Passwords,
  StoreOf,     \* the Store a host leads to while its domain is verified
  Browsers,    \* one for each person
  PasswordOf,  \* the password of the person at a browser
  WeakPasswords,
  Visits,      \* what people do: [kind, browser, host, email]
  CustomDomains, \* hosts that fail a check now and then
  Requests,    \* requests that may run at once
  Tokens,      \* session tokens; a token nobody holds counts as a fresh one
  MaxFaults,   \* bound on failures
  None

Forms == {"sign-up", "sign-in"}
Kinds == Forms \cup {"sign-out", "view"}
Steps == {"signUp", "signIn", "endPrevious", "signOut", "view"}
Outcomes == {"ok", "email_taken", "wrong_credentials", "refused", "error"}
Accounts == [store : Stores, email : Emails]

ConstantsOK ==
  /\ StoreOf \in [Hosts -> Stores]
  /\ PasswordOf \in [Browsers -> Passwords]
  /\ Visits \subseteq [kind : Kinds, browser : Browsers, host : Hosts, email : Emails]
  /\ CustomDomains \subseteq Hosts
  /\ MaxFaults \in Nat
  /\ None \notin Passwords \cup Tokens \cup Browsers \cup Hosts \cup Emails
ASSUME CustomersAssumption == ConstantsOK

VARIABLES
  customers,   \* the customers table: the password of each Store and email
  sessions,    \* the customer_sessions that have not expired, by token
  cookies,     \* the customer_session cookie of each browser at each host
  told,        \* what the last sign-up or sign-in of each person, host and email said
  reachable,   \* hosts that lead to their Store now
  requests, faults

vars == <<customers, sessions, cookies, told, reachable, requests, faults>>

Request ==
  [pc : {"idle", "reply"} \cup Steps, kind : Kinds \cup {None},
   browser : Browsers \cup {None}, host : Hosts \cup {None},
   email : Emails \cup {None}, previous : Tokens \cup {None},
   token : Tokens \cup {None}, outcome : Outcomes \cup {None},
   shown : Accounts \cup {None}]

Idle == [pc |-> "idle", kind |-> None, browser |-> None, host |-> None,
         email |-> None, previous |-> None, token |-> None, outcome |-> None,
         shown |-> None]

Init ==
  /\ customers = [a \in Accounts |-> None]
  /\ sessions = [t \in Tokens |-> None]
  /\ cookies = [b \in Browsers |-> [h \in Hosts |-> None]]
  /\ told = [b \in Browsers |-> [h \in Hosts |-> [e \in Emails |-> None]]]
  /\ reachable = Hosts
  /\ requests = [r \in Requests |-> Idle]
  /\ faults = 0

Req(r) == requests[r]
At(r, pc) == Req(r).pc = pc
Set(r, request) == requests' = [requests EXCEPT ![r] = request]
Goto(r, pc) == Set(r, [Req(r) EXCEPT !.pc = pc])
Answer(r, outcome) == Set(r, [Req(r) EXCEPT !.pc = "reply", !.outcome = outcome])
Account(r) == [store |-> StoreOf[Req(r).host], email |-> Req(r).email]
Password(r) == PasswordOf[Req(r).browser]

(* parseCustomerSignUp refuses weak passwords; parseCustomerSignIn lets an
   older account use one.                                                   *)
Accepted(visit) ==
  visit.kind = "sign-up" => PasswordOf[visit.browser] \notin WeakPasswords

(* A request resolves its host, reads its cookie and parses its form before
   the first transaction.  A sign-out ends a session only if the host leads to
   a Store and there is a token.                                            *)
FirstStep(visit) ==
  LET token == cookies[visit.browser][visit.host] # None IN
  CASE visit.kind = "sign-up" -> "signUp"
    [] visit.kind = "sign-in" -> "signIn"
    [] visit.kind = "sign-out" /\ visit.host \in reachable /\ token -> "signOut"
    [] visit.kind = "view" /\ visit.host \in reachable /\ token -> "view"
    [] OTHER -> "reply"

Objection(visit) ==
  CASE visit.kind \notin Forms -> None
    [] visit.kind \in Forms /\ visit.host \notin reachable -> "error"
    [] visit.kind \in Forms /\ visit.host \in reachable
         /\ ~Accepted(visit) -> "refused"
    [] OTHER -> None

Begin(r, visit) ==
  LET request == [Idle EXCEPT
        !.kind = visit.kind, !.browser = visit.browser, !.host = visit.host,
        !.email = visit.email, !.previous = cookies[visit.browser][visit.host]]
  IN /\ At(r, "idle")
     /\ IF Objection(visit) = None
        THEN Set(r, [request EXCEPT !.pc = FirstStep(visit), !.outcome = "ok"])
        ELSE Set(r, [request EXCEPT !.pc = "reply", !.outcome = Objection(visit)])
     /\ UNCHANGED <<customers, sessions, cookies, told, reachable, faults>>

(* What a bug could do: INSERT ... ON CONFLICT DO UPDATE. *)
TakenByMe(a, password) == customers[a] = password
Taken(a, password) == customers[a] # None

(* startCustomerSignUp tells the form of a taken email; what a bug could do:
   let the error go by as any other.                                        *)
Thrown == "error"
WhenTaken == "email_taken"

(* A commit whose answer is lost is one of the failures. *)
CommitThen(r, next) ==
  \/ next /\ UNCHANGED faults
  \/ /\ faults < MaxFaults /\ faults' = faults + 1
     /\ Answer(r, "error")

SignUp(r) ==
  LET a == Account(r) IN
  /\ At(r, "signUp")
  /\ \/ /\ Taken(a, Password(r)) /\ Answer(r, WhenTaken)
        /\ UNCHANGED <<customers, faults>>
     \/ /\ ~Taken(a, Password(r))
        /\ customers' = [customers EXCEPT ![a] = Password(r)]
        /\ CommitThen(r, Goto(r, "signIn"))
  /\ UNCHANGED <<sessions, cookies, told, reachable>>

Fresh(t) ==
  /\ sessions[t] = None
  /\ \A b \in Browsers, h \in Hosts : cookies[b][h] # t
  /\ \A r \in Requests : t \notin {Req(r).previous, Req(r).token}

Started(r, t) ==
  Set(r, [Req(r) EXCEPT !.token = t,
            !.pc = IF Req(r).previous = None THEN "reply" ELSE "endPrevious"])

(* No Customer, or not their password: null, which a sign-up throws on. *)
SignIn(r) ==
  LET a == Account(r) IN
  /\ At(r, "signIn")
  /\ \/ /\ customers[a] # Password(r)
        /\ Answer(r, IF Req(r).kind = "sign-up" THEN "error" ELSE "wrong_credentials")
        /\ UNCHANGED <<sessions, faults>>
     \/ \E t \in {t \in Tokens : Fresh(t)} :
        /\ customers[a] = Password(r)
        /\ sessions' = [sessions EXCEPT ![t] = a]
        /\ CommitThen(r, Started(r, t))
  /\ UNCHANGED <<customers, cookies, told, reachable>>

(* What a bug could do: look a token up in every Store. *)
InAnyStore(t, s) == sessions[t] # None
InStore(t, s) == sessions[t] # None /\ sessions[t].store = s

(* DELETE of the session with this token, in the request's Store. *)
Ended(r) ==
  LET t == Req(r).previous IN
  sessions' = [sessions EXCEPT ![t] =
                 IF InStore(t, StoreOf[Req(r).host]) THEN None ELSE @]

(* Best effort: the new session has started whether or not this fails. *)
EndPrevious(r) ==
  /\ At(r, "endPrevious") /\ Goto(r, "reply")
  /\ \/ Ended(r) /\ UNCHANGED faults
     \/ /\ faults < MaxFaults /\ faults' = faults + 1
        /\ UNCHANGED sessions
  /\ UNCHANGED <<customers, cookies, told, reachable>>

SignOut(r) ==
  /\ At(r, "signOut") /\ Ended(r)
  /\ CommitThen(r, Goto(r, "reply"))
  /\ UNCHANGED <<customers, cookies, told, reachable>>

(* getStorefrontCustomer *)
View(r) ==
  LET t == Req(r).previous IN
  /\ At(r, "view")
  /\ Set(r, [Req(r) EXCEPT !.pc = "reply",
       !.shown = IF InStore(t, StoreOf[Req(r).host]) THEN sessions[t] ELSE None])
  /\ UNCHANGED <<customers, sessions, cookies, told, reachable, faults>>

(* A transaction that fails is rolled back. *)
Fail(r) ==
  /\ Req(r).pc \in {"signUp", "signIn", "signOut", "view"}
  /\ faults < MaxFaults /\ faults' = faults + 1
  /\ Answer(r, "error")
  /\ UNCHANGED <<customers, sessions, cookies, told, reachable>>

(* The answer arrives: a sign-out that could not end the session keeps the
   cookie.                                                                  *)
NewCookie(r) ==
  IF Req(r).token # None THEN Req(r).token
  ELSE IF Req(r).kind = "sign-out" /\ Req(r).outcome = "ok" THEN None
  ELSE cookies[Req(r).browser][Req(r).host]

Reply(r) ==
  /\ At(r, "reply") /\ Set(r, Idle)
  /\ cookies' = [cookies EXCEPT ![Req(r).browser][Req(r).host] = NewCookie(r)]
  /\ told' = IF Req(r).kind \in Forms
             THEN [told EXCEPT ![Req(r).browser][Req(r).host][Req(r).email] =
                     Req(r).outcome]
             ELSE told
  /\ UNCHANGED <<customers, sessions, reachable, faults>>

LoseReply(r) ==
  /\ At(r, "reply") /\ Set(r, Idle)
  /\ faults < MaxFaults /\ faults' = faults + 1
  /\ UNCHANGED <<customers, sessions, cookies, told, reachable>>

(* Thirty days pass. *)
Expire(t) ==
  /\ sessions[t] # None
  /\ sessions' = [sessions EXCEPT ![t] = None]
  /\ UNCHANGED <<customers, cookies, told, reachable, requests, faults>>

(* A Custom Domain fails its check, one of the failures, or passes it again
   (see Stores).                                                            *)
Reroute(h) ==
  /\ \/ /\ h \in reachable /\ reachable' = reachable \ {h}
        /\ faults < MaxFaults /\ faults' = faults + 1
     \/ /\ h \notin reachable /\ reachable' = reachable \cup {h}
        /\ UNCHANGED faults
  /\ UNCHANGED <<customers, sessions, cookies, told, requests>>

(* A person takes the token of one Store to another by hand. *)
Carry(b, h, g) ==
  /\ cookies[b][h] # None /\ h # g
  /\ cookies' = [cookies EXCEPT ![b][g] = cookies[b][h]]
  /\ UNCHANGED <<customers, sessions, told, reachable, requests, faults>>

Serve(r) == \/ SignUp(r) \/ SignIn(r) \/ EndPrevious(r)
            \/ SignOut(r) \/ View(r) \/ Reply(r)

Next ==
  \/ \E r \in Requests, visit \in Visits : Begin(r, visit)
  \/ \E r \in Requests : Serve(r) \/ Fail(r) \/ LoseReply(r)
  \/ \E t \in Tokens : Expire(t)
  \/ \E h \in CustomDomains : Reroute(h)
  \/ \E b \in Browsers, h, g \in Hosts : Carry(b, h, g)

Spec == Init /\ [][Next]_vars

(* Someone who signs up until they are told that the email is taken, and then
   signs in, as the form tells them to.  Only the bound on requests can keep
   them from it for a while, hence SF.                                      *)
Told(visit) == told[visit.browser][visit.host][visit.email]
SignUps == {visit \in Visits : visit.kind = "sign-up" /\ Accepted(visit)}

Persist(visit) ==
  /\ visit.host \in reachable
  /\ \E r \in Requests :
       Begin(r, IF Told(visit) = "email_taken"
                THEN [visit EXCEPT !.kind = "sign-in"] ELSE visit)

PersistentSpec ==
  /\ Spec
  /\ \A r \in Requests : WF_vars(Serve(r))
  /\ \A t \in Tokens : WF_vars(Expire(t))
  /\ \A visit \in SignUps : SF_vars(Persist(visit))
-----------------------------------------------------------------------------
(* Tables, cookies and requests have their types. *)
TypeOK ==
  /\ customers \in [Accounts -> Passwords \cup {None}]
  /\ sessions \in [Tokens -> Accounts \cup {None}]
  /\ cookies \in [Browsers -> [Hosts -> Tokens \cup {None}]]
  /\ told \in [Browsers -> [Hosts -> [Emails -> Outcomes \cup {None}]]]
  /\ reachable \subseteq Hosts
  /\ requests \in [Requests -> Request]
  /\ faults \in 0..MaxFaults

(* However sign-ups, sign-ins and sign-outs of several tabs and Stores cross,
   and whatever token a browser presents, an account page shows a Customer of
   its own Store, one with the password of the person who looks at it.      *)
EachSeesTheirOwn ==
  \A r \in Requests : Req(r).shown # None =>
    /\ Req(r).shown.store = StoreOf[Req(r).host]
    /\ customers[Req(r).shown] = Password(r)

(* A sign-up that made the account and then failed leaves nobody outside: who
   goes on as the form says is signed in at last, unless the email is
   somebody else's or the Store stays away.                                 *)
SignUpRecovers ==
  \A visit \in SignUps :
    <>[](visit.host \in reachable) =>
      <>(\/ Told(visit) = "ok"
         \/ customers[[store |-> StoreOf[visit.host], email |-> visit.email]]
              \notin {None, PasswordOf[visit.browser]})
=============================================================================
