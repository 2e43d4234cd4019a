--------------------------- MODULE CustomersProofs ---------------------------
(***************************************************************************)
(* For any hosts, browsers, tabs, tokens and faults, an account page shows *)
(* a Customer of its host's Store with the password of the person who      *)
(* looks at it.                                                            *)
(*                                                                         *)
(* That somebody sees their own account only is not inductive: HeldIsOwn   *)
(* says it of every token in a cookie or in a request on its way, which    *)
(* stays so because an account keeps its password and a session begins     *)
(* with a token that nobody has.                                           *)
(***************************************************************************)
EXTENDS Customers, TLAPS

(* A browser holds a token in a cookie, or in a request on its way. *)
Holds(b, t) ==
  \/ \E h \in Hosts : cookies[b][h] = t
  \/ \E r \in Requests : Req(r).browser = b /\ t \in {Req(r).previous, Req(r).token}

(* The session of a token is its holder's own: of a Customer with the
   holder's password. *)
HeldIsOwn ==
  \A t \in Tokens, b \in Browsers :
    sessions[t] # None /\ Holds(b, t) => customers[sessions[t]] = PasswordOf[b]

(* A request under way knows whose it is, and ends or looks up the session of
   a token it has; one that is over shows nothing. *)
Formed(q) ==
  /\ q.pc = "idle" => q.shown = None
  /\ q.pc # "idle" => q.browser \in Browsers /\ q.host \in Hosts /\ q.email \in Emails
  /\ q.pc \in {"endPrevious", "signOut", "view"} => q.previous \in Tokens
AllFormed == \A r \in Requests : Formed(Req(r))

CustomersInv == TypeOK /\ HeldIsOwn /\ AllFormed /\ EachSeesTheirOwn

-----------------------------------------------------------------------------
LEMMA CustomersInit == ConstantsOK /\ Init => CustomersInv
  <1> SUFFICES ASSUME ConstantsOK, Init PROVE CustomersInv
    OBVIOUS
  <1>1. Idle \in Request
    BY DEF Idle, Request
  <1>2. TypeOK
    BY <1>1 DEF ConstantsOK, Init, TypeOK
  <1>3. HeldIsOwn /\ AllFormed /\ EachSeesTheirOwn
    BY DEF Init, HeldIsOwn, AllFormed, Formed, EachSeesTheirOwn, Req, Idle
  <1> QED BY <1>2, <1>3 DEF CustomersInv

(* What a request under way is about. *)
LEMMA RequestParts ==
  ASSUME ConstantsOK, CustomersInv, NEW r \in Requests
  PROVE  /\ Req(r) \in Request /\ Formed(Req(r))
         /\ Req(r).pc # "idle" =>
              /\ Req(r).browser \in Browsers /\ Password(r) \in Passwords
              /\ Account(r) \in Accounts /\ Req(r).host \in Hosts
              /\ Password(r) # None
  BY DEF CustomersInv, TypeOK, AllFormed, Formed, Req, Account, Accounts, Password, ConstantsOK

(* The request that a step moves, and the others. *)
LEMMA Moved ==
  ASSUME CustomersInv, NEW r \in Requests, NEW q, Set(r, q)
  PROVE  \A x \in Requests : Req(x)' = IF x = r THEN q ELSE Req(x)
  BY DEF CustomersInv, TypeOK, Set, Req

(* A Customer keeps the password; a session that is held was held before, or
   is its holder's own; and what is shown was shown before, or is right. *)
LEMMA KeepsInv ==
  ASSUME ConstantsOK, CustomersInv, TypeOK', AllFormed',
         \A a \in Accounts : customers[a] # None => customers'[a] = customers[a],
         \A t \in Tokens, b \in Browsers : sessions'[t] # None /\ Holds(b, t)' =>
           \/ sessions'[t] = sessions[t] /\ Holds(b, t)
           \/ customers'[sessions'[t]] = PasswordOf[b],
         \A x \in Requests : Req(x)'.shown # None =>
           \/ /\ Req(x)'.shown = Req(x).shown /\ Req(x)'.host = Req(x).host
              /\ Req(x)'.browser = Req(x).browser
           \/ /\ Req(x)'.shown.store = StoreOf[Req(x)'.host]
              /\ customers'[Req(x)'.shown] = PasswordOf[Req(x)'.browser]
  PROVE  CustomersInv'
  <1>1. HeldIsOwn'
    <2> SUFFICES ASSUME NEW t \in Tokens, NEW b \in Browsers,
                        sessions'[t] # None, Holds(b, t)',
                        sessions'[t] = sessions[t], Holds(b, t)
                 PROVE  customers'[sessions[t]] = PasswordOf[b]
      BY DEF HeldIsOwn
    <2>1. customers[sessions[t]] = PasswordOf[b] /\ sessions[t] \in Accounts
      BY DEF CustomersInv, HeldIsOwn, TypeOK
    <2>2. PasswordOf[b] # None
      BY DEF ConstantsOK
    <2> QED BY <2>1, <2>2
  <1>2. EachSeesTheirOwn'
    <2> SUFFICES ASSUME NEW x \in Requests, Req(x)'.shown # None,
                        Req(x)'.shown = Req(x).shown, Req(x)'.host = Req(x).host,
                        Req(x)'.browser = Req(x).browser
                 PROVE  /\ Req(x)'.shown.store = StoreOf[Req(x)'.host]
                        /\ customers'[Req(x)'.shown] = PasswordOf[Req(x)'.browser]
      BY DEF EachSeesTheirOwn, Password
    <2>1. /\ Req(x).shown.store = StoreOf[Req(x).host]
          /\ customers[Req(x).shown] = Password(x)
      BY DEF CustomersInv, EachSeesTheirOwn
    <2>2. Req(x).shown \in Accounts /\ Password(x) # None
      BY RequestParts DEF Request, Formed
    <2> QED BY <2>1, <2>2 DEF Password
  <1> QED BY <1>1, <1>2 DEF CustomersInv

(* A request goes on as the same request, and nobody is given a token. *)
LEMMA GoesOn ==
  ASSUME ConstantsOK, CustomersInv, NEW r \in Requests, NEW q \in Request, Set(r, q), Formed(q),
         q.browser = Req(r).browser, q.host = Req(r).host, q.shown = Req(r).shown,
         q.previous = Req(r).previous, q.token = Req(r).token,
         customers' \in [Accounts -> Passwords \cup {None}],
         \A a \in Accounts : customers[a] # None => customers'[a] = customers[a],
         sessions' \in [Tokens -> Accounts \cup {None}],
         \A t \in Tokens : sessions'[t] # None => sessions'[t] = sessions[t],
         UNCHANGED <<cookies, told, reachable>>, faults' \in 0..MaxFaults
  PROVE  CustomersInv'
  <1>1. \A x \in Requests : Req(x)' = IF x = r THEN q ELSE Req(x)
    BY Moved
  <1>2. TypeOK'
    BY DEF CustomersInv, TypeOK, Set
  <1>3. AllFormed'
    BY <1>1 DEF CustomersInv, AllFormed, Formed
  <1>4. \A t \in Tokens, b \in Browsers : Holds(b, t)' => Holds(b, t)
    BY <1>1 DEF Holds
  <1>5. \A x \in Requests : Req(x)'.shown # None =>
          /\ Req(x)'.shown = Req(x).shown /\ Req(x)'.host = Req(x).host
          /\ Req(x)'.browser = Req(x).browser
    BY <1>1
  <1> QED BY <1>2, <1>3, <1>4, <1>5, KeepsInv

(* A request is over; a browser may have kept its token. *)
LEMMA EndsInv ==
  ASSUME ConstantsOK, CustomersInv, NEW r \in Requests, Set(r, Idle), TypeOK',
         \A b \in Browsers, t \in Tokens :
           (\E h \in Hosts : cookies'[b][h] = t) => Holds(b, t),
         UNCHANGED <<customers, sessions>>
  PROVE  CustomersInv'
  <1>1. \A x \in Requests : Req(x)' = IF x = r THEN Idle ELSE Req(x)
    BY Moved
  <1>2. Formed(Idle) /\ Idle.shown = None /\ Idle.browser = None
    BY DEF Formed, Idle
  <1>3. AllFormed'
    BY <1>1, <1>2 DEF CustomersInv, AllFormed, Formed
  <1>4. \A t \in Tokens, b \in Browsers : Holds(b, t)' => Holds(b, t)
    BY <1>1, <1>2 DEF Holds, ConstantsOK
  <1>5. \A x \in Requests : Req(x)'.shown # None =>
          /\ Req(x)'.shown = Req(x).shown /\ Req(x)'.host = Req(x).host
          /\ Req(x)'.browser = Req(x).browser
    BY <1>1, <1>2
  <1> QED BY <1>3, <1>4, <1>5, KeepsInv

(* Nothing of a request moves. *)
LEMMA NoRequestMoves ==
  ASSUME ConstantsOK, CustomersInv, TypeOK', UNCHANGED <<customers, requests>>,
         \A t \in Tokens : sessions'[t] # None => sessions'[t] = sessions[t],
         \A b \in Browsers, t \in Tokens :
           (\E h \in Hosts : cookies'[b][h] = t) => Holds(b, t)
  PROVE  CustomersInv'
  <1>1. \A x \in Requests : Req(x)' = Req(x)
    BY DEF Req
  <1>2. AllFormed'
    BY <1>1 DEF CustomersInv, AllFormed, Formed
  <1>3. \A t \in Tokens, b \in Browsers : Holds(b, t)' => Holds(b, t)
    BY <1>1 DEF Holds
  <1> QED BY <1>1, <1>2, <1>3, KeepsInv

(* Another step, another outcome. *)
LEMMA CustomerRequestType ==
  ASSUME NEW q \in Request, NEW pc \in {"idle", "reply"} \cup Steps
  PROVE  /\ [q EXCEPT !.pc = pc] \in Request
         /\ \A outcome \in Outcomes : [q EXCEPT !.pc = pc, !.outcome = outcome] \in Request
  <1>1. [q EXCEPT !.pc = pc] \in Request
    BY DEF Request
  <1>2. ASSUME NEW outcome \in Outcomes
        PROVE  [q EXCEPT !.pc = pc, !.outcome = outcome] \in Request
    BY DEF Request
  <1> QED BY <1>1, <1>2

(* An answer ends the work of a request and nothing else. *)
LEMMA AnswerInv ==
  ASSUME ConstantsOK, CustomersInv, NEW r \in Requests, ~At(r, "idle"),
         NEW outcome \in Outcomes, Answer(r, outcome),
         customers' \in [Accounts -> Passwords \cup {None}],
         \A a \in Accounts : customers[a] # None => customers'[a] = customers[a],
         sessions' \in [Tokens -> Accounts \cup {None}],
         \A t \in Tokens : sessions'[t] # None => sessions'[t] = sessions[t],
         UNCHANGED <<cookies, told, reachable>>, faults' \in 0..MaxFaults
  PROVE  CustomersInv'
  <1> DEFINE q == [Req(r) EXCEPT !.pc = "reply", !.outcome = outcome]
  <1>1. Req(r) \in Request /\ Formed(Req(r)) /\ Req(r).pc # "idle"
    BY RequestParts DEF At
  <1>2. q \in Request
    BY <1>1, CustomerRequestType
  <1>3. /\ q.pc = "reply" /\ q.browser = Req(r).browser /\ q.host = Req(r).host
        /\ q.shown = Req(r).shown /\ q.previous = Req(r).previous
        /\ q.token = Req(r).token /\ q.email = Req(r).email
    BY <1>1 DEF Request
  <1>4. Set(r, q)
    BY DEF Answer
  <1> HIDE DEF q
  <1>5. Formed(q)
    BY <1>1, <1>3 DEF Formed
  <1> QED BY <1>2, <1>3, <1>4, <1>5, GoesOn

LEMMA GotoInv ==
  ASSUME ConstantsOK, CustomersInv, NEW r \in Requests, ~At(r, "idle"),
         NEW pc \in {"signIn", "reply"}, Goto(r, pc),
         customers' \in [Accounts -> Passwords \cup {None}],
         \A a \in Accounts : customers[a] # None => customers'[a] = customers[a],
         sessions' \in [Tokens -> Accounts \cup {None}],
         \A t \in Tokens : sessions'[t] # None => sessions'[t] = sessions[t],
         UNCHANGED <<cookies, told, reachable>>, faults' \in 0..MaxFaults
  PROVE  CustomersInv'
  <1> DEFINE q == [Req(r) EXCEPT !.pc = pc]
  <1>1. Req(r) \in Request /\ Formed(Req(r)) /\ Req(r).pc # "idle"
    BY RequestParts DEF At
  <1>2. q \in Request
    BY <1>1, CustomerRequestType DEF Steps
  <1>3. /\ q.pc = pc /\ q.browser = Req(r).browser /\ q.host = Req(r).host
        /\ q.shown = Req(r).shown /\ q.previous = Req(r).previous
        /\ q.token = Req(r).token /\ q.email = Req(r).email
    BY <1>1 DEF Request
  <1>4. Set(r, q)
    BY DEF Goto
  <1> HIDE DEF q
  <1>5. Formed(q)
    BY <1>1, <1>3 DEF Formed
  <1> QED BY <1>2, <1>3, <1>4, <1>5, GoesOn

-----------------------------------------------------------------------------
(* The steps. *)

LEMMA BeginInv ==
  ASSUME ConstantsOK, CustomersInv, NEW r \in Requests, NEW visit \in Visits, Begin(r, visit)
  PROVE  CustomersInv'
  <1> DEFINE token == cookies[visit.browser][visit.host]
  <1>1. /\ visit.kind \in Kinds /\ visit.browser \in Browsers /\ visit.host \in Hosts
        /\ visit.email \in Emails /\ token \in Tokens \cup {None}
    BY DEF ConstantsOK, CustomersInv, TypeOK
  <1>2. /\ FirstStep(visit) \in Steps \cup {"reply"}
        /\ FirstStep(visit) \in {"endPrevious", "signOut", "view"} => token # None
        /\ Objection(visit) \in Outcomes \cup {None}
    BY <1>1 DEF FirstStep, Objection, Steps, Outcomes, Kinds, Forms
  <1>3. PICK q \in Request :
          /\ Set(r, q) /\ q.browser = visit.browser /\ q.host = visit.host
          /\ q.email = visit.email /\ q.previous = token /\ q.token = None
          /\ q.shown = None /\ q.pc \in Steps \cup {"reply"}
          /\ q.pc \in {"endPrevious", "signOut", "view"} => token # None
    <2> DEFINE request == [Idle EXCEPT
                 !.kind = visit.kind, !.browser = visit.browser, !.host = visit.host,
                 !.email = visit.email, !.previous = token]
               new(pc, outcome) == [request EXCEPT !.pc = pc, !.outcome = outcome]
    <2>1. PICK pc \in Steps \cup {"reply"}, outcome \in Outcomes :
            /\ Set(r, new(pc, outcome))
            /\ pc \in {"endPrevious", "signOut", "view"} => token # None
      <3>1. CASE Objection(visit) = None
        BY <1>2, <3>1 DEF Begin, Outcomes
      <3>2. CASE Objection(visit) # None
        <4>1. Set(r, new("reply", Objection(visit)))
          BY <3>2 DEF Begin
        <4> HIDE DEF new
        <4> QED BY <1>2, <3>2, <4>1
      <3> QED BY <3>1, <3>2
    <2>2. Idle \in Request /\ Idle.token = None /\ Idle.shown = None
      BY DEF Idle, Request
    <2>3. /\ request \in Request /\ request.browser = visit.browser
          /\ request.host = visit.host /\ request.email = visit.email
          /\ request.previous = token /\ request.token = None /\ request.shown = None
      BY <1>1, <2>2 DEF Request
    <2> HIDE DEF request
    <2>4. /\ new(pc, outcome) \in Request /\ new(pc, outcome).browser = visit.browser
          /\ new(pc, outcome).host = visit.host /\ new(pc, outcome).email = visit.email
          /\ new(pc, outcome).previous = token /\ new(pc, outcome).token = None
          /\ new(pc, outcome).shown = None /\ new(pc, outcome).pc = pc
      BY <2>3 DEF Request
    <2> HIDE DEF new
    <2> QED BY <2>1, <2>4
  <1>4. UNCHANGED <<customers, sessions, cookies, told, reachable, faults>>
    BY DEF Begin
  <1>5. \A x \in Requests : Req(x)' = IF x = r THEN q ELSE Req(x)
    BY <1>3, Moved
  <1>6. TypeOK'
    BY <1>3, <1>4 DEF CustomersInv, TypeOK, Set
  <1>7. AllFormed'
    <2>1. Formed(q)
      BY <1>1, <1>3 DEF Formed, Steps
    <2> QED BY <1>5, <2>1 DEF CustomersInv, AllFormed, Formed
  <1>8. \A t \in Tokens, b \in Browsers : Holds(b, t)' => Holds(b, t)
    <2> SUFFICES ASSUME NEW t \in Tokens, NEW b \in Browsers, Holds(b, t)'
                 PROVE  Holds(b, t)
      OBVIOUS
    <2>1. CASE \E h \in Hosts : cookies'[b][h] = t
      BY <1>4, <2>1 DEF Holds
    <2>2. ASSUME NEW x \in Requests, Req(x)'.browser = b,
                 t \in {Req(x)'.previous, Req(x)'.token}
          PROVE  Holds(b, t)
      <3>1. CASE x = r
        BY <1>1, <1>3, <1>5, <2>2, <3>1 DEF Holds, ConstantsOK
      <3>2. CASE x # r
        BY <1>5, <2>2, <3>2 DEF Holds
      <3> QED BY <3>1, <3>2
    <2> QED BY <2>1, <2>2 DEF Holds
  <1>9. \A x \in Requests : Req(x)'.shown # None =>
          /\ Req(x)'.shown = Req(x).shown /\ Req(x)'.host = Req(x).host
          /\ Req(x)'.browser = Req(x).browser
    BY <1>3, <1>5
  <1> QED BY <1>4, <1>6, <1>7, <1>8, <1>9, KeepsInv

LEMMA SignUpInv ==
  ASSUME ConstantsOK, CustomersInv, NEW r \in Requests, SignUp(r)
  PROVE  CustomersInv'
  <1> DEFINE a == Account(r)
  <1>1. ~At(r, "idle") /\ a \in Accounts /\ Password(r) \in Passwords
    BY RequestParts DEF SignUp, At
  <1>2. UNCHANGED <<sessions, cookies, told, reachable>>
    BY DEF SignUp
  <1>3. sessions' \in [Tokens -> Accounts \cup {None}] /\ faults \in 0..MaxFaults
    BY <1>2 DEF CustomersInv, TypeOK
  <1>4. CASE Answer(r, WhenTaken) /\ UNCHANGED <<customers, faults>>
    <2>1. WhenTaken \in Outcomes
      BY DEF WhenTaken, Outcomes
    <2> QED BY <1>1, <1>2, <1>3, <1>4, <2>1, AnswerInv DEF CustomersInv, TypeOK
  <1>5. CASE /\ ~Taken(a, Password(r))
             /\ customers' = [customers EXCEPT ![a] = Password(r)]
             /\ CommitThen(r, Goto(r, "signIn"))
    <2>1. /\ customers' \in [Accounts -> Passwords \cup {None}]
          /\ \A x \in Accounts : customers[x] # None => customers'[x] = customers[x]
      BY <1>1, <1>5 DEF CustomersInv, TypeOK, Taken
    <2>2. CASE Goto(r, "signIn") /\ UNCHANGED faults
      BY <1>1, <1>2, <1>3, <2>1, <2>2, GotoInv
    <2>3. CASE faults < MaxFaults /\ faults' = faults + 1 /\ Answer(r, "error")
      <3>1. "error" \in Outcomes /\ faults' \in 0..MaxFaults
        BY <1>3, <2>3 DEF Outcomes, ConstantsOK
      <3> QED BY <1>1, <1>2, <1>3, <2>1, <2>3, <3>1, AnswerInv
    <2> QED BY <1>5, <2>2, <2>3 DEF CommitThen
  <1> QED BY <1>4, <1>5 DEF SignUp

(* A sign-in starts a session with a token that nobody has. *)
LEMMA SignInInv ==
  ASSUME ConstantsOK, CustomersInv, NEW r \in Requests, SignIn(r)
  PROVE  CustomersInv'
  <1> DEFINE a == Account(r)
  <1>1. /\ ~At(r, "idle") /\ a \in Accounts /\ Password(r) # None
        /\ Req(r) \in Request /\ Formed(Req(r)) /\ Req(r).pc = "signIn"
        /\ Req(r).browser \in Browsers
    BY RequestParts DEF SignIn, At
  <1>2. UNCHANGED <<customers, cookies, told, reachable>>
    BY DEF SignIn
  <1>3. faults \in 0..MaxFaults
    BY DEF CustomersInv, TypeOK
  <1>4. ASSUME UNCHANGED <<sessions, faults>>,
               Answer(r, IF Req(r).kind = "sign-up" THEN "error" ELSE "wrong_credentials")
        PROVE  CustomersInv'
    <2>1. PICK outcome \in Outcomes : Answer(r, outcome)
      BY <1>4 DEF Outcomes
    <2>2. /\ customers' \in [Accounts -> Passwords \cup {None}]
          /\ sessions' \in [Tokens -> Accounts \cup {None}]
      BY <1>2, <1>4 DEF CustomersInv, TypeOK
    <2> QED BY <1>1, <1>2, <1>3, <1>4, <2>1, <2>2, AnswerInv
  <1>5. ASSUME NEW t \in Tokens, Fresh(t), customers[a] = Password(r),
               sessions' = [sessions EXCEPT ![t] = a],
               CommitThen(r, Started(r, t))
        PROVE  CustomersInv'
    <2>1. PICK q \in Request :
            /\ Set(r, q) /\ Formed(q) /\ q.browser = Req(r).browser
            /\ q.host = Req(r).host /\ q.shown = Req(r).shown
            /\ q.previous = Req(r).previous /\ q.token \in {t, Req(r).token}
            /\ faults' \in 0..MaxFaults
      <3>1. CASE Started(r, t) /\ UNCHANGED faults
        <4> DEFINE pc == IF Req(r).previous = None THEN "reply" ELSE "endPrevious"
                   q  == [Req(r) EXCEPT !.token = t, !.pc = pc]
        <4>1. q \in Request
          BY <1>1 DEF Request, Steps
        <4>2. /\ q.pc = pc /\ q.browser = Req(r).browser /\ q.host = Req(r).host
              /\ q.shown = Req(r).shown /\ q.previous = Req(r).previous
              /\ q.email = Req(r).email /\ q.token = t
          BY <1>1 DEF Request
        <4>3. Set(r, q)
          BY <3>1 DEF Started
        <4>4. Req(r).previous \in Tokens \cup {None}
          BY <1>1 DEF Request
        <4> HIDE DEF q
        <4>5. Formed(q)
          BY <1>1, <4>2, <4>4 DEF Formed
        <4> QED BY <1>3, <3>1, <4>1, <4>2, <4>3, <4>5
      <3>2. CASE faults < MaxFaults /\ faults' = faults + 1 /\ Answer(r, "error")
        <4> DEFINE q == [Req(r) EXCEPT !.pc = "reply", !.outcome = "error"]
        <4>1. q \in Request
          BY <1>1, CustomerRequestType DEF Outcomes
        <4>2. /\ q.pc = "reply" /\ q.browser = Req(r).browser /\ q.host = Req(r).host
              /\ q.shown = Req(r).shown /\ q.previous = Req(r).previous
              /\ q.email = Req(r).email /\ q.token = Req(r).token
          BY <1>1 DEF Request
        <4>3. Set(r, q) /\ faults' \in 0..MaxFaults
          BY <1>3, <3>2 DEF Answer, ConstantsOK
        <4> HIDE DEF q
        <4>4. Formed(q)
          BY <1>1, <4>2 DEF Formed
        <4> QED BY <4>1, <4>2, <4>3, <4>4
      <3> QED BY <1>5, <3>1, <3>2 DEF CommitThen
    <2>2. \A x \in Requests : Req(x)' = IF x = r THEN q ELSE Req(x)
      BY <2>1, Moved
    <2>3. TypeOK'
      BY <1>1, <1>2, <1>5, <2>1 DEF CustomersInv, TypeOK, Set
    <2>4. AllFormed'
      BY <2>1, <2>2 DEF CustomersInv, AllFormed, Formed
    <2>5. ASSUME NEW u \in Tokens, NEW b \in Browsers, Holds(b, u)'
          PROVE  \/ sessions'[u] = sessions[u] /\ Holds(b, u)
                 \/ customers'[sessions'[u]] = PasswordOf[b]
      <3>1. CASE u # t
        <4>1. sessions'[u] = sessions[u]
          BY <1>5, <3>1 DEF CustomersInv, TypeOK
        <4>2. Holds(b, u)
          BY <1>2, <2>1, <2>2, <2>5, <3>1 DEF Holds
        <4> QED BY <4>1, <4>2
      <3>2. CASE u = t
        <4>1. \A h \in Hosts : cookies'[b][h] # t
          BY <1>2, <1>5 DEF Fresh
        <4>2. PICK x \in Requests :
                Req(x)'.browser = b /\ t \in {Req(x)'.previous, Req(x)'.token}
          BY <2>5, <3>2, <4>1 DEF Holds
        <4>3. x = r
          BY <1>5, <2>2, <4>2 DEF Fresh
        <4>4. b = Req(r).browser
          BY <2>1, <2>2, <4>2, <4>3
        <4>5. sessions'[t] = a
          BY <1>5 DEF CustomersInv, TypeOK
        <4> QED BY <1>2, <1>5, <3>2, <4>4, <4>5 DEF Password
      <3> QED BY <3>1, <3>2
    <2>6. \A x \in Requests : Req(x)'.shown # None =>
            /\ Req(x)'.shown = Req(x).shown /\ Req(x)'.host = Req(x).host
            /\ Req(x)'.browser = Req(x).browser
      BY <2>1, <2>2
    <2> QED BY <1>2, <2>3, <2>4, <2>5, <2>6, KeepsInv
  <1> QED BY <1>4, <1>5 DEF SignIn

LEMMA EndedKeeps ==
  ASSUME CustomersInv, NEW r \in Requests, Ended(r)
  PROVE  /\ sessions' \in [Tokens -> Accounts \cup {None}]
         /\ \A t \in Tokens : sessions'[t] # None => sessions'[t] = sessions[t]
  BY DEF Ended, CustomersInv, TypeOK

LEMMA EndPreviousInv ==
  ASSUME ConstantsOK, CustomersInv, NEW r \in Requests, EndPrevious(r)
  PROVE  CustomersInv'
  <1>1. /\ ~At(r, "idle") /\ Goto(r, "reply")
        /\ UNCHANGED <<customers, cookies, told, reachable>>
    BY DEF EndPrevious, At
  <1>2. /\ sessions' \in [Tokens -> Accounts \cup {None}]
        /\ \A t \in Tokens : sessions'[t] # None => sessions'[t] = sessions[t]
        /\ faults' \in 0..MaxFaults
    BY EndedKeeps DEF EndPrevious, CustomersInv, TypeOK, ConstantsOK
  <1>3. customers' \in [Accounts -> Passwords \cup {None}]
    BY <1>1 DEF CustomersInv, TypeOK
  <1> QED BY <1>1, <1>2, <1>3, GotoInv

LEMMA SignOutInv ==
  ASSUME ConstantsOK, CustomersInv, NEW r \in Requests, SignOut(r)
  PROVE  CustomersInv'
  <1>1. ~At(r, "idle") /\ UNCHANGED <<customers, cookies, told, reachable>>
    BY DEF SignOut, At
  <1>2. /\ sessions' \in [Tokens -> Accounts \cup {None}]
        /\ \A t \in Tokens : sessions'[t] # None => sessions'[t] = sessions[t]
    BY EndedKeeps DEF SignOut
  <1>3. customers' \in [Accounts -> Passwords \cup {None}] /\ faults \in 0..MaxFaults
    BY <1>1 DEF CustomersInv, TypeOK
  <1>4. CASE Goto(r, "reply") /\ UNCHANGED faults
    BY <1>1, <1>2, <1>3, <1>4, GotoInv
  <1>5. CASE faults < MaxFaults /\ faults' = faults + 1 /\ Answer(r, "error")
    <2>1. "error" \in Outcomes /\ faults' \in 0..MaxFaults
      BY <1>3, <1>5 DEF Outcomes, ConstantsOK
    <2> QED BY <1>1, <1>2, <1>3, <1>5, <2>1, AnswerInv
  <1> QED BY <1>4, <1>5 DEF SignOut, CommitThen

LEMMA CustomerFailInv ==
  ASSUME ConstantsOK, CustomersInv, NEW r \in Requests, Fail(r)
  PROVE  CustomersInv'
  <1>1. /\ ~At(r, "idle") /\ Answer(r, "error") /\ "error" \in Outcomes
        /\ UNCHANGED <<customers, sessions, cookies, told, reachable>>
    BY DEF Fail, At, Outcomes
  <1>2. /\ faults' \in 0..MaxFaults /\ sessions' \in [Tokens -> Accounts \cup {None}]
        /\ customers' \in [Accounts -> Passwords \cup {None}]
    BY <1>1 DEF Fail, CustomersInv, TypeOK, ConstantsOK
  <1> QED BY <1>1, <1>2, AnswerInv

(* An account page shows the session of the token that the browser holds. *)
LEMMA ViewInv ==
  ASSUME ConstantsOK, CustomersInv, NEW r \in Requests, View(r)
  PROVE  CustomersInv'
  <1> DEFINE t == Req(r).previous
             shown == IF InStore(t, StoreOf[Req(r).host]) THEN sessions[t] ELSE None
             q == [Req(r) EXCEPT !.pc = "reply", !.shown = shown]
  <1>1. /\ Req(r) \in Request /\ Formed(Req(r)) /\ Req(r).pc = "view"
        /\ Set(r, q) /\ UNCHANGED <<customers, sessions, cookies, told, reachable, faults>>
    BY RequestParts DEF View, At
  <1>2. t \in Tokens /\ Req(r).browser \in Browsers
    BY <1>1 DEF Formed
  <1>3. shown \in Accounts \cup {None}
    BY <1>2 DEF CustomersInv, TypeOK
  <1>4. shown # None =>
          shown.store = StoreOf[Req(r).host] /\ customers[shown] = PasswordOf[Req(r).browser]
    <2>1. Holds(Req(r).browser, t)
      BY DEF Holds
    <2> QED BY <1>2, <2>1 DEF InStore, CustomersInv, HeldIsOwn
  <1> HIDE DEF shown
  <1>5. /\ q \in Request /\ q.pc = "reply" /\ q.browser = Req(r).browser
        /\ q.host = Req(r).host /\ q.shown = shown /\ q.email = Req(r).email
        /\ q.previous = t /\ q.token = Req(r).token
    BY <1>1, <1>3 DEF Request
  <1> HIDE DEF q
  <1>6. \A x \in Requests : Req(x)' = IF x = r THEN q ELSE Req(x)
    BY <1>1, Moved
  <1>7. TypeOK'
    BY <1>1, <1>5 DEF CustomersInv, TypeOK, Set
  <1>8. AllFormed'
    BY <1>1, <1>5, <1>6 DEF CustomersInv, AllFormed, Formed
  <1>9. \A u \in Tokens, b \in Browsers : Holds(b, u)' => Holds(b, u)
    BY <1>1, <1>5, <1>6 DEF Holds
  <1>10. \A x \in Requests : Req(x)'.shown # None =>
           \/ /\ Req(x)'.shown = Req(x).shown /\ Req(x)'.host = Req(x).host
              /\ Req(x)'.browser = Req(x).browser
           \/ /\ Req(x)'.shown.store = StoreOf[Req(x)'.host]
              /\ customers'[Req(x)'.shown] = PasswordOf[Req(x)'.browser]
    BY <1>1, <1>4, <1>5, <1>6
  <1> QED BY <1>1, <1>7, <1>8, <1>9, <1>10, KeepsInv

LEMMA ReplyInv ==
  ASSUME ConstantsOK, CustomersInv, NEW r \in Requests, Reply(r)
  PROVE  CustomersInv'
  <1>1. /\ Req(r) \in Request /\ Formed(Req(r)) /\ Req(r).pc = "reply"
        /\ Set(r, Idle) /\ UNCHANGED <<customers, sessions, reachable, faults>>
        /\ cookies' = [cookies EXCEPT ![Req(r).browser][Req(r).host] = NewCookie(r)]
    BY RequestParts DEF Reply, At
  <1>2. Req(r).browser \in Browsers /\ Req(r).host \in Hosts /\ Req(r).email \in Emails
    BY <1>1 DEF Formed
  <1>3. /\ NewCookie(r) \in Tokens \cup {None}
        /\ \/ NewCookie(r) = None
           \/ NewCookie(r) = Req(r).token
           \/ NewCookie(r) = cookies[Req(r).browser][Req(r).host]
    BY <1>1, <1>2 DEF NewCookie, Request, CustomersInv, TypeOK
  <1>4. \A b \in Browsers, h \in Hosts :
          cookies'[b][h] = IF b = Req(r).browser /\ h = Req(r).host
                           THEN NewCookie(r) ELSE cookies[b][h]
    BY <1>1, <1>2 DEF CustomersInv, TypeOK
  <1>5. TypeOK'
    <2>1. requests' \in [Requests -> Request]
      BY <1>1 DEF Set, CustomersInv, TypeOK, Idle, Request
    <2>2. cookies' \in [Browsers -> [Hosts -> Tokens \cup {None}]]
      BY <1>1, <1>2, <1>3 DEF CustomersInv, TypeOK
    <2>3. told' \in [Browsers -> [Hosts -> [Emails -> Outcomes \cup {None}]]]
      <3>1. CASE told' = told
        BY <3>1 DEF CustomersInv, TypeOK
      <3>2. CASE told' = [told EXCEPT ![Req(r).browser][Req(r).host][Req(r).email] =
                             Req(r).outcome]
        BY <1>1, <1>2, <3>2 DEF CustomersInv, TypeOK, Request
      <3> QED BY <3>1, <3>2 DEF Reply
    <2> QED BY <1>1, <2>1, <2>2, <2>3 DEF CustomersInv, TypeOK
  <1>6. \A b \in Browsers, t \in Tokens :
          (\E h \in Hosts : cookies'[b][h] = t) => Holds(b, t)
    BY <1>2, <1>3, <1>4 DEF Holds, ConstantsOK
  <1> QED BY <1>1, <1>5, <1>6, EndsInv

LEMMA LoseReplyInv ==
  ASSUME ConstantsOK, CustomersInv, NEW r \in Requests, LoseReply(r)
  PROVE  CustomersInv'
  <1>1. Set(r, Idle) /\ UNCHANGED <<customers, sessions, cookies, told, reachable>>
    BY DEF LoseReply
  <1>2. TypeOK'
    BY <1>1 DEF LoseReply, Set, CustomersInv, TypeOK, Idle, Request, ConstantsOK
  <1>3. \A b \in Browsers, t \in Tokens :
          (\E h \in Hosts : cookies'[b][h] = t) => Holds(b, t)
    BY <1>1 DEF Holds
  <1> QED BY <1>1, <1>2, <1>3, EndsInv

LEMMA OutsideInv ==
  ASSUME ConstantsOK, CustomersInv,
         \/ \E t \in Tokens : Expire(t)
         \/ \E h \in CustomDomains : Reroute(h)
         \/ \E b \in Browsers, h, g \in Hosts : Carry(b, h, g)
  PROVE  CustomersInv'
  <1>1. ASSUME NEW t \in Tokens, Expire(t) PROVE CustomersInv'
    <2>1. TypeOK' /\ \A u \in Tokens : sessions'[u] # None => sessions'[u] = sessions[u]
      BY <1>1 DEF Expire, CustomersInv, TypeOK
    <2>2. UNCHANGED <<customers, requests, cookies>>
      BY <1>1 DEF Expire
    <2> QED BY <2>1, <2>2, NoRequestMoves DEF Holds
  <1>2. ASSUME NEW h \in CustomDomains, Reroute(h) PROVE CustomersInv'
    <2>1. TypeOK'
      BY <1>2 DEF Reroute, CustomersInv, TypeOK, ConstantsOK
    <2>2. UNCHANGED <<customers, requests, sessions, cookies>>
      BY <1>2 DEF Reroute
    <2> QED BY <2>1, <2>2, NoRequestMoves DEF Holds
  <1>3. ASSUME NEW b \in Browsers, NEW h \in Hosts, NEW g \in Hosts, Carry(b, h, g) PROVE CustomersInv'
    <2>1. TypeOK' /\ UNCHANGED <<customers, requests, sessions>>
      BY <1>3 DEF Carry, CustomersInv, TypeOK
    <2>2. \A c \in Browsers, t \in Tokens :
            (\E x \in Hosts : cookies'[c][x] = t) => Holds(c, t)
      BY <1>3 DEF Carry, Holds, CustomersInv, TypeOK
    <2> QED BY <2>1, <2>2, NoRequestMoves
  <1> QED BY <1>1, <1>2, <1>3

LEMMA CustomersStep == ConstantsOK /\ CustomersInv /\ [Next]_vars => CustomersInv'
  <1> SUFFICES ASSUME ConstantsOK, CustomersInv, [Next]_vars PROVE CustomersInv'
    OBVIOUS
  <1>1. ASSUME NEW r \in Requests,
               (\E visit \in Visits : Begin(r, visit)) \/ Serve(r) \/ Fail(r) \/ LoseReply(r)
        PROVE  CustomersInv'
    BY <1>1, BeginInv, SignUpInv, SignInInv, EndPreviousInv, SignOutInv, ViewInv, ReplyInv,
       CustomerFailInv, LoseReplyInv DEF Serve
  <1>2. CASE UNCHANGED vars
    <2>1. TypeOK' /\ UNCHANGED <<customers, requests, sessions, cookies>>
      BY <1>2 DEF vars, CustomersInv, TypeOK
    <2> QED BY <2>1, NoRequestMoves DEF Holds
  <1> QED BY <1>1, <1>2, OutsideInv DEF Next

(* The invariant holds in every state of every run of the Customers' requests. *)
THEOREM CustomersInvariant == Spec => []CustomersInv
  <1>1. Init => CustomersInv
    BY CustomersInit, CustomersAssumption
  <1>2. CustomersInv /\ [Next]_vars => CustomersInv'
    BY CustomersStep, CustomersAssumption
  <1> QED BY <1>1, <1>2, PTL DEF Spec

(* The tables, cookies and requests of the Customers keep their types. *)
THEOREM CustomersTypes == Spec => []TypeOK
  <1>1. CustomersInv => TypeOK
    BY DEF CustomersInv
  <1> QED BY <1>1, CustomersInvariant, PTL

(* However sign-ups, sign-ins and sign-outs of several tabs and Stores cross,
   and whatever token a browser presents, an account page shows a Customer of
   its own Store who has the password of the person that looks at it
   (getCustomerBySession under the tenant's row policy). *)
THEOREM CustomersSeeTheirOwn == Spec => []EachSeesTheirOwn
  <1>1. CustomersInv => EachSeesTheirOwn
    BY DEF CustomersInv
  <1> QED BY <1>1, CustomersInvariant, PTL
==============================================================================
