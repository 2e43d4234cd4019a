---------------------------- MODULE MCCustomers ----------------------------
(* Two people with one email, two Stores, two requests at once. *)
EXTENDS Customers, TLC

CONSTANTS h1, h2, s1, s2, alice, bob, pw1, pw2, e

MCStoreOf    == h1 :> s1 @@ h2 :> s2
MCVisit(kind, b, h) == [kind |-> kind, browser |-> b, host |-> h, email |-> e]

(* Bob signs up under the email that Alice uses; she also looks at another
   Store, where she has no account.                                         *)
MCVisits == {MCVisit(kind, alice, h1) : kind \in Kinds}
       \cup {MCVisit("sign-up", bob, h1)}
       \cup {MCVisit("view", alice, h2)}

MCPasswordOf == alice :> pw1 @@ bob :> pw2
=============================================================================
