--------------------------- MODULE MCStripeAccount ---------------------------
(* Two runs at once on a Store's account that onboards, is asked for more, is
   closed or lost. *)
EXTENDS StripeAccount

MCNewAccount == [readable |-> TRUE, closed |-> FALSE, applied |-> TRUE,
                 card |-> "restricted", provideInfo |-> FALSE, owed |-> {"currently_due"}]
MCActive == [MCNewAccount EXCEPT !.card = "active", !.owed = {}]
MCStates == {MCActive,
             [MCActive EXCEPT !.owed = {"eventually_due", "past_due"}],
             [MCNewAccount EXCEPT !.closed = TRUE, !.applied = FALSE]}
=============================================================================
