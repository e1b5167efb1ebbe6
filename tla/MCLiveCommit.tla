----------------------------- MODULE MCLiveCommit -----------------------------
(* LiveCommit for TLC: three requests.  A profile gives them one shape that *)
(* matters together: three tries of one booking, RateGain bookings of one   *)
(* agent, an agent's hold beside a charge, guests with one payment.         *)
EXTENDS LiveCommit

CONSTANTS r1, r2, r3, k1, k2, option, pay1, pay2

Agent(k, s, h) == [key |-> k, channel |-> "B2B", supplier |-> s, isHold |-> h, payment |-> pay1]
Guest(k, s, p) == [key |-> k, channel |-> "B2C", supplier |-> s, isHold |-> FALSE, payment |-> p]

Three(a, b, c) == [r \in Requests |-> CASE r = r1 -> a [] r = r2 -> b [] r = r3 -> c]

TheProfiles == {
    Three(Agent(k1, "TJ", FALSE), Agent(k1, "TJ", FALSE), Agent(k1, "TJ", FALSE)),
    Three(Agent(k1, "RG", FALSE), Agent(k1, "RG", FALSE), Agent(k2, "RG", TRUE)),
    Three(Agent(option, "TJ", TRUE), Agent(option, "TJ", FALSE), Agent(k1, "TJ", FALSE)),
    Three(Guest(k1, "TJ", pay1), Guest(k1, "TJ", pay1), Guest(k2, "TJ", pay1)),
    Three(Guest(option, "RG", pay1), Guest(option, "TJ", pay1), Guest(k2, "RG", pay2)) }

=============================================================================
