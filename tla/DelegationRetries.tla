--------------------------- MODULE DelegationRetries ---------------------------
(***************************************************************************)
(* Delegations, with a memory of which revocations of an agent were cut    *)
(* short and then made again.                                              *)
(***************************************************************************)
EXTENDS Delegations

VARIABLES
  cut,   \* agents whose revoke() crashed
  whole  \* those of them whose revoke() has since run to its end, nothing failing

retryVars == <<vars, cut, whole>>

Ends(a) == \E c \in Calls : call[c].agent = a /\ call'[c] = Idle

RetryInit == Init /\ cut = {} /\ whole = {}
RetryNext ==
  /\ Next
  /\ \/ /\ failures' = failures
        /\ whole' = whole \cup {a \in cut : Ends(a)}
        /\ UNCHANGED cut
     \/ /\ failures' # failures
        /\ cut' = cut \cup {a \in Agents : Ends(a)}
        /\ whole' = {}
RetrySpec == RetryInit /\ [][RetryNext]_retryVars

\* The agents below a, through links in any state.
Below(a) ==
  LET Within[n \in 0..Cardinality(Links)] ==
        IF n = 0 THEN {a}
        ELSE Within[n - 1] \cup {To(l) : l \in {m \in Links : From(m) \in Within[n - 1]}}
  IN  Within[Cardinality(Links)]

\* What revokeAllForAgent() says of a crash half way down a cascade: calling it
\* again finishes the cascade, so that nothing is stranded below the agent.
RetryFinishesCascade ==
  Quiet => \A a \in whole, l \in Links : From(l) \in Below(a) => ~Stranded(l)
================================================================================
