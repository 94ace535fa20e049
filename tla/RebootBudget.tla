---------------------------- MODULE RebootBudget ----------------------------
(***************************************************************************)
(* What the watchdog promises about the device it restarts, with nothing   *)
(* said of how: restart requests are issued one after the other, each with *)
(* the time it is accounted at; a requested one (the restart command) is   *)
(* always allowed, an automated one only while fewer than Limit requests   *)
(* of either kind are accounted in the Span before it.  Module Watchdog    *)
(* implements this specification.                                          *)
(***************************************************************************)
EXTENDS Integers, FiniteSets

CONSTANTS
    Limit,   \* requests allowed in a window
    Span,    \* length of the moving window
    Times    \* the times a request may be accounted at

VARIABLE
    spent    \* the requests issued so far

Request == [at : Times, auto : BOOLEAN]

InWindow(t) == {r \in spent : r.at >= t - Span}

Issue(r) ==
    /\ \A s \in spent : s.at < r.at
    /\ r.auto => Cardinality(InWindow(r.at)) < Limit
    /\ spent' = spent \union {r}

Init == spent = {}

Next == \E r \in Request : Issue(r)

Spec == Init /\ [][Next]_spent

(* The limit as an operator of the device sees it: in the window that ends *)
(* with an automated request there are at most Limit requests.             *)
WithinBudget ==
    \A r \in spent :
        r.auto => Cardinality({s \in InWindow(r.at) : s.at <= r.at}) <= Limit
=============================================================================
