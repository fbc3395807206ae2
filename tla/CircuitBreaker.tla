---------------------------- MODULE CircuitBreaker ---------------------------
(* What quota fallback promises of a model candidate: it is a circuit       *)
(* breaker.  A quota error opens it, time makes it half-open, and then one  *)
(* request at a time has the authority to try it; only a success under that *)
(* authority closes it.  A user may reserve the authority, open or not.     *)
(* CandidateHealth implements it with rows, generations, owners and tokens. *)
EXTENDS Naturals

CONSTANTS
    Sessions, Candidates,
    Numbers, \* of grants of an authority, none of which is 0
    None

VARIABLES
    state,     \* of a candidate: "closed", "open" or "halfOpen"
    authority, \* to try it: the number of its grant (0 for nobody's), the
               \* Session that has it reserved, and whether its lease runs
    request    \* of a Session: where it was sent, and by which grant

vars == <<state, authority, request>>

Nobody == [grant |-> 0, for |-> None, live |-> FALSE]
Granted(n, who) == [grant |-> n, for |-> who, live |-> TRUE]
Nowhere == [to |-> None, by |-> 0]

Sent(s) == request[s] # Nowhere
Holds(s) == request[s].by # 0 /\ authority[request[s].to].grant = request[s].by

\* No request and no candidate knows of the grant.
Unused(n) ==
    /\ \A s \in Sessions : request[s].by # n
    /\ \A c \in Candidates : authority[c].grant # n

Revoked(cs) ==
    authority' = [c \in Candidates |-> IF c \in cs THEN Nobody ELSE authority[c]]
Directed(s, c, n) == request' = [request EXCEPT ![s] = [to |-> c, by |-> n]]
Withdrawn(s) == request' = [request EXCEPT ![s] = Nowhere]

Init ==
    /\ state = [c \in Candidates |-> "closed"]
    /\ authority = [c \in Candidates |-> Nobody]
    /\ request = [s \in Sessions |-> Nowhere]

(* Where a request may go once the candidates in cs, if any, are open.      *)
Select(s, cs) ==
    /\ state' = [c \in Candidates |-> IF c \in cs THEN "open" ELSE state[c]]
    /\ \/ \E c \in Candidates \ cs :
             state[c] = "closed" /\ Directed(s, c, 0) /\ Revoked(cs)
       \/ \E c \in Candidates \ cs, n \in Numbers :
             /\ state[c] = "halfOpen" /\ ~authority[c].live
             /\ Directed(s, c, n)
             /\ authority' = [d \in Candidates |->
                    IF d = c THEN Granted(n, None)
                    ELSE IF d \in cs THEN Nobody ELSE authority[d]]
             /\ Unused(n)
       \/ Withdrawn(s) /\ Revoked(cs)

Begin(s) == Select(s, {})

BeginReserved(s) ==
    \E c \in Candidates, n \in Numbers :
        /\ authority[c].for = s /\ authority[c].live
        /\ Directed(s, c, n)
        /\ authority' = [authority EXCEPT ![c] = Granted(n, None)]
        /\ Unused(n)
        /\ UNCHANGED state

(* A late error, after the authority has passed to somebody else, opens     *)
(* nothing; every other one does.                                           *)
Fail(s) ==
    /\ Sent(s)
    /\ Select(s, IF request[s].by = 0 \/ Holds(s) THEN {request[s].to} ELSE {})

FailInBackground(c) ==
    /\ state' = [state EXCEPT ![c] = "open"]
    /\ Revoked({c})
    /\ UNCHANGED request

(* A success closes the candidate under its authority, and only then.       *)
Succeed(s) ==
    /\ Sent(s) /\ Withdrawn(s)
    /\ IF Holds(s)
       THEN /\ state' = [state EXCEPT ![request[s].to] = "closed"]
            /\ Revoked({request[s].to})
       ELSE UNCHANGED <<state, authority>>

End(s) ==
    /\ Sent(s) /\ Withdrawn(s)
    /\ UNCHANGED <<state, authority>>

Reserve(s, c, n) ==
    /\ state[c] # "closed" /\ ~authority[c].live
    /\ authority' = [authority EXCEPT ![c] = Granted(n, s)]
    /\ Unused(n)
    /\ UNCHANGED <<state, request>>

GiveBack(s, c) ==
    /\ authority[c].for = s
    /\ Revoked({c})
    /\ UNCHANGED <<state, request>>

CoolDown(c) ==
    /\ state[c] = "open"
    /\ state' = [state EXCEPT ![c] = "halfOpen"]
    /\ UNCHANGED <<authority, request>>

Lapse(c) ==
    /\ state[c] = "halfOpen" /\ authority[c].live
    /\ authority' = [authority EXCEPT ![c].live = FALSE]
    /\ UNCHANGED <<state, request>>

\* Most steps of an implementation concern no candidate; said first, as TLC
\* tries the disjuncts in order.
Next ==
    \/ UNCHANGED vars
    \/ \E c \in Candidates : FailInBackground(c) \/ CoolDown(c) \/ Lapse(c)
    \/ \E s \in Sessions :
          \/ Begin(s) \/ BeginReserved(s)
          \/ Fail(s) \/ Succeed(s) \/ End(s)
          \/ \E c \in Candidates :
                \/ \E n \in Numbers : Reserve(s, c, n)
                \/ GiveBack(s, c)

Spec == Init /\ [][Next]_vars

(* One request at a time has the authority to try a candidate.              *)
OneTrial ==
    \A s, t \in Sessions :
        Holds(s) /\ Holds(t) /\ request[s].to = request[t].to => s = t
=============================================================================
