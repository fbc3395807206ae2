------------------------ MODULE CircuitBreaker_proofs ------------------------
(* What every implementation of CircuitBreaker has, whatever happens in it  *)
(* besides.                                                                 *)
EXTENDS CircuitBreaker, TLAPS

TypeOK == request \in [Sessions -> [to : Candidates \union {None},
                                    by : Numbers \union {0}]]

(* OneTrial says nothing of grants that are revoked, and those could come   *)
(* back: no two requests have ever been given the same one.                 *)
GrantsAreSingle ==
    \A s, t \in Sessions :
        request[s].by # 0 /\ request[s].by = request[t].by => s = t

IInv == TypeOK /\ GrantsAreSingle

(* A request that goes nowhere, without a grant or with an unused one.      *)
LEMMA RequestKeepsGrantsSingle ==
  ASSUME IInv, NEW s \in Sessions,
         NEW c \in Candidates \union {None}, NEW n \in Numbers \union {0},
         n = 0 \/ Unused(n),
         request' = [request EXCEPT ![s] = [to |-> c, by |-> n]]
  PROVE  IInv'
<1>1. request' = [t \in Sessions |-> IF t = s THEN [to |-> c, by |-> n]
                                     ELSE request[t]]
  BY DEF IInv, TypeOK
<1>2. TypeOK'
  BY <1>1 DEF IInv, TypeOK
<1>3. GrantsAreSingle'
  BY <1>1 DEF IInv, GrantsAreSingle, Unused
<1> QED
  BY <1>2, <1>3 DEF IInv

LEMMA SelectKeepsGrantsSingle ==
  ASSUME IInv, NEW s \in Sessions, NEW cs, Select(s, cs)
  PROVE  IInv'
<1>1. ASSUME NEW c \in Candidates, Directed(s, c, 0) PROVE IInv'
  BY <1>1, RequestKeepsGrantsSingle DEF Directed
<1>2. ASSUME NEW c \in Candidates, NEW n \in Numbers, Unused(n),
             Directed(s, c, n)
      PROVE  IInv'
  BY <1>2, RequestKeepsGrantsSingle DEF Directed
<1>3. ASSUME Withdrawn(s) PROVE IInv'
  BY <1>3, RequestKeepsGrantsSingle DEF Withdrawn, Nowhere
<1> QED
  BY <1>1, <1>2, <1>3 DEF Select

LEMMA StepKeepsGrantsSingle ==
  ASSUME IInv, [Next]_vars
  PROVE  IInv'
<1>1. ASSUME request' = request PROVE IInv'
  BY <1>1 DEF IInv, TypeOK, GrantsAreSingle
<1>2. ASSUME NEW s \in Sessions, Begin(s) \/ Fail(s) PROVE IInv'
  <2>1. PICK cs : Select(s, cs)
    BY <1>2 DEF Begin, Fail
  <2> QED
    BY <2>1, SelectKeepsGrantsSingle
<1>3. ASSUME NEW s \in Sessions, BeginReserved(s) PROVE IInv'
  <2>1. PICK c \in Candidates, n \in Numbers : Unused(n) /\ Directed(s, c, n)
    BY <1>3 DEF BeginReserved
  <2> QED
    BY <2>1, RequestKeepsGrantsSingle DEF Directed
<1>4. ASSUME NEW s \in Sessions, Succeed(s) \/ End(s) PROVE IInv'
  <2>1. Withdrawn(s)
    BY <1>4 DEF Succeed, End
  <2> QED
    BY <2>1, RequestKeepsGrantsSingle DEF Withdrawn, Nowhere
<1>5. ASSUME NEW s \in Sessions, NEW c \in Candidates,
             (\E n \in Numbers : Reserve(s, c, n)) \/ GiveBack(s, c)
      PROVE  request' = request
  BY <1>5 DEF Reserve, GiveBack
<1>6. ASSUME NEW c \in Candidates,
             FailInBackground(c) \/ CoolDown(c) \/ Lapse(c)
      PROVE  request' = request
  BY <1>6 DEF FailInBackground, CoolDown, Lapse
<1>7. UNCHANGED vars => request' = request
  BY DEF vars
<1> QED
  BY <1>1, <1>2, <1>3, <1>4, <1>5, <1>6, <1>7 DEF Next

(* Two requests never have the authority to try the same candidate, however *)
(* grants lapse, are reserved, given back and granted anew.                 *)
THEOREM OneTrialAlways == Spec => []OneTrial
<1>1. Init => IInv
  BY DEF Init, IInv, TypeOK, GrantsAreSingle, Nowhere
<1>2. IInv /\ [Next]_vars => IInv'
  BY StepKeepsGrantsSingle
<1>3. IInv => OneTrial
  BY DEF IInv, GrantsAreSingle, OneTrial, Holds
<1> QED
  BY <1>1, <1>2, <1>3, PTL DEF Spec

=============================================================================
