-------------------------- MODULE CandidateHealth ---------------------------
(* Quota fallback.  A model candidate that answered with a quota error gets *)
(* a health row: it cools down for five minutes and is then tried by one   *)
(* operation at a time (a probe).  A user may reserve the next operation   *)
(* of a Session for its Primary, cooling or not.  An operation walks down  *)
(* the chain of candidates that it froze when it began.                    *)
(*                                                                         *)
(* Every action is one PostgreSQL transaction.  Those that select a        *)
(* candidate lock the rows they look at, or (background operations) only   *)
(* read them; the Session row is locked first.                             *)
EXTENDS Naturals, Sequences

CONSTANTS
    Sessions,    \* root Sessions of one Workspace
    Candidates,  \* (provider integration, model) identities
    Options,     \* selectable options: a label and its chain of candidates
    Lightweight, \* the chain of background operations
    None,        \* no operation, no reservation, no owner
    MaxMinted    \* bound on identifiers

Labels == {o.label : o \in Options}
Ids == 1..MaxMinted
Claims == [generation : Nat, token : 0..MaxMinted]
Operations == [id : Ids, option : Options, cursor : Nat \ {0},
               claim : Claims]
Reservations == [label : Labels, candidate : Candidates,
                 generation : Nat, token : Ids]
Rows == [generation : Nat, cooling : BOOLEAN,
         kind : {"none", "reservation", "probe"},
         owner : Sessions \cup Ids \cup {None}, token : 0..MaxMinted,
         live : BOOLEAN]

\* ModelOperation refuses a chain that names a candidate twice.
Distinct(chain) == \A i, j \in DOMAIN chain : chain[i] = chain[j] => i = j

ASSUME HealthAssumption ==
    /\ \A o \in Options :
        /\ o.chain \in Seq(Candidates) /\ Len(o.chain) > 0
        /\ Distinct(o.chain)
        /\ o = [label |-> o.label, chain |-> o.chain]
    /\ Lightweight \in Seq(Candidates)
    /\ MaxMinted \in Nat
    /\ None \notin Sessions \cup Candidates \cup Operations \cup Reservations
    /\ \A n \in 0..MaxMinted : n \notin Sessions \cup {None}

VARIABLES
    row,         \* model_candidate_health of every candidate
    option,      \* the option the Session's current label selects
    reservation, \* primary_model_reservation of every Session
    foreground,  \* the run's foreground operation
    compaction,  \* the run's compaction operation: its position, or 0
    archived,    \* Sessions that are no longer active
    minted,      \* identifiers handed out (uuid7)
    superseded,  \* history: claims that a newer generation has overtaken
    bypassed     \* history: cooling candidates an operation was sent to

operations == <<foreground, compaction>>
history == <<superseded, bypassed>>
vars == <<row, option, reservation, operations, archived, minted, history>>

-----------------------------------------------------------------------------
(* Rows.  Generation 0 is the absence of a row.  cooling and live say      *)
(* whether cooldown_until and claim_until lie in the future.               *)

NoClaim == [generation |-> 0, token |-> 0]

Healthy == [generation |-> 0, cooling |-> FALSE, kind |-> "none",
            owner |-> None, token |-> 0, live |-> FALSE]

Renewed(r) == [Healthy EXCEPT !.generation = r.generation + 1,
                              !.cooling = TRUE]

Claimed(r, kind, owner, token) ==
    [r EXCEPT !.generation = @ + 1, !.kind = kind, !.owner = owner,
              !.token = token, !.live = TRUE]

\* The claim stays the Session's (a mutant of Transferred).
TransferredKept(r, operation, token) == [r EXCEPT !.live = TRUE]

Transferred(r, operation, token) ==
    [r EXCEPT !.kind = "probe", !.owner = operation, !.token = token,
              !.live = TRUE]

\* The deadline of a claim outlives the claim (a mutant of Released).
ReleasedLive(r) == [r EXCEPT !.kind = "none", !.owner = None, !.token = 0]

Released(r) ==
    [r EXCEPT !.kind = "none", !.owner = None, !.token = 0, !.live = FALSE]

\* The generation is taken for proof enough (a mutant of Matches).
MatchesGeneration(r, generation, kind, owner, token) ==
    r.generation = generation /\ r.kind = kind

Matches(r, generation, kind, owner, token) ==
    /\ r.generation = generation
    /\ r.kind = kind
    /\ r.owner = owner
    /\ r.token = token

-----------------------------------------------------------------------------
Advanced(op, i, claim) == [op EXCEPT !.cursor = i, !.claim = claim]

Target(op) == op.option.chain[op.cursor]

(* The operation still holds the claim it was granted.                     *)
HoldsProbe(op) ==
    /\ op.claim # NoClaim
    /\ Matches(row[Target(op)], op.claim.generation, "probe", op.id,
               op.claim.token)

HoldsReservation(s, c) ==
    /\ reservation[s] # None
    /\ Matches(row[c], reservation[s].generation, "reservation", s,
               reservation[s].token)

Primary(s) == option[s].chain[1]

(* An operation for the option o takes the reservation along.              *)
Transferable(s, o) ==
    /\ HoldsReservation(s, o.chain[1])
    /\ reservation[s].label = o.label
    /\ reservation[s].candidate = o.chain[1]
    /\ row[o.chain[1]].live

(* What selection may take: an operation of a user also a candidate whose  *)
(* cooldown is over and that nobody else is trying.                        *)
Available(rows, chain) ==
    {i \in DOMAIN chain : rows[chain[i]].generation = 0}

Probeable(rows, chain) ==
    {i \in DOMAIN chain : /\ rows[chain[i]].generation # 0
                          /\ ~rows[chain[i]].cooling
                          /\ ~rows[chain[i]].live}

IsFirst(i, k, usable) ==
    i \in usable /\ i >= k /\ \A j \in usable : j >= k => j >= i

Mint ==
    /\ minted < MaxMinted
    /\ minted' = minted + 1

-----------------------------------------------------------------------------
(* History.  An operation of s is sent to c in this step.                  *)
Dispatched(s, c) ==
    /\ foreground'[s] # None /\ foreground'[s] # foreground[s]
    /\ Target(foreground'[s]) = c

(* A claim is superseded when its candidate gets another generation.       *)
Remember ==
    /\ superseded' = superseded \cup
          {foreground[s].claim.token : s \in {t \in Sessions :
              /\ foreground[t] # None
              /\ foreground[t].claim # NoClaim
              /\ row'[Target(foreground[t])].generation
                    # row[Target(foreground[t])].generation}}
    /\ bypassed' = {c \in Candidates :
          /\ row'[c].cooling
          /\ \/ /\ c \in bypassed
                /\ ~(row'[c].generation # row[c].generation
                     /\ row'[c].kind = "none")
             \/ \E s \in Sessions : row[c].cooling /\ Dispatched(s, c)}

-----------------------------------------------------------------------------
Init ==
    /\ row = [c \in Candidates |-> Healthy]
    /\ option \in [Sessions -> Options]
    /\ reservation = [s \in Sessions |-> None]
    /\ foreground = [s \in Sessions |-> None]
    /\ compaction = [s \in Sessions |-> 0]
    /\ archived = {}
    /\ minted = 0
    /\ superseded = {}
    /\ bypassed = {}

(* select_model_operation_candidate for a foreground operation, from       *)
(* position k on: a healthy candidate, a probe, or the end of the chain.   *)
SelectForeground(s, rows, op, k) ==
    LET chain == op.option.chain
        usable == Available(rows, chain) \cup Probeable(rows, chain)
        SendTo(q) == foreground' = [foreground EXCEPT ![s] = q]
    IN
    \/ \E i \in DOMAIN chain :
        /\ IsFirst(i, k, usable)
        /\ \/ /\ i \in Available(rows, chain)
              /\ row' = rows
              /\ SendTo(Advanced(op, i, NoClaim))
           \/ LET r == Claimed(rows[chain[i]], "probe", op.id, minted')
              IN  /\ i \in Probeable(rows, chain)
                  /\ row' = [rows EXCEPT ![chain[i]] = r]
                  /\ SendTo(Advanced(op, i,
                         [generation |-> r.generation, token |-> r.token]))
    \/ /\ \A i \in usable : i < k
       /\ row' = rows
       /\ foreground' = [foreground EXCEPT ![s] = None]

(* The same for a background operation, which never claims.                *)
SelectCompaction(s, rows, k) ==
    \/ \E i \in DOMAIN Lightweight :
        /\ IsFirst(i, k, Available(rows, Lightweight))
        /\ compaction' = [compaction EXCEPT ![s] = i]
    \/ /\ \A i \in Available(rows, Lightweight) : i < k
       /\ compaction' = [compaction EXCEPT ![s] = 0]

EnsureCompaction(s) ==
    IF compaction[s] # 0 THEN UNCHANGED compaction
    ELSE SelectCompaction(s, row, 1)

NewOperation(o) ==
    [id |-> minted', option |-> o, cursor |-> 1, claim |-> NoClaim]

(* prepare_fresh with an armed reservation.  The reservation is cleared    *)
(* last, after the compaction chain had its turn; if that one is exhausted *)
(* the transfer is committed and the reservation stays.                    *)
BeginReserved(s, o) ==
    LET c == o.chain[1]
        r == Transferred(row[c], minted', minted')
    IN
    /\ Transferable(s, o)
    /\ row' = [row EXCEPT ![c] = r]
    /\ foreground' = [foreground EXCEPT ![s] = Advanced(NewOperation(o), 1,
          [generation |-> r.generation, token |-> r.token])]
    /\ EnsureCompaction(s)
    /\ reservation' = [reservation EXCEPT ![s] =
          IF compaction'[s] = 0 THEN @ ELSE None]

BeginUnreserved(s, o) ==
    /\ ~Transferable(s, o)
    /\ SelectForeground(s, row, NewOperation(o), 1)
    /\ IF foreground'[s] = None THEN UNCHANGED compaction
       ELSE EnsureCompaction(s)
    /\ UNCHANGED reservation

(* A run, a new input within a run or a change of label begins a new       *)
(* operation, for the Session's label or, in the retry of a failed run,    *)
(* for the label of that run, which may be any the Session had.  A label   *)
(* that the Agent no longer has gives way to the Agent's default, and this *)
(* becomes the Session's label too.  The claim of an operation that is     *)
(* replaced is left to expire.                                             *)
Begin(s, o) ==
    /\ s \notin archived
    /\ o.label = option[s].label => o = option[s]
    /\ Mint
    /\ BeginReserved(s, o) \/ BeginUnreserved(s, o)
    /\ option' \in {option, [option EXCEPT ![s] = o]}
    /\ UNCHANGED archived
    /\ Remember

(* A retry prepares again and keeps the foreground operation; a compaction *)
(* that a user asks for has none.                                          *)
PrepareCompaction(s) ==
    /\ s \notin archived /\ compaction[s] = 0
    /\ Mint
    /\ SelectCompaction(s, row, 1)
    /\ UNCHANGED <<row, option, reservation, foreground, archived>>
    /\ Remember

(* advance_after_quota: an operation with a claim renews the cooldown only *)
(* if it still holds it, an operation without one always does.             *)
ForegroundQuota(s) ==
    LET op == foreground[s]
        renews == op.claim = NoClaim \/ HoldsProbe(op)
        rows == IF renews
                THEN [row EXCEPT ![Target(op)] = Renewed(@)] ELSE row
    IN
    /\ op # None
    /\ Mint
    /\ SelectForeground(s, rows, op, op.cursor + 1)
    /\ UNCHANGED <<option, reservation, compaction, archived>>
    /\ Remember

CompactionQuota(s) ==
    LET rows == [row EXCEPT ![Lightweight[compaction[s]]] = Renewed(@)]
    IN
    /\ compaction[s] # 0
    /\ row' = rows
    /\ SelectCompaction(s, rows, compaction[s] + 1)
    /\ UNCHANGED <<option, reservation, foreground, archived, minted>>
    /\ Remember

(* The run completes: a probe that is still held proves recovery.          *)
ForegroundSucceeds(s) ==
    LET op == foreground[s] IN
    /\ op # None
    /\ row' = IF HoldsProbe(op)
              THEN [row EXCEPT ![Target(op)] = Healthy] ELSE row
    /\ foreground' = [foreground EXCEPT ![s] = None]
    /\ compaction' = [compaction EXCEPT ![s] = 0]
    /\ UNCHANGED <<option, reservation, archived, minted>>
    /\ Remember

CompactionSucceeds(s) ==
    /\ compaction[s] # 0
    /\ compaction' = [compaction EXCEPT ![s] = 0]
    /\ UNCHANGED <<row, option, reservation, foreground, archived, minted>>
    /\ Remember

(* The run ends without a result; nobody releases its claim.               *)
RunEnds(s) ==
    /\ foreground[s] # None \/ compaction[s] # 0
    /\ foreground' = [foreground EXCEPT ![s] = None]
    /\ compaction' = [compaction EXCEPT ![s] = 0]
    /\ UNCHANGED <<row, option, reservation, archived, minted>>
    /\ Remember

-----------------------------------------------------------------------------
\* A claim that another Session just took is taken over (a mutant of
\* Reservable).
ReservableAgain(r) == r.generation # 0

(* Healthy candidates and ones with a live claim are refused.              *)
Reservable(r) == r.generation # 0 /\ ~r.live

Reserve(s) ==
    LET c == Primary(s)
        r == Claimed(row[c], "reservation", s, minted')
    IN
    /\ s \notin archived
    /\ Reservable(row[c])
    /\ Mint
    /\ row' = [row EXCEPT ![c] = r]
    /\ reservation' = [reservation EXCEPT ![s] =
          [label |-> option[s].label, candidate |-> c,
           generation |-> r.generation, token |-> r.token]]
    /\ UNCHANGED <<option, operations, archived>>
    /\ Remember

ReleaseAt(s, c) ==
    row' = IF HoldsReservation(s, c)
           THEN [row EXCEPT ![c] = Released(@)] ELSE row

(* A request that names another reservation_generation changes nothing.    *)
Cancel(s) ==
    /\ s \notin archived
    /\ reservation[s] # None
    /\ ReleaseAt(s, Primary(s))
    /\ reservation' = [reservation EXCEPT ![s] = None]
    /\ UNCHANGED <<option, operations, archived, minted>>
    /\ Remember

(* Another label, or an edit of the Agent's options.                       *)
ChangeOption(s) ==
    /\ s \notin archived
    /\ \E o \in Options \ {option[s]} : option' = [option EXCEPT ![s] = o]
    /\ UNCHANGED <<row, reservation, operations, archived, minted>>
    /\ Remember

Archive(s) ==
    /\ s \notin archived
    /\ foreground[s] = None /\ compaction[s] = 0
    /\ archived' = archived \cup {s}
    /\ IF reservation[s] = None THEN UNCHANGED row
       ELSE ReleaseAt(s, reservation[s].candidate)
    /\ reservation' = [reservation EXCEPT ![s] = None]
    /\ UNCHANGED <<option, operations, minted>>
    /\ Remember

-----------------------------------------------------------------------------
(* Time passes.                                                            *)

CooldownEnds(c) ==
    /\ row[c].cooling
    /\ row' = [row EXCEPT ![c].cooling = FALSE]
    /\ UNCHANGED <<option, reservation, operations, archived, minted>>
    /\ Remember

(* A cooldown and a lease are both five minutes, a claim is never older    *)
(* than the cooldown of its row, and a quota result ends the claim: the    *)
(* cooldown is over first.                                                 *)
ClaimExpires(c) ==
    /\ row[c].live /\ ~row[c].cooling
    /\ row' = [row EXCEPT ![c].live = FALSE]
    /\ UNCHANGED <<option, reservation, operations, archived, minted>>
    /\ Remember

Next ==
    \/ \E s \in Sessions :
        \/ \E o \in Options : Begin(s, o)
        \/ PrepareCompaction(s)
        \/ ForegroundQuota(s) \/ CompactionQuota(s)
        \/ ForegroundSucceeds(s) \/ CompactionSucceeds(s) \/ RunEnds(s)
        \/ Reserve(s) \/ Cancel(s) \/ ChangeOption(s) \/ Archive(s)
    \/ \E c \in Candidates : CooldownEnds(c) \/ ClaimExpires(c)

Spec == Init /\ [][Next]_vars

-----------------------------------------------------------------------------
(* ck_model_candidate_health_claim_complete: a claim is there as a whole   *)
(* or not at all; and a candidate without a row is healthy.                *)
Complete(r) ==
    /\ r.kind = "none" <=> r.token = 0
    /\ r.kind = "none" <=> r.owner = None
    /\ r.kind = "none" => ~r.live
    /\ r.kind = "reservation" => r.owner \in Sessions
    /\ r.kind = "probe" => r.owner \in Ids
    /\ r.generation = 0 => r = Healthy

(* Every variable keeps its type, and health rows keep the constraints of  *)
(* their table.                                                            *)
TypeOK ==
    /\ row \in [Candidates -> Rows]
    /\ \A c \in Candidates : Complete(row[c])
    /\ option \in [Sessions -> Options]
    /\ reservation \in [Sessions -> {None} \cup Reservations]
    /\ foreground \in [Sessions -> {None} \cup Operations]
    /\ \A s \in Sessions : foreground[s] # None =>
          foreground[s].cursor \in DOMAIN foreground[s].option.chain
    /\ compaction \in [Sessions -> {0} \cup DOMAIN Lightweight]
    /\ archived \subseteq Sessions
    /\ minted \in 0..MaxMinted
    /\ superseded \subseteq 0..MaxMinted
    /\ bypassed \subseteq Candidates

(* An operation whose candidate has been given to another generation (a    *)
(* newer quota result, a probe after its lease) no longer decides about    *)
(* it: neither its late success nor its late quota result changes the row, *)
(* though generations start again at 1 once a row was deleted.             *)
SupersededChangesNothing ==
    [][\A s \in Sessions :
          /\ foreground[s] # None
          /\ foreground[s].claim.token \in superseded
          /\ ForegroundSucceeds(s) \/ ForegroundQuota(s)
          => row'[Target(foreground[s])] = row[Target(foreground[s])]]_vars

(* What the Session shows as primary_next.                                 *)
PrimaryNext(s) ==
    /\ HoldsReservation(s, Primary(s))
    /\ reservation[s].label = option[s].label
    /\ reservation[s].candidate = Primary(s)
    /\ row[Primary(s)].live

(* What other Sessions do never takes a reservation away: it stays until   *)
(* its Session gives it up or changes its label, its lease is over or its  *)
(* candidate answers with another quota error.  The retry of a run of      *)
(* another label passes it by and leaves it.  The first operation that the *)
(* Session begins for its own label before goes to the Primary, cooling or *)
(* not, and holds the claim for it.                                        *)
PrimaryNextIsKept ==
    [][\A s \in Sessions : PrimaryNext(s) =>
          \/ PrimaryNext(s)' /\ ~Begin(s, option[s])
          \/ /\ Begin(s, option[s]) /\ foreground'[s] # None
             /\ Target(foreground'[s]) = Primary(s)
             /\ row'[Primary(s)].owner = foreground'[s].id
          \/ Cancel(s) \/ option'[s] # option[s] \/ Archive(s)
          \/ row'[Primary(s)] = Renewed(row[Primary(s)])
          \/ ClaimExpires(Primary(s))]_vars

(* The bypass of a cooldown is one-shot: of all operations of all          *)
(* Sessions at most one is sent to a candidate from one quota result on it *)
(* to the end of the cooldown, and only for a reservation.                 *)
BypassIsOneShot ==
    [][\A s \in Sessions, c \in Candidates :
          row[c].cooling /\ Dispatched(s, c) =>
              c \notin bypassed /\ row[c].kind = "reservation"
                /\ row[c].owner = s]_vars

(* At most one operation holds the probe of a candidate: however claims     *)
(* expire, pass from a reservation to an operation or outlive a deleted     *)
(* row, two Sessions never both decide about its recovery.                  *)
OneProbe ==
    \A s, t \in Sessions :
        /\ foreground[s] # None /\ HoldsProbe(foreground[s])
        /\ foreground[t] # None /\ HoldsProbe(foreground[t])
        /\ Target(foreground[s]) = Target(foreground[t])
        => s = t

(* Labels, chains, runs and rows aside, the candidates are those of         *)
(* CircuitBreaker.                                                          *)
Breaker == INSTANCE CircuitBreaker WITH
    Numbers <- Ids,
    state <- [c \in Candidates |->
        IF row[c].generation = 0 THEN "closed"
        ELSE IF row[c].cooling THEN "open" ELSE "halfOpen"],
    authority <- [c \in Candidates |->
        [grant |-> row[c].token, live |-> row[c].live,
         for |-> IF row[c].kind = "reservation" THEN row[c].owner ELSE None]],
    request <- [s \in Sessions |->
        IF foreground[s] = None THEN [to |-> None, by |-> 0]
        ELSE [to |-> Target(foreground[s]), by |-> foreground[s].claim.token]]

CandidatesAreBreakers == Breaker!Spec

(* Cancelling the reservation of a Session revokes its claim, wherever the *)
(* label of the Session points to by then.  Does not hold (README, section *)
(* 5).                                                                     *)
CancelRevokes ==
    [][\A s \in Sessions : Cancel(s) =>
          LET r == row'[reservation[s].candidate]
          IN  r.live => r.token # reservation[s].token]_vars
=============================================================================
