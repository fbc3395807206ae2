------------------------ MODULE CandidateHealth_proofs ----------------------
(* Proofs about CandidateHealth.  The heart is RowMove: the ways in which   *)
(* a step can treat the health row of a candidate, with what each of them  *)
(* presupposes.  The type invariant and the history invariant follow from  *)
(* it without looking at the actions again.                                *)
EXTENDS CandidateHealth, TLAPS

Kinds == {"none", "reservation", "probe"}
Owners == Sessions \cup Ids \cup {None}
GoodRow(r) == r \in Rows /\ Complete(r)
Fits(kind, owner) ==
    \/ kind = "probe" /\ owner \in Ids
    \/ kind = "reservation" /\ owner \in Sessions

(* Identifiers are neither Sessions nor None.                              *)
LEMMA Identifiers ==
  /\ 0 \in 0..MaxMinted /\ None \notin Sessions
  /\ \A n \in Ids : n \in 0..MaxMinted /\ n # 0 /\ n # None
  BY HealthAssumption DEF Ids

(* A healthy candidate has a well-formed row.                              *)
LEMMA HealthyIsGood == GoodRow(Healthy)
<1>1. Healthy \in Rows
  BY Identifiers DEF Healthy, Rows
<1>2. Complete(Healthy)
  BY DEF Complete, Healthy
<1> QED
  BY <1>1, <1>2 DEF GoodRow

(* The two deadlines of a row are booleans.                                *)
LEMMA RowFlags ==
  \A r : GoodRow(r) => r.cooling \in BOOLEAN /\ r.live \in BOOLEAN
  BY DEF GoodRow, Rows

(* A renewal of the cooldown keeps a row well-formed.                      *)
LEMMA RenewedIsGood == \A r : GoodRow(r) => GoodRow(Renewed(r))
<1> TAKE r
<1> HAVE GoodRow(r)
<1>1. r.generation + 1 \in Nat \ {0}
  BY DEF GoodRow, Rows
<1>2. /\ Renewed(r).generation = r.generation + 1
      /\ Renewed(r).token = 0 /\ Renewed(r).owner = None
      /\ Renewed(r).kind = "none" /\ Renewed(r).live = FALSE
  BY DEF Renewed, Healthy
<1>3. Renewed(r) \in Rows
  BY <1>1, HealthyIsGood DEF Renewed, Rows, GoodRow
<1>4. Complete(Renewed(r))
  BY <1>1, <1>2 DEF Complete
<1> QED
  BY <1>3, <1>4 DEF GoodRow

(* The fields of a row after each operation on its claim.                  *)
LEMMA RowFields ==
  \A r : GoodRow(r) =>
    /\ \A kind, owner, token :
         /\ Claimed(r, kind, owner, token).generation = r.generation + 1
         /\ Claimed(r, kind, owner, token).cooling = r.cooling
         /\ Claimed(r, kind, owner, token).kind = kind
         /\ Claimed(r, kind, owner, token).owner = owner
         /\ Claimed(r, kind, owner, token).token = token
         /\ Claimed(r, kind, owner, token).live = TRUE
    /\ \A operation, token :
         /\ Transferred(r, operation, token).generation = r.generation
         /\ Transferred(r, operation, token).cooling = r.cooling
         /\ Transferred(r, operation, token).kind = "probe"
         /\ Transferred(r, operation, token).owner = operation
         /\ Transferred(r, operation, token).token = token
         /\ Transferred(r, operation, token).live = TRUE
    /\ Released(r).generation = r.generation /\ Released(r).kind = "none"
    /\ Released(r).token = 0
    /\ Renewed(r).generation = r.generation + 1 /\ Renewed(r).kind = "none"
    /\ Renewed(r).token = 0 /\ Renewed(r).cooling = TRUE
<1>1. \A r, kind, owner, token : GoodRow(r) =>
         /\ Claimed(r, kind, owner, token).generation = r.generation + 1
         /\ Claimed(r, kind, owner, token).cooling = r.cooling
         /\ Claimed(r, kind, owner, token).kind = kind
         /\ Claimed(r, kind, owner, token).owner = owner
         /\ Claimed(r, kind, owner, token).token = token
         /\ Claimed(r, kind, owner, token).live = TRUE
  BY DEF Claimed, GoodRow, Rows
<1>2. \A r, operation, token : GoodRow(r) =>
         /\ Transferred(r, operation, token).generation = r.generation
         /\ Transferred(r, operation, token).cooling = r.cooling
         /\ Transferred(r, operation, token).kind = "probe"
         /\ Transferred(r, operation, token).owner = operation
         /\ Transferred(r, operation, token).token = token
         /\ Transferred(r, operation, token).live = TRUE
  BY DEF Transferred, GoodRow, Rows
<1>3. \A r : GoodRow(r) =>
         /\ Released(r).generation = r.generation
         /\ Released(r).kind = "none" /\ Released(r).token = 0
  BY DEF Released, GoodRow, Rows
<1>4. \A r : GoodRow(r) =>
         /\ Renewed(r).generation = r.generation + 1
         /\ Renewed(r).kind = "none"
         /\ Renewed(r).token = 0 /\ Renewed(r).cooling = TRUE
  BY DEF Renewed, Healthy
<1> QED
  BY <1>1, <1>2, <1>3, <1>4

(* A claim of a fitting owner keeps a row well-formed.                     *)
LEMMA ClaimedIsGood ==
  \A r, kind, owner : \A token \in Ids :
      GoodRow(r) /\ Fits(kind, owner) =>
        GoodRow(Claimed(r, kind, owner, token))
<1> TAKE r, kind, owner
<1> TAKE token \in Ids
<1> HAVE GoodRow(r) /\ Fits(kind, owner)
<1> DEFINE q == Claimed(r, kind, owner, token)
<1>1. r.generation + 1 \in Nat \ {0} /\ token \in 0..MaxMinted /\ token # 0
  BY Identifiers DEF GoodRow, Rows
<1>2. kind \in Kinds /\ kind # "none" /\ owner \in Owners /\ owner # None
  BY Identifiers DEF Kinds, Owners, Fits
<1>3. /\ q.generation = r.generation + 1 /\ q.kind = kind
      /\ q.owner = owner /\ q.token = token
  BY RowFields
<1>4. q \in Rows
  BY <1>1, <1>2 DEF Claimed, Rows, GoodRow, Kinds, Owners
<1>5. Complete(q)
  <2> HIDE DEF q
  <2> QED
    BY <1>1, <1>2, <1>3 DEF Complete, Fits
<1> QED
  BY <1>4, <1>5 DEF GoodRow

(* The transfer of a reservation keeps a row well-formed.                  *)
LEMMA TransferredIsGood ==
  \A r : \A operation, token \in Ids :
      GoodRow(r) /\ r.kind = "reservation" =>
        GoodRow(Transferred(r, operation, token))
<1> TAKE r
<1> TAKE operation, token \in Ids
<1> HAVE GoodRow(r) /\ r.kind = "reservation"
<1> DEFINE q == Transferred(r, operation, token)
<1>1. token \in 0..MaxMinted /\ token # 0 /\ operation # None
  BY Identifiers
<1>2. operation \in Sessions \cup Ids \cup {None}
  OBVIOUS
<1>3. /\ q.generation = r.generation /\ q.kind = "probe"
      /\ q.owner = operation /\ q.token = token
  BY RowFields
<1>4. q \in Rows
  <2> HIDE DEF Ids
  <2> QED
    BY <1>1, <1>2 DEF Transferred, Rows, GoodRow
<1>5. r.generation # 0
  BY DEF GoodRow, Complete, Healthy
<1>6. Complete(q)
  <2> HIDE DEF q
  <2> QED
    BY <1>1, <1>3, <1>5 DEF Complete
<1> QED
  BY <1>4, <1>6 DEF GoodRow

(* The release of a claim keeps a row well-formed.                         *)
LEMMA ReleasedIsGood ==
  \A r : GoodRow(r) /\ r.kind = "reservation" => GoodRow(Released(r))
<1> TAKE r
<1> HAVE GoodRow(r) /\ r.kind = "reservation"
<1> DEFINE q == Released(r)
<1>1. /\ q.generation = r.generation /\ q.kind = "none"
      /\ q.owner = None /\ q.token = 0 /\ q.live = FALSE
  BY DEF Released, GoodRow, Rows
<1>2. q \in Rows
  BY Identifiers DEF Released, Rows, GoodRow
<1>3. r.generation # 0
  BY DEF GoodRow, Complete, Healthy
<1>4. Complete(q)
  <2> HIDE DEF q
  <2> QED
    BY <1>1, <1>3 DEF Complete
<1> QED
  BY <1>2, <1>4 DEF GoodRow

(* The end of a cooldown and of a lease keep a row well-formed.            *)
LEMMA CooledIsGood ==
  ASSUME NEW r, GoodRow(r), r.cooling = TRUE
  PROVE  LET q == [r EXCEPT !.cooling = FALSE] IN
         /\ GoodRow(q) /\ q.generation = r.generation
         /\ q.cooling = FALSE /\ q.kind = r.kind /\ q.token = r.token
         /\ q.owner = r.owner /\ q.live = r.live
<1> DEFINE q == [r EXCEPT !.cooling = FALSE]
<1>1. /\ q.generation = r.generation /\ q.kind = r.kind /\ q.owner = r.owner
      /\ q.token = r.token /\ q.live = r.live /\ q.cooling = FALSE
  BY DEF GoodRow, Rows
<1>2. q \in Rows
  BY DEF Rows, GoodRow
<1>3. r.generation # 0
  BY DEF GoodRow, Complete, Healthy
<1>4. Complete(q)
  <2> HIDE DEF q
  <2> QED
    BY <1>1, <1>3 DEF Complete, GoodRow
<1> QED
  BY <1>1, <1>2, <1>4 DEF GoodRow

(* The end of a lease.                                                     *)
LEMMA LapsedIsGood ==
  ASSUME NEW r, GoodRow(r), r.live = TRUE
  PROVE  LET q == [r EXCEPT !.live = FALSE] IN
         /\ GoodRow(q) /\ q.generation = r.generation
         /\ q.cooling = r.cooling /\ q.kind = r.kind /\ q.token = r.token
         /\ q.owner = r.owner /\ q.live = FALSE
<1> DEFINE q == [r EXCEPT !.live = FALSE]
<1>1. /\ q.generation = r.generation /\ q.kind = r.kind /\ q.owner = r.owner
      /\ q.token = r.token /\ q.live = FALSE /\ q.cooling = r.cooling
  BY DEF GoodRow, Rows
<1>2. q \in Rows
  BY DEF Rows, GoodRow
<1>3. r.generation # 0
  BY DEF GoodRow, Complete, Healthy
<1>4. Complete(q)
  <2> HIDE DEF q
  <2> QED
    BY <1>1, <1>3 DEF Complete, GoodRow
<1> QED
  BY <1>1, <1>2, <1>4 DEF GoodRow

-----------------------------------------------------------------------------
(* What a step may do to a row, and what that presupposes.                 *)
Minting == minted' = minted + 1 /\ minted' \in Ids

RowMove(c) ==
    \/ row'[c] = row[c]
    \/ row'[c] = Healthy
    \/ row'[c] = Renewed(row[c])
    \/ /\ Minting /\ row[c].live = FALSE
       /\ \E kind, owner : /\ Fits(kind, owner)
                           /\ row'[c] = Claimed(row[c], kind, owner, minted')
    \/ /\ Minting /\ row[c].kind = "reservation"
       /\ row'[c] = Transferred(row[c], minted', minted')
    \/ row[c].kind = "reservation" /\ row'[c] = Released(row[c])
    \/ row[c].cooling = TRUE /\ row'[c] = [row[c] EXCEPT !.cooling = FALSE]
    \/ /\ row[c].cooling = FALSE /\ row[c].live = TRUE
       /\ row'[c] = [row[c] EXCEPT !.live = FALSE]

(* A step moves one row; the others are left alone or have their cooldown  *)
(* renewed.                                                                *)
RowsMove ==
    \/ row' = row
    \/ /\ row' = [c \in Candidates |-> row'[c]]
       /\ \E d \in Candidates :
            /\ RowMove(d)
            /\ \A c \in Candidates \ {d} :
                 row'[c] = row[c] \/ row'[c] = Renewed(row[c])

GoodOperation(op) ==
    op \in Operations /\ op.cursor \in DOMAIN op.option.chain

(* What a step may do to the operation of a Session.                       *)
OperationMove(s) ==
    \/ foreground'[s] = None
    \/ foreground'[s] = foreground[s]
    \/ LET c == Target(foreground'[s]) IN
       /\ GoodOperation(foreground'[s])
       /\ \/ foreground'[s].claim = NoClaim /\ row[c].cooling = FALSE
          \/ /\ Minting /\ foreground'[s].claim.token = minted'
             /\ Matches(row'[c], foreground'[s].claim.generation, "probe",
                        foreground'[s].id, minted')
             /\ \/ row[c].cooling = FALSE
                \/ /\ row[c].kind = "reservation" /\ row[c].owner = s
                   /\ row'[c].kind = "probe" /\ row'[c].live = TRUE

OperationsMove ==
    /\ foreground' = [s \in Sessions |-> foreground'[s]]
    /\ \A s \in Sessions : OperationMove(s)

(* Every chain leads through candidates and has a Primary.                 *)
LEMMA Chains ==
  ASSUME NEW o \in Options
  PROVE  /\ 1 \in DOMAIN o.chain /\ DOMAIN o.chain \subseteq Nat \ {0}
         /\ \A i \in DOMAIN o.chain : o.chain[i] \in Candidates
  BY HealthAssumption

(* The candidates that the model refers to are candidates.                 *)
LEMMA Targets ==
  /\ \A op : GoodOperation(op) => Target(op) \in Candidates
  /\ TypeOK => \A s \in Sessions : Primary(s) \in Candidates
<1>1. \A op : GoodOperation(op) => Target(op) \in Candidates
  BY Chains DEF GoodOperation, Operations, Target
<1>2. ASSUME TypeOK, NEW s \in Sessions PROVE Primary(s) \in Candidates
  BY <1>2, Chains DEF TypeOK, Primary
<1> QED
  BY <1>1, <1>2

(* TypeOK, as the lemmas below need it.                                    *)
LEMMA TypedState ==
  ASSUME TypeOK
  PROVE  /\ row = [c \in Candidates |-> row[c]]
         /\ \A c \in Candidates : GoodRow(row[c])
         /\ foreground = [s \in Sessions |-> foreground[s]]
         /\ \A s \in Sessions : /\ option[s] \in Options
                                /\ foreground[s] # None
                                     => GoodOperation(foreground[s])
<1>1. /\ row = [c \in Candidates |-> row[c]]
      /\ \A c \in Candidates : GoodRow(row[c])
  BY DEF TypeOK, GoodRow
<1>2. foreground = [s \in Sessions |-> foreground[s]]
  BY DEF TypeOK
<1>3. ASSUME NEW s \in Sessions
      PROVE  /\ option[s] \in Options
             /\ foreground[s] # None => GoodOperation(foreground[s])
  <2>1. foreground[s] # None => foreground[s] \in Operations
    BY DEF TypeOK
  <2> QED
    BY <2>1 DEF TypeOK, GoodOperation
<1> QED
  BY <1>1, <1>2, <1>3

(* Advancing an operation keeps its identity and its chain.                *)
LEMMA AdvancedOperation ==
  ASSUME NEW op \in Operations, NEW i \in DOMAIN op.option.chain,
         NEW claim \in Claims
  PROVE  /\ GoodOperation(Advanced(op, i, claim))
         /\ Target(Advanced(op, i, claim)) = op.option.chain[i]
         /\ Advanced(op, i, claim).claim = claim
         /\ Advanced(op, i, claim).id = op.id
<1> DEFINE q == Advanced(op, i, claim)
<1>1. op.option \in Options
  BY DEF Operations
<1>2. i \in Nat \ {0}
  BY <1>1, Chains
<1>3. q \in Operations
  BY <1>2 DEF Operations, Advanced
<1>4. /\ q.cursor = i /\ q.claim = claim
      /\ q.option = op.option /\ q.id = op.id
  BY DEF Operations, Advanced
<1> QED
  BY <1>3, <1>4 DEF GoodOperation, Target

(* A new operation stands at the Primary of its option.                    *)
LEMMA BegunOperation ==
  ASSUME TypeOK, NEW o \in Options, Minting
  PROVE  /\ NewOperation(o) \in Operations
         /\ NewOperation(o).option = o
         /\ NewOperation(o).cursor = 1 /\ NewOperation(o).id = minted'
<1>1. NoClaim \in Claims
  BY Identifiers DEF TypeOK, NoClaim, Claims
<1> QED
  BY <1>1 DEF NewOperation, Operations, Minting

(* The three results of selecting a candidate.                             *)
Exhausts(s, rows) == row' = rows /\ foreground'[s] = None

SendsToHealthy(s, rows) ==
    /\ row' = rows /\ GoodOperation(foreground'[s])
    /\ foreground'[s].claim = NoClaim
    /\ rows[Target(foreground'[s])].cooling = FALSE
    /\ rows[Target(foreground'[s])].generation = 0

Probes(s, rows, op) ==
    LET c == Target(foreground'[s]) IN
    /\ row' = [rows EXCEPT ![c] = Claimed(rows[c], "probe", op.id, minted')]
    /\ GoodOperation(foreground'[s]) /\ foreground'[s].id = op.id
    /\ foreground'[s].claim.token = minted'
    /\ foreground'[s].claim.generation = rows[c].generation + 1
    /\ rows[c].cooling = FALSE /\ rows[c].live = FALSE
    /\ rows[c].generation # 0

OthersKeep(s) ==
    /\ foreground' = [t \in Sessions |-> foreground'[t]]
    /\ \A t \in Sessions \ {s} : foreground'[t] = foreground[t]

(* Selecting a candidate claims at most one row, a free one, and sends the *)
(* operation to no other.                                                  *)
LEMMA SelectionMoves ==
  ASSUME TypeOK, NEW s \in Sessions, NEW rows, NEW op \in Operations,
         NEW k \in Nat, Minting, SelectForeground(s, rows, op, k),
         \A c \in Candidates : GoodRow(rows[c])
  PROVE  /\ OthersKeep(s)
         /\ \/ Exhausts(s, rows) \/ SendsToHealthy(s, rows)
            \/ Probes(s, rows, op)
<1> DEFINE chain == op.option.chain
           r(i) == Claimed(rows[chain[i]], "probe", op.id, minted')
           claim(i) == [generation |-> r(i).generation, token |-> r(i).token]
           Sent(q) == foreground' = [foreground EXCEPT ![s] = q]
<1>1. ASSUME NEW q, Sent(q) PROVE OthersKeep(s) /\ foreground'[s] = q
  <2>1. foreground = [t \in Sessions |-> foreground[t]]
    BY TypedState
  <2> QED
    BY <1>1, <2>1 DEF OthersKeep
<1>2. \A i \in DOMAIN chain : GoodRow(rows[chain[i]])
  BY Chains DEF Operations
<1>3. \/ row' = rows /\ Sent(None)
      \/ \E i \in Available(rows, chain) :
            row' = rows /\ Sent(Advanced(op, i, NoClaim))
      \/ \E i \in Probeable(rows, chain) :
            row' = [rows EXCEPT ![chain[i]] = r(i)]
              /\ Sent(Advanced(op, i, claim(i)))
  BY DEF SelectForeground
<1>4. CASE row' = rows /\ Sent(None)
  BY <1>1, <1>4 DEF Exhausts
<1>5. ASSUME NEW i \in Available(rows, chain), row' = rows,
             Sent(Advanced(op, i, NoClaim))
      PROVE  OthersKeep(s) /\ SendsToHealthy(s, rows)
  <2>1. OthersKeep(s) /\ foreground'[s] = Advanced(op, i, NoClaim)
    BY <1>1, <1>5
  <2>2. i \in DOMAIN chain /\ rows[chain[i]].generation = 0
    BY DEF Available
  <2>3. NoClaim \in Claims
    BY Identifiers DEF NoClaim, Claims
  <2>4. /\ GoodOperation(foreground'[s])
        /\ Target(foreground'[s]) = chain[i]
        /\ foreground'[s].claim = NoClaim
    BY <2>1, <2>2, <2>3, AdvancedOperation
  <2>5. rows[chain[i]].cooling = FALSE
    BY <1>2, <2>2 DEF GoodRow, Complete, Healthy
  <2> QED
    BY <1>5, <2>1, <2>2, <2>4, <2>5 DEF SendsToHealthy
<1>6. ASSUME NEW i \in Probeable(rows, chain),
             row' = [rows EXCEPT ![chain[i]] = r(i)],
             Sent(Advanced(op, i, claim(i)))
      PROVE  OthersKeep(s) /\ Probes(s, rows, op)
  <2>1. OthersKeep(s) /\ foreground'[s] = Advanced(op, i, claim(i))
    BY <1>1, <1>6
  <2>2. /\ i \in DOMAIN chain /\ ~rows[chain[i]].cooling
        /\ ~rows[chain[i]].live /\ rows[chain[i]].generation # 0
    BY DEF Probeable
  <2>3. rows[chain[i]].cooling = FALSE /\ rows[chain[i]].live = FALSE
    BY <1>2, <2>2, RowFlags, Zenon
  <2>4. Fits("probe", op.id)
    BY DEF Operations, Fits
  <2>5. GoodRow(r(i)) /\ r(i).token = minted'
    BY <1>2, <2>2, <2>4, ClaimedIsGood, RowFields DEF Minting
  <2>6. /\ claim(i) \in Claims /\ claim(i).token = minted'
        /\ claim(i).generation = rows[chain[i]].generation + 1
    BY <1>2, <2>2, <2>5, RowFields DEF Claims, GoodRow, Rows
  <2> HIDE DEF claim
  <2>7. /\ GoodOperation(foreground'[s])
        /\ Target(foreground'[s]) = chain[i]
        /\ foreground'[s].claim = claim(i)
        /\ foreground'[s].id = op.id
    BY <2>1, <2>2, <2>6, AdvancedOperation
  <2> QED
    BY <1>6, <2>1, <2>2, <2>3, <2>6, <2>7 DEF Probes
<1> QED
  BY <1>3, <1>4, <1>5, <1>6

-----------------------------------------------------------------------------
(* Every action moves rows and operations in these ways only.              *)
StepMoves == RowsMove /\ OperationsMove

(* A step that writes one row.                                             *)
LEMMA OneRowMoves ==
  ASSUME TypeOK, NEW c \in Candidates, NEW q, row' = [row EXCEPT ![c] = q],
         RowMove(c)
  PROVE  RowsMove /\ row'[c] = q
<1>1. row = [b \in Candidates |-> row[b]]
  BY TypedState
<1>2. row' = [b \in Candidates |-> row'[b]]
  BY <1>1
<1>3. \A b \in Candidates \ {c} : row'[b] = row[b]
  BY <1>1
<1>4. row'[c] = q
  BY <1>1
<1> QED
  BY <1>2, <1>3, <1>4 DEF RowsMove

(* A step that leaves the operations alone or ends one.                    *)
LEMMA OperationsKept ==
  ASSUME TypeOK
  PROVE  /\ foreground' = foreground => OperationsMove
         /\ \A s \in Sessions :
              foreground' = [foreground EXCEPT ![s] = None] => OperationsMove
  BY TypedState DEF OperationsMove, OperationMove

(* Selection starts from the rows as they are or after a renewal.          *)
StartsFrom(rows) ==
    \/ rows = row
    \/ \E d \in Candidates : rows = [row EXCEPT ![d] = Renewed(row[d])]

(* Selection moves rows and operations as StepMoves says.                  *)
LEMMA SelectionSteps ==
  ASSUME TypeOK, NEW s \in Sessions, NEW rows, NEW op \in Operations,
         NEW k \in Nat, Minting, SelectForeground(s, rows, op, k),
         StartsFrom(rows)
  PROVE  StepMoves
<1>1. /\ row = [c \in Candidates |-> row[c]]
      /\ \A c \in Candidates : GoodRow(row[c])
  BY TypedState
<1>2. /\ rows = [c \in Candidates |-> rows[c]]
      /\ \A c \in Candidates :
           rows[c] = row[c] \/ rows[c] = Renewed(row[c])
  BY <1>1 DEF StartsFrom
<1>3. \A c \in Candidates : GoodRow(rows[c])
  BY <1>1, <1>2, RenewedIsGood
<1>4. \A c \in Candidates : rows[c].cooling = FALSE => rows[c] = row[c]
  BY <1>1, <1>2, RowFields
<1>5. row' = rows => RowsMove
  BY <1>1 DEF StartsFrom, RowsMove, RowMove
<1>6. /\ OthersKeep(s)
      /\ Exhausts(s, rows) \/ SendsToHealthy(s, rows) \/ Probes(s, rows, op)
  BY <1>3, SelectionMoves
<1>7. CASE Exhausts(s, rows)
  BY <1>5, <1>6, <1>7
     DEF Exhausts, StepMoves, OperationsMove, OperationMove, OthersKeep
<1>8. CASE SendsToHealthy(s, rows)
  <2>1. Target(foreground'[s]) \in Candidates
    BY <1>8, Targets DEF SendsToHealthy
  <2>2. row[Target(foreground'[s])].cooling = FALSE
    BY <1>4, <1>8, <2>1 DEF SendsToHealthy
  <2> QED
    BY <1>5, <1>6, <1>8, <2>2 DEF SendsToHealthy, StepMoves, OperationsMove,
       OperationMove, OthersKeep
<1>9. CASE Probes(s, rows, op)
  <2> DEFINE c == Target(foreground'[s])
  <2>1. c \in Candidates
    BY <1>9, Targets DEF Probes
  <2>2. /\ row' = [rows EXCEPT ![c] =
                      Claimed(rows[c], "probe", op.id, minted')]
        /\ GoodOperation(foreground'[s])
        /\ foreground'[s].claim.token = minted'
        /\ rows[c].cooling = FALSE /\ rows[c].live = FALSE
        /\ foreground'[s].claim.generation = rows[c].generation + 1
        /\ foreground'[s].id = op.id
    BY <1>9 DEF Probes
  <2> HIDE DEF c
  <2>3. rows[c] = row[c]
    BY <1>4, <2>1, <2>2
  <2>4. row'[c] = Claimed(row[c], "probe", op.id, minted')
    BY <1>2, <2>1, <2>2, <2>3
  <2>5. Fits("probe", op.id)
    BY DEF Operations, Fits
  <2>6. RowMove(c)
    BY <2>2, <2>3, <2>4, <2>5 DEF RowMove
  <2>7. \A b \in Candidates \ {c} :
            row'[b] = row[b] \/ row'[b] = Renewed(row[b])
    BY <1>2, <2>1, <2>2
  <2>8. row' = [b \in Candidates |-> row'[b]]
    BY <1>2, <2>2
  <2>9. RowsMove
    BY <2>1, <2>6, <2>7, <2>8 DEF RowsMove
  <2>10. /\ Matches(row'[c], foreground'[s].claim.generation, "probe",
                     foreground'[s].id, minted')
         /\ row[c].cooling = FALSE
    BY <1>1, <2>1, <2>2, <2>3, <2>4, RowFields DEF Matches
  <2>11. OperationMove(s)
    BY <2>2, <2>10 DEF OperationMove, c
  <2>12. OperationsMove
    BY <1>6, <2>11 DEF OthersKeep, OperationsMove, OperationMove
  <2> QED
    BY <2>9, <2>12 DEF StepMoves
<1> QED
  BY <1>6, <1>7, <1>8, <1>9

(* A step that mints hands out an identifier nobody has.                   *)
LEMMA Minted == ASSUME TypeOK, Mint PROVE Minting
  BY HealthAssumption DEF TypeOK, Mint, Minting, Ids

(* Beginning an operation does, with a reservation and without.            *)
LEMMA BeginMoves ==
  ASSUME TypeOK, NEW s \in Sessions, NEW o \in Options,
         Begin(s, o)
  PROVE  StepMoves
<1>1. Minting
  BY Minted DEF Begin
<1>2. /\ NewOperation(o) \in Operations /\ NewOperation(o).cursor = 1
      /\ NewOperation(o).option = o /\ NewOperation(o).id = minted'
  BY <1>1, BegunOperation
<1>3. CASE BeginUnreserved(s, o)
  BY <1>1, <1>2, <1>3, SelectionSteps DEF BeginUnreserved, StartsFrom
<1>4. CASE BeginReserved(s, o)
  <2> DEFINE c == o.chain[1]
             r == Transferred(row[c], minted', minted')
             claim == [generation |-> r.generation, token |-> r.token]
  <2>1. c \in Candidates /\ GoodRow(row[c])
    BY Chains, TypedState
  <2>2. /\ row[c].kind = "reservation" /\ row[c].owner = s
        /\ row' = [row EXCEPT ![c] = r]
        /\ foreground' = [foreground EXCEPT
              ![s] = Advanced(NewOperation(o), 1, claim)]
    BY <1>4 DEF BeginReserved, Transferable, HoldsReservation, Matches
  <2>3. RowsMove /\ row'[c] = r
    BY <1>1, <2>1, <2>2, OneRowMoves, TypedState DEF RowMove
  <2>4. /\ GoodRow(r) /\ r.token = minted' /\ r.kind = "probe"
        /\ r.live = TRUE /\ r.owner = minted'
    BY <1>1, <2>1, <2>2, TransferredIsGood, RowFields DEF Minting
  <2>5. /\ claim \in Claims /\ claim.token = minted'
        /\ claim.generation = r.generation
    BY <2>4 DEF Claims, GoodRow, Rows
  <2>6. 1 \in DOMAIN o.chain
    BY Chains, TypedState
  <2> HIDE DEF r, claim
  <2>7. /\ foreground'[s] = Advanced(NewOperation(o), 1, claim)
        /\ foreground' = [t \in Sessions |-> foreground'[t]]
        /\ \A t \in Sessions \ {s} : foreground'[t] = foreground[t]
    BY <2>2, TypedState
  <2>8. /\ GoodOperation(foreground'[s])
        /\ Target(foreground'[s]) = c
        /\ foreground'[s].claim = claim /\ foreground'[s].id = minted'
    BY <1>2, <2>5, <2>6, <2>7, AdvancedOperation
  <2>9. OperationMove(s)
    BY <1>1, <2>2, <2>3, <2>4, <2>5, <2>8 DEF OperationMove, Matches
  <2>10. OperationsMove
    BY <2>7, <2>9 DEF OperationsMove, OperationMove
  <2> QED
    BY <2>3, <2>10 DEF StepMoves
<1> QED
  BY <1>3, <1>4 DEF Begin

(* So does the quota result of an operation.                               *)
LEMMA ForegroundQuotaMoves ==
  ASSUME TypeOK, NEW s \in Sessions, ForegroundQuota(s) PROVE StepMoves
<1> DEFINE op == foreground[s]
           renews == op.claim = NoClaim \/ HoldsProbe(op)
           rows == IF renews
                   THEN [row EXCEPT ![Target(op)] = Renewed(@)] ELSE row
<1>1. Minting
  BY Minted DEF ForegroundQuota
<1>2. /\ op # None /\ SelectForeground(s, rows, op, op.cursor + 1)
  BY DEF ForegroundQuota
<1>3. GoodOperation(op) /\ Target(op) \in Candidates
  BY <1>2, TypedState, Targets
<1>4. op \in Operations /\ op.cursor + 1 \in Nat
  BY <1>3 DEF GoodOperation, Operations
<1>5. StartsFrom(rows)
  <2>1. row = [c \in Candidates |-> row[c]]
    BY TypedState
  <2>2. [row EXCEPT ![Target(op)] = Renewed(@)]
           = [row EXCEPT ![Target(op)] = Renewed(row[Target(op)])]
    BY <1>3, <2>1
  <2> QED
    BY <1>3, <2>2 DEF StartsFrom
<1> HIDE DEF rows, op
<1> QED
  BY <1>1, <1>2, <1>4, <1>5, SelectionSteps

(* So do compactions and the ends of an operation.                         *)
LEMMA OtherMoves ==
  ASSUME TypeOK, NEW s \in Sessions
  PROVE  /\ PrepareCompaction(s) => StepMoves
         /\ CompactionQuota(s) => StepMoves
         /\ ForegroundSucceeds(s) => StepMoves
         /\ CompactionSucceeds(s) => StepMoves
         /\ RunEnds(s) => StepMoves
<1>1. row' = row => RowsMove
  BY DEF RowsMove
<1>2. PrepareCompaction(s) => StepMoves
  BY <1>1, OperationsKept DEF PrepareCompaction, StepMoves
<1>3. ASSUME CompactionQuota(s) PROVE StepMoves
  <2> DEFINE c == Lightweight[compaction[s]]
  <2>1. c \in Candidates
    BY <1>3, HealthAssumption DEF CompactionQuota, TypeOK
  <2>2. row' = [row EXCEPT ![c] = Renewed(row[c])]
    BY <1>3, <2>1, TypedState DEF CompactionQuota
  <2> HIDE DEF c
  <2>3. row'[c] = Renewed(row[c])
    BY <2>1, <2>2, TypedState
  <2>4. RowsMove
    BY <2>1, <2>2, <2>3, OneRowMoves DEF RowMove
  <2> QED
    BY <1>3, <2>4, OperationsKept DEF CompactionQuota, StepMoves
<1>4. ASSUME ForegroundSucceeds(s) PROVE StepMoves
  <2> DEFINE c == Target(foreground[s])
  <2>1. c \in Candidates
    BY <1>4, TypedState, Targets DEF ForegroundSucceeds
  <2>2. row' = [row EXCEPT ![c] = Healthy] \/ row' = row
    BY <1>4 DEF ForegroundSucceeds
  <2> HIDE DEF c
  <2>3. row' = [row EXCEPT ![c] = Healthy] => row'[c] = Healthy
    BY <2>1, TypedState
  <2>4. RowsMove
    BY <1>1, <2>1, <2>2, <2>3, OneRowMoves DEF RowMove
  <2> QED
    BY <1>4, <2>4, OperationsKept DEF ForegroundSucceeds, StepMoves
<1>5. CompactionSucceeds(s) => StepMoves
  BY <1>1, OperationsKept DEF CompactionSucceeds, StepMoves
<1>6. RunEnds(s) => StepMoves
  BY <1>1, OperationsKept DEF RunEnds, StepMoves
<1> QED
  BY <1>2, <1>3, <1>4, <1>5, <1>6

(* A release writes only a row that the Session reserved.                  *)
LEMMA ReleaseMoves ==
  ASSUME TypeOK, NEW s \in Sessions, NEW c \in Candidates, ReleaseAt(s, c)
  PROVE  RowsMove
<1>1. CASE HoldsReservation(s, c)
  <2>1. /\ row' = [row EXCEPT ![c] = Released(row[c])]
        /\ row[c].kind = "reservation"
    BY <1>1, TypedState DEF ReleaseAt, HoldsReservation, Matches
  <2>2. row'[c] = Released(row[c])
    BY <2>1, TypedState
  <2> QED
    BY <2>1, <2>2, OneRowMoves DEF RowMove
<1>2. CASE ~HoldsReservation(s, c)
  BY <1>2 DEF ReleaseAt, RowsMove
<1> QED
  BY <1>1, <1>2

(* So do the requests of users.                                            *)
LEMMA UserMoves ==
  ASSUME TypeOK, NEW s \in Sessions
  PROVE  /\ Reserve(s) => StepMoves /\ Minting
         /\ Cancel(s) => StepMoves
         /\ ChangeOption(s) => StepMoves
         /\ Archive(s) => StepMoves
<1>1. ASSUME Reserve(s) PROVE StepMoves /\ Minting
  <2> DEFINE c == Primary(s)
             r == Claimed(row[c], "reservation", s, minted')
  <2>1. c \in Candidates /\ GoodRow(row[c])
    BY Targets, TypedState
  <2>2. Minting
    BY <1>1, Minted DEF Reserve
  <2>3. ~row[c].live /\ row' = [row EXCEPT ![c] = r]
    BY <1>1 DEF Reserve, Reservable
  <2>4. row[c].live = FALSE
    BY <2>1, <2>3, RowFlags, Zenon
  <2>5. row'[c] = r
    BY <2>1, <2>3, TypedState
  <2>6. Fits("reservation", s)
    BY DEF Fits
  <2>7. RowMove(c)
    BY <2>2, <2>4, <2>5, <2>6 DEF RowMove
  <2>8. RowsMove
    BY <2>1, <2>3, <2>7, OneRowMoves
  <2> QED
    BY <1>1, <2>2, <2>8, OperationsKept DEF Reserve, operations, StepMoves
<1>2. ASSUME Cancel(s) PROVE StepMoves
  BY <1>2, ReleaseMoves, Targets, OperationsKept
     DEF Cancel, operations, StepMoves
<1>3. ChangeOption(s) => StepMoves
  BY OperationsKept DEF ChangeOption, operations, StepMoves, RowsMove
<1>4. ASSUME Archive(s) PROVE StepMoves
  <2>1. CASE reservation[s] = None
    BY <1>4, <2>1, OperationsKept
       DEF Archive, operations, StepMoves, RowsMove
  <2>2. CASE reservation[s] # None
    <3>1. reservation[s].candidate \in Candidates
      BY <2>2 DEF TypeOK, Reservations
    <3> QED
      BY <1>4, <2>2, <3>1, ReleaseMoves, OperationsKept
         DEF Archive, operations, StepMoves
  <2> QED
    BY <2>1, <2>2
<1> QED
  BY <1>1, <1>2, <1>3, <1>4

(* So does time.                                                           *)
LEMMA TimeMoves ==
  ASSUME TypeOK, NEW c \in Candidates
  PROVE  /\ CooldownEnds(c) => StepMoves
         /\ ClaimExpires(c) => StepMoves
<1>1. GoodRow(row[c]) /\ row = [b \in Candidates |-> row[b]]
  BY TypedState
<1>2. row[c].cooling \in BOOLEAN /\ row[c].live \in BOOLEAN
  BY <1>1, RowFlags
<1>3. ASSUME CooldownEnds(c) PROVE StepMoves
  <2> DEFINE q == [row[c] EXCEPT !.cooling = FALSE]
  <2>1. row[c].cooling = TRUE
    BY <1>2, <1>3, Zenon DEF CooldownEnds
  <2>2. row' = [row EXCEPT ![c] = q]
    BY <1>1, <1>3 DEF CooldownEnds
  <2>3. row'[c] = q
    BY <1>1, <2>2
  <2>4. RowMove(c)
    BY <2>1, <2>3 DEF RowMove
  <2>5. RowsMove
    BY <2>2, <2>4, OneRowMoves
  <2> QED
    BY <1>3, <2>5, OperationsKept DEF CooldownEnds, operations, StepMoves
<1>4. ASSUME ClaimExpires(c) PROVE StepMoves
  <2> DEFINE q == [row[c] EXCEPT !.live = FALSE]
  <2>1. row[c].cooling = FALSE /\ row[c].live = TRUE
    BY <1>2, <1>4, Zenon DEF ClaimExpires
  <2>2. row' = [row EXCEPT ![c] = q]
    BY <1>1, <1>4 DEF ClaimExpires
  <2>3. row'[c] = q
    BY <1>1, <2>2
  <2>4. RowMove(c)
    BY <2>1, <2>3 DEF RowMove
  <2>5. RowsMove
    BY <2>2, <2>4, OneRowMoves
  <2> QED
    BY <1>4, <2>5, OperationsKept DEF ClaimExpires, operations, StepMoves
<1> QED
  BY <1>3, <1>4

(* The summary that the invariants are proved from.                        *)
LEMMA NextMoves == ASSUME TypeOK, [Next]_vars PROVE StepMoves
<1>1. CASE UNCHANGED vars
  BY <1>1, OperationsKept DEF vars, operations, StepMoves, RowsMove
<1>2. CASE Next
  BY <1>2, BeginMoves, ForegroundQuotaMoves, OtherMoves, UserMoves, TimeMoves
     DEF Next
<1> QED
  BY <1>1, <1>2

(* Every step keeps the history variables as Remember says.                *)
LEMMA Remembers ==
  [Next]_vars => Remember \/ (UNCHANGED vars)
  BY DEF Next, Begin, PrepareCompaction, ForegroundQuota, CompactionQuota,
     ForegroundSucceeds, CompactionSucceeds, RunEnds, Reserve, Cancel,
     ChangeOption, Archive, CooldownEnds, ClaimExpires

-----------------------------------------------------------------------------
(* Type correctness.                                                       *)
LEMMA InitIsTyped == Init => TypeOK
<1> SUFFICES ASSUME Init PROVE TypeOK
  OBVIOUS
<1>1. /\ row \in [Candidates -> Rows]
      /\ \A c \in Candidates : Complete(row[c])
  BY HealthyIsGood DEF Init, GoodRow
<1>2. 0 \in 0..MaxMinted
  BY Identifiers
<1> QED
  BY <1>1, <1>2 DEF Init, TypeOK

(* Every way of treating a row keeps it well-formed.                       *)
LEMMA RowMovesAreGood ==
  ASSUME TypeOK, StepMoves, NEW c \in Candidates PROVE GoodRow(row'[c])
<1>1. GoodRow(row[c])
  BY TypedState
<1>2. RowMove(c)
  BY DEF StepMoves, RowsMove, RowMove
<1>3. row[c].cooling = TRUE => GoodRow([row[c] EXCEPT !.cooling = FALSE])
  BY <1>1, CooledIsGood
<1>4. row[c].live = TRUE => GoodRow([row[c] EXCEPT !.live = FALSE])
  BY <1>1, LapsedIsGood
<1> QED
  BY <1>1, <1>2, <1>3, <1>4, HealthyIsGood, RenewedIsGood, ClaimedIsGood,
     TransferredIsGood, ReleasedIsGood DEF RowMove, Minting

(* The rows keep their type.                                               *)
LEMMA RowsStayTyped ==
  ASSUME TypeOK, StepMoves
  PROVE  /\ row' \in [Candidates -> Rows]
         /\ \A c \in Candidates : Complete(row'[c])
<1>1. row' = [c \in Candidates |-> row'[c]]
  BY TypedState DEF StepMoves, RowsMove
<1>2. \A c \in Candidates : GoodRow(row'[c])
  BY RowMovesAreGood
<1> QED
  BY <1>1, <1>2 DEF GoodRow

(* The operations keep theirs.                                             *)
LEMMA OperationsStayTyped ==
  ASSUME TypeOK, StepMoves
  PROVE  /\ foreground' \in [Sessions -> {None} \cup Operations]
         /\ \A s \in Sessions : foreground'[s] # None =>
              foreground'[s].cursor \in DOMAIN foreground'[s].option.chain
<1>1. foreground' = [s \in Sessions |-> foreground'[s]]
  BY DEF StepMoves, OperationsMove
<1>2. \A s \in Sessions :
         foreground'[s] = None \/ GoodOperation(foreground'[s])
  BY TypedState DEF StepMoves, OperationsMove, OperationMove
<1> QED
  BY <1>1, <1>2 DEF GoodOperation

(* Selection leaves a background operation at a place of its chain.        *)
LEMMA CompactionStaysTyped ==
  ASSUME TypeOK, [Next]_vars
  PROVE  compaction' \in [Sessions -> {0} \cup DOMAIN Lightweight]
<1>1. ASSUME NEW s \in Sessions, NEW rows, NEW k,
             SelectCompaction(s, rows, k)
      PROVE  compaction' \in [Sessions -> {0} \cup DOMAIN Lightweight]
  BY <1>1 DEF SelectCompaction, TypeOK
<1>2. \A s \in Sessions : EnsureCompaction(s) =>
         compaction' \in [Sessions -> {0} \cup DOMAIN Lightweight]
  BY <1>1 DEF EnsureCompaction, TypeOK
<1>3. ASSUME NEW s \in Sessions, NEW o \in Options, Begin(s, o)
      PROVE  compaction' \in [Sessions -> {0} \cup DOMAIN Lightweight]
  BY <1>2, <1>3 DEF Begin, BeginReserved, BeginUnreserved, TypeOK
<1>4. ASSUME NEW s \in Sessions, PrepareCompaction(s) \/ CompactionQuota(s)
      PROVE  compaction' \in [Sessions -> {0} \cup DOMAIN Lightweight]
  BY <1>1, <1>4 DEF PrepareCompaction, CompactionQuota
<1>5. ASSUME NEW s \in Sessions,
             \/ ForegroundSucceeds(s) \/ CompactionSucceeds(s) \/ RunEnds(s)
      PROVE  compaction' \in [Sessions -> {0} \cup DOMAIN Lightweight]
  BY <1>5 DEF ForegroundSucceeds, CompactionSucceeds, RunEnds, TypeOK
<1>6. ASSUME UNCHANGED compaction
      PROVE  compaction' \in [Sessions -> {0} \cup DOMAIN Lightweight]
  BY <1>6 DEF TypeOK
<1>7. \/ \E s \in Sessions :
           \/ \E o \in Options : Begin(s, o)
           \/ PrepareCompaction(s) \/ CompactionQuota(s)
           \/ ForegroundSucceeds(s) \/ CompactionSucceeds(s) \/ RunEnds(s)
      \/ UNCHANGED compaction
  BY DEF Next, vars, operations, ForegroundQuota, Reserve, Cancel,
     ChangeOption, Archive, CooldownEnds, ClaimExpires
<1> QED
  BY <1>3, <1>4, <1>5, <1>6, <1>7

(* A reservation names the Primary of its label and a claim.               *)
LEMMA ReservationsStayTyped ==
  ASSUME TypeOK, [Next]_vars
  PROVE  reservation' \in [Sessions -> {None} \cup Reservations]
<1>1. ASSUME NEW s \in Sessions, Reserve(s)
      PROVE  reservation' \in [Sessions -> {None} \cup Reservations]
  <2> DEFINE c == Primary(s)
             r == Claimed(row[c], "reservation", s, minted')
             v == [label |-> option[s].label, candidate |-> c,
                   generation |-> r.generation, token |-> r.token]
  <2>1. c \in Candidates /\ GoodRow(row[c])
    BY Targets, TypedState
  <2>2. minted' \in Ids /\ Fits("reservation", s)
    BY <1>1, UserMoves DEF Minting, Fits
  <2>3. GoodRow(r) /\ r.token = minted'
    BY <2>1, <2>2, ClaimedIsGood, RowFields
  <2>4. r.generation \in Nat /\ r.token \in Ids
    BY <2>2, <2>3 DEF GoodRow, Rows
  <2>5. option[s].label \in Labels
    BY TypedState DEF Labels
  <2> HIDE DEF c, r
  <2>6. v \in Reservations
    BY <2>1, <2>4, <2>5 DEF Reservations
  <2>7. reservation' = [reservation EXCEPT ![s] = v]
    BY <1>1 DEF Reserve, c, r
  <2> QED
    BY <2>6, <2>7 DEF TypeOK
<1>2. ASSUME NEW s \in Sessions,
             \/ \E o \in Options : Begin(s, o)
             \/ Cancel(s) \/ Archive(s)
      PROVE  reservation' \in [Sessions -> {None} \cup Reservations]
  <2>1. \/ UNCHANGED reservation
        \/ reservation' = [reservation EXCEPT ![s] = None]
        \/ reservation' = [reservation EXCEPT ![s] =
                             IF compaction'[s] = 0 THEN @ ELSE None]
    BY <1>2 DEF Begin, BeginReserved, BeginUnreserved, Cancel, Archive
  <2> QED
    BY <2>1 DEF TypeOK
<1>3. ASSUME UNCHANGED reservation
      PROVE  reservation' \in [Sessions -> {None} \cup Reservations]
  BY <1>3 DEF TypeOK
<1>4. \/ \E s \in Sessions :
           \/ \E o \in Options : Begin(s, o)
           \/ Reserve(s) \/ Cancel(s) \/ Archive(s)
      \/ UNCHANGED reservation
  BY DEF Next, vars, PrepareCompaction, ForegroundQuota, CompactionQuota,
     ForegroundSucceeds, CompactionSucceeds, RunEnds, ChangeOption,
     CooldownEnds, ClaimExpires
<1> QED
  BY <1>1, <1>2, <1>3, <1>4

(* Labels, archived Sessions and the identifiers keep theirs.              *)
LEMMA OthersStayTyped ==
  ASSUME TypeOK, [Next]_vars
  PROVE  /\ option' \in [Sessions -> Options]
         /\ archived' \subseteq Sessions
         /\ minted' \in 0..MaxMinted
         /\ minted' = minted \/ minted' = minted + 1
<1>1. option' \in [Sessions -> Options]
  <2>1. \/ \E s \in Sessions, o \in Options :
              option' = [option EXCEPT ![s] = o]
        \/ UNCHANGED option
    BY DEF Next, vars, Begin, PrepareCompaction, ForegroundQuota,
       CompactionQuota, ForegroundSucceeds, CompactionSucceeds, RunEnds,
       Reserve, Cancel, ChangeOption, Archive, CooldownEnds, ClaimExpires
  <2> QED
    BY <2>1 DEF TypeOK
<1>2. archived' \subseteq Sessions
  <2>1. \/ \E s \in Sessions : Archive(s)
        \/ UNCHANGED archived
    BY DEF Next, vars, Begin, PrepareCompaction, ForegroundQuota,
       CompactionQuota, ForegroundSucceeds, CompactionSucceeds, RunEnds,
       Reserve, Cancel, ChangeOption, CooldownEnds, ClaimExpires
  <2> QED
    BY <2>1 DEF Archive, TypeOK
<1>3. /\ minted' \in 0..MaxMinted
      /\ minted' = minted \/ minted' = minted + 1
  <2>1. Mint \/ UNCHANGED minted
    BY DEF Next, vars, Begin, PrepareCompaction, ForegroundQuota,
       CompactionQuota, ForegroundSucceeds, CompactionSucceeds, RunEnds,
       Reserve, Cancel, ChangeOption, Archive, CooldownEnds, ClaimExpires
  <2> QED
    BY <2>1, HealthAssumption DEF Mint, TypeOK
<1> QED
  BY <1>1, <1>2, <1>3

(* The history keeps its type.                                             *)
LEMMA HistoryStaysTyped ==
  ASSUME TypeOK, [Next]_vars
  PROVE  superseded' \subseteq 0..MaxMinted /\ bypassed' \subseteq Candidates
<1>1. CASE UNCHANGED vars
  BY <1>1 DEF vars, history, TypeOK
<1>2. CASE Remember
  <2>1. \A s \in Sessions : foreground[s] # None =>
            foreground[s].claim.token \in 0..MaxMinted
    BY TypedState DEF GoodOperation, Operations, Claims
  <2>2. superseded' \subseteq 0..MaxMinted
    BY <1>2, <2>1 DEF Remember, TypeOK
  <2> QED
    BY <1>2, <2>2 DEF Remember
<1> QED
  BY <1>1, <1>2, Remembers

(* TypeOK is inductive.                                                    *)
LEMMA TypeStep == TypeOK /\ [Next]_vars => TypeOK'
<1> SUFFICES ASSUME TypeOK, [Next]_vars PROVE TypeOK'
  OBVIOUS
<1>1. StepMoves
  BY NextMoves
<1> QED
  BY <1>1, RowsStayTyped, OperationsStayTyped, CompactionStaysTyped,
     ReservationsStayTyped, OthersStayTyped, HistoryStaysTyped DEF TypeOK

(* Every variable keeps its type and every health row the constraints of   *)
(* its table, for any Sessions, candidates and chains.                     *)
THEOREM TypeCorrect == Spec => []TypeOK
<1>1. Init => TypeOK
  BY InitIsTyped
<1>2. TypeOK /\ [Next]_vars => TypeOK'
  BY TypeStep
<1> QED
  BY <1>1, <1>2, PTL DEF Spec

-----------------------------------------------------------------------------
(* What the history proves.  A token names one claim, on one candidate; a  *)
(* superseded one is on no row any more, so that a generation that comes   *)
(* back cannot revive it.                                                  *)
TokensAreDistinct ==
    /\ \A c \in Candidates : row[c].token <= minted
    /\ \A s \in Sessions : foreground[s] # None =>
         \/ foreground[s].claim = NoClaim
         \/ foreground[s].claim.token \in 1..minted
    /\ \A s \in Sessions, c \in Candidates :
         /\ foreground[s] # None /\ row[c].token # 0
         /\ row[c].token = foreground[s].claim.token
         => c = Target(foreground[s])

SupersededIsGone ==
    /\ superseded \subseteq 1..minted
    /\ \A c \in Candidates : row[c].token \notin superseded

(* A candidate that an operation was sent to while it cooled is probed.    *)
BypassedIsProbed ==
    \A c \in bypassed : /\ row[c].cooling = TRUE /\ row[c].kind = "probe"
                        /\ row[c].live = TRUE

HistoryInv == TokensAreDistinct /\ SupersededIsGone /\ BypassedIsProbed

(* At first there are no tokens.                                           *)
LEMMA InitHistory == Init => HistoryInv
<1> SUFFICES ASSUME Init PROVE HistoryInv
  OBVIOUS
<1>1. \A c \in Candidates : row[c].token = 0
  BY DEF Init, Healthy
<1> QED
  BY <1>1 DEF Init, HistoryInv, TokensAreDistinct, SupersededIsGone,
     BypassedIsProbed

(* A step leaves a token where it is, erases it or puts a fresh one in its *)
(* place.                                                                  *)
LEMMA TokenMoves ==
  ASSUME TypeOK, StepMoves
  PROVE  \A c \in Candidates :
            \/ row'[c].token = 0
            \/ Minting /\ row'[c].token = minted'
            \/ /\ row'[c].token = row[c].token
               /\ row'[c].generation = row[c].generation
               /\ row'[c].kind = row[c].kind /\ row'[c].owner = row[c].owner
<1> TAKE c \in Candidates
<1>1. GoodRow(row[c]) /\ RowMove(c)
  BY TypedState DEF StepMoves, RowsMove, RowMove
<1>2. row[c].cooling = TRUE =>
         /\ [row[c] EXCEPT !.cooling = FALSE].token = row[c].token
         /\ [row[c] EXCEPT !.cooling = FALSE].generation = row[c].generation
         /\ [row[c] EXCEPT !.cooling = FALSE].kind = row[c].kind
         /\ [row[c] EXCEPT !.cooling = FALSE].owner = row[c].owner
  BY <1>1, CooledIsGood
<1>3. row[c].live = TRUE =>
         /\ [row[c] EXCEPT !.live = FALSE].token = row[c].token
         /\ [row[c] EXCEPT !.live = FALSE].generation = row[c].generation
         /\ [row[c] EXCEPT !.live = FALSE].kind = row[c].kind
         /\ [row[c] EXCEPT !.live = FALSE].owner = row[c].owner
  BY <1>1, LapsedIsGood
<1>4. Healthy.token = 0
  BY DEF Healthy
<1>5. \A kind, owner, token :
         Claimed(row[c], kind, owner, token).token = token
  BY <1>1, RowFields
<1>6. \A operation, token :
         Transferred(row[c], operation, token).token = token
  BY <1>1, RowFields
<1>7. /\ Released(row[c]).token = 0 /\ Renewed(row[c]).token = 0
  BY <1>1, RowFields
<1>8. CASE Minting /\ \E kind, owner :
              row'[c] = Claimed(row[c], kind, owner, minted')
  BY <1>5, <1>8
<1>9. CASE Minting /\ row'[c] = Transferred(row[c], minted', minted')
  BY <1>6, <1>9
<1>10. CASE \/ row'[c] = row[c] \/ row'[c] = Healthy
            \/ row'[c] = Renewed(row[c]) \/ row'[c] = Released(row[c])
  BY <1>4, <1>7, <1>10
<1>11. CASE \/ /\ row[c].cooling = TRUE
               /\ row'[c] = [row[c] EXCEPT !.cooling = FALSE]
            \/ /\ row[c].live = TRUE
               /\ row'[c] = [row[c] EXCEPT !.live = FALSE]
  BY <1>2, <1>3, <1>11
<1> QED
  BY <1>1, <1>8, <1>9, <1>10, <1>11 DEF RowMove

(* A step puts its fresh token on one row.                                 *)
LEMMA FreshTokenIsPutOnce ==
  ASSUME TypeOK, StepMoves, TokensAreDistinct, Minting,
         NEW c \in Candidates, NEW d \in Candidates,
         row'[c].token = minted', row'[d].token = minted'
  PROVE  c = d
<1>1. \A b \in Candidates : row[b].token # minted' /\ GoodRow(row[b])
  BY TypedState DEF Minting, TokensAreDistinct, TypeOK, Rows
<1>2. \A b \in Candidates : Renewed(row[b]).token # minted'
  BY <1>1, RowFields DEF Minting, Ids
<1> QED
  BY <1>1, <1>2 DEF StepMoves, RowsMove

(* A token goes on naming one claim.                                       *)
LEMMA TokensStayDistinct ==
  ASSUME TypeOK, StepMoves, TokensAreDistinct,
         minted' = minted \/ minted' = minted + 1
  PROVE  TokensAreDistinct'
<1>1. minted \in Nat /\ minted' \in Nat /\ minted <= minted'
  BY HealthAssumption DEF TypeOK
<1>2. \A c \in Candidates : row[c].token \in Nat
  BY DEF TypeOK, Rows
<1>3. \A c \in Candidates : row'[c].token <= minted'
  BY <1>1, <1>2, TokenMoves DEF TokensAreDistinct
<1>4. ASSUME NEW s \in Sessions, foreground'[s] # None
      PROVE  \/ foreground'[s].claim = NoClaim
             \/ foreground'[s].claim.token \in 1..minted'
  <2>1. CASE foreground'[s] = foreground[s]
    BY <1>1, <1>4, <2>1 DEF TokensAreDistinct
  <2>2. CASE Minting /\ foreground'[s].claim.token = minted'
    BY <1>1, <2>2 DEF Minting, Ids
  <2> QED
    BY <1>4, <2>1, <2>2 DEF StepMoves, OperationsMove, OperationMove
<1>5. ASSUME NEW s \in Sessions, NEW c \in Candidates,
             foreground'[s] # None, row'[c].token # 0,
             row'[c].token = foreground'[s].claim.token
      PROVE  c = Target(foreground'[s])
  <2>1. CASE foreground'[s] = foreground[s]
    <3>1. foreground[s].claim.token \in 1..minted
      BY <1>5, <2>1 DEF TokensAreDistinct, NoClaim
    <3>2. row'[c].token = row[c].token
      BY <1>1, <1>5, <2>1, <3>1, TokenMoves DEF Minting
    <3> QED
      BY <1>5, <2>1, <3>2 DEF TokensAreDistinct
  <2>2. CASE foreground'[s].claim = NoClaim
    BY <1>5, <2>2 DEF NoClaim
  <2>3. CASE /\ Minting /\ foreground'[s].claim.token = minted'
             /\ GoodOperation(foreground'[s])
             /\ row'[Target(foreground'[s])].token = minted'
    BY <1>5, <2>3, Targets, FreshTokenIsPutOnce
  <2> QED
    BY <1>5, <2>1, <2>2, <2>3
       DEF StepMoves, OperationsMove, OperationMove, Matches
<1> QED
  BY <1>3, <1>4, <1>5 DEF TokensAreDistinct

(* No step brings a superseded token back.                                 *)
LEMMA SupersededStaysGone ==
  ASSUME TypeOK, StepMoves, TokensAreDistinct, SupersededIsGone,
         minted' = minted \/ minted' = minted + 1,
         Remember \/ UNCHANGED vars
  PROVE  SupersededIsGone'
<1>1. CASE UNCHANGED vars
  BY <1>1 DEF vars, history, SupersededIsGone
<1>2. CASE Remember
  <2>1. minted \in Nat
    BY HealthAssumption DEF TypeOK
  <2>2. ASSUME NEW t \in superseded'
        PROVE  \/ t \in superseded
               \/ \E s \in Sessions :
                    /\ foreground[s] # None /\ t = foreground[s].claim.token
                    /\ foreground[s].claim # NoClaim
                    /\ row'[Target(foreground[s])].generation
                          # row[Target(foreground[s])].generation
    BY <1>2, <2>2 DEF Remember
  <2>3. superseded' \subseteq 1..minted
    BY <2>2 DEF SupersededIsGone, TokensAreDistinct
  <2>4. superseded' \subseteq 1..minted'
    BY <2>1, <2>3
  <2>5. ASSUME NEW c \in Candidates PROVE row'[c].token \notin superseded'
    <3>1. CASE row'[c].token = 0
      BY <2>3, <3>1
    <3>2. CASE Minting /\ row'[c].token = minted'
      BY <2>1, <2>3, <3>2 DEF Minting
    <3>3. CASE /\ row'[c].token = row[c].token /\ row[c].token # 0
               /\ row'[c].generation = row[c].generation
      BY <2>2, <3>3 DEF SupersededIsGone, TokensAreDistinct
    <3> QED
      BY <3>1, <3>2, <3>3, TokenMoves
  <2> QED
    BY <2>4, <2>5 DEF SupersededIsGone
<1> QED
  BY <1>1, <1>2

(* A cooling candidate that is being probed can only be renewed, recover   *)
(* or cool off.                                                            *)
LEMMA ProbedMoves ==
  ASSUME TypeOK, StepMoves, NEW c \in Candidates,
         row[c].cooling = TRUE, row[c].kind = "probe", row[c].live = TRUE
  PROVE  \/ row'[c] = row[c]
         \/ row'[c].cooling = FALSE
         \/ /\ row'[c].generation # row[c].generation
            /\ row'[c].kind = "none"
<1>1. GoodRow(row[c]) /\ RowMove(c)
  BY TypedState DEF StepMoves, RowsMove, RowMove
<1>2. Healthy.cooling = FALSE
  BY DEF Healthy
<1>3. [row[c] EXCEPT !.cooling = FALSE].cooling = FALSE
  BY <1>1, CooledIsGood
<1>4. row[c].generation \in Nat
  BY <1>1 DEF GoodRow, Rows
<1>5. /\ Renewed(row[c]).generation = row[c].generation + 1
      /\ Renewed(row[c]).kind = "none"
  BY <1>1, RowFields
<1>6. \/ row'[c] = row[c] \/ row'[c] = Healthy \/ row'[c] = Renewed(row[c])
      \/ row'[c] = [row[c] EXCEPT !.cooling = FALSE]
  BY <1>1 DEF RowMove
<1>7. CASE row'[c] = Renewed(row[c])
  BY <1>4, <1>5, <1>7
<1>8. CASE row'[c] = Healthy
  BY <1>2, <1>8
<1>9. CASE row'[c] = [row[c] EXCEPT !.cooling = FALSE]
  BY <1>3, <1>9
<1> QED
  BY <1>6, <1>7, <1>8, <1>9

(* To a cooling candidate an operation is sent for a reservation only.     *)
LEMMA CoolingDispatch ==
  ASSUME TypeOK, StepMoves, NEW s \in Sessions, NEW c \in Candidates,
         row[c].cooling, Dispatched(s, c)
  PROVE  /\ row[c].kind = "reservation" /\ row[c].owner = s
         /\ row'[c].kind = "probe" /\ row'[c].live = TRUE
<1>1. row[c].cooling # FALSE
  OBVIOUS
<1>2. OperationMove(s)
  BY DEF StepMoves, OperationsMove
<1> QED
  BY <1>1, <1>2 DEF OperationMove, Dispatched

(* A bypassed candidate is probed until its cooldown is over.              *)
LEMMA BypassedStaysProbed ==
  ASSUME TypeOK, StepMoves, BypassedIsProbed, Remember \/ UNCHANGED vars
  PROVE  BypassedIsProbed'
<1>1. CASE UNCHANGED vars
  BY <1>1 DEF vars, history, BypassedIsProbed
<1>2. CASE Remember
  <2> SUFFICES ASSUME NEW c \in bypassed'
               PROVE  /\ row'[c].cooling = TRUE /\ row'[c].kind = "probe"
                      /\ row'[c].live = TRUE
    BY DEF BypassedIsProbed
  <2>1. c \in Candidates /\ row'[c].cooling
    BY <1>2 DEF Remember
  <2>2. row'[c].cooling = TRUE
    BY <2>1, RowMovesAreGood, RowFlags, Zenon
  <2>3. CASE /\ c \in bypassed
             /\ ~(row'[c].generation # row[c].generation
                    /\ row'[c].kind = "none")
    BY <2>1, <2>2, <2>3, ProbedMoves DEF BypassedIsProbed
  <2>4. CASE \E s \in Sessions : row[c].cooling /\ Dispatched(s, c)
    BY <2>1, <2>2, <2>4, CoolingDispatch
  <2> QED
    BY <1>2, <2>3, <2>4 DEF Remember
<1> QED
  BY <1>1, <1>2

(* HistoryInv is inductive, relative to TypeOK.                            *)
LEMMA HistoryStep == TypeOK /\ HistoryInv /\ [Next]_vars => HistoryInv'
<1> SUFFICES ASSUME TypeOK, HistoryInv, [Next]_vars PROVE HistoryInv'
  OBVIOUS
<1>1. StepMoves /\ (minted' = minted \/ minted' = minted + 1)
  BY NextMoves, OthersStayTyped
<1> QED
  BY <1>1, Remembers, TokensStayDistinct, SupersededStaysGone,
     BypassedStaysProbed DEF HistoryInv

(* HistoryInv holds, for any Sessions, candidates and chains.              *)
LEMMA HistoryCorrect == Spec => []HistoryInv
<1>1. Init => HistoryInv
  BY InitHistory
<1>2. TypeOK /\ HistoryInv /\ [Next]_vars => HistoryInv'
  BY HistoryStep
<1> QED
  BY <1>1, <1>2, TypeCorrect, PTL DEF Spec

-----------------------------------------------------------------------------
(* The action properties.                                                  *)

(* The bypass of a cooldown is one-shot, for any number of Sessions.       *)
THEOREM BypassAlwaysOneShot == Spec => BypassIsOneShot
<1>1. TypeOK /\ HistoryInv /\ [Next]_vars =>
        [\A s \in Sessions, c \in Candidates :
            row[c].cooling /\ Dispatched(s, c) =>
                c \notin bypassed /\ row[c].kind = "reservation"
                  /\ row[c].owner = s]_vars
  <2> SUFFICES ASSUME TypeOK, HistoryInv, [Next]_vars,
                      NEW s \in Sessions, NEW c \in Candidates,
                      row[c].cooling /\ Dispatched(s, c)
               PROVE  c \notin bypassed /\ row[c].kind = "reservation"
                        /\ row[c].owner = s
    OBVIOUS
  <2>1. row[c].kind = "reservation" /\ row[c].owner = s
    BY NextMoves, CoolingDispatch
  <2> QED
    BY <2>1 DEF HistoryInv, BypassedIsProbed
<1> QED
  BY <1>1, TypeCorrect, HistoryCorrect, PTL DEF Spec, BypassIsOneShot

(* Selection does not return to a candidate that it has passed.            *)
LEMMA PassedIsKept ==
  ASSUME NEW s \in Sessions, NEW rows, NEW op \in Operations,
         NEW j \in DOMAIN op.option.chain,
         rows = [c \in Candidates |-> rows[c]],
         SelectForeground(s, rows, op, j + 1)
  PROVE  row'[op.option.chain[j]] = rows[op.option.chain[j]]
<1> DEFINE chain == op.option.chain
<1>1. op.option \in Options
  BY DEF Operations
<1>2. /\ Distinct(chain) /\ j \in Nat
      /\ \A i \in DOMAIN chain : chain[i] \in Candidates /\ i \in Nat
  BY <1>1, Chains, HealthAssumption
<1>3. \/ row' = rows
      \/ \E i \in DOMAIN chain : \E r :
            i >= j + 1 /\ row' = [rows EXCEPT ![chain[i]] = r]
  BY DEF SelectForeground, IsFirst
<1>4. ASSUME NEW i \in DOMAIN chain, NEW r, i >= j + 1,
             row' = [rows EXCEPT ![chain[i]] = r]
      PROVE  row'[chain[j]] = rows[chain[j]]
  <2>1. i # j
    BY <1>2, <1>4
  <2>2. chain[i] # chain[j]
    BY <1>2, <2>1 DEF Distinct
  <2> QED
    BY <1>2, <1>4, <2>2
<1> QED
  BY <1>3, <1>4

(* An operation whose claim was superseded changes nothing, for any number *)
(* of Sessions and generations.                                            *)
LEMMA SupersededIsIgnored ==
  ASSUME TypeOK, HistoryInv, NEW s \in Sessions,
         ForegroundSucceeds(s) \/ ForegroundQuota(s),
         foreground[s].claim.token \in superseded
  PROVE  row'[Target(foreground[s])] = row[Target(foreground[s])]
<1> DEFINE op == foreground[s]
<1>1. op # None
  BY DEF ForegroundSucceeds, ForegroundQuota
<1>2. GoodOperation(op) /\ Target(op) \in Candidates
  BY <1>1, TypedState, Targets
<1>3. op.claim # NoClaim
  BY DEF HistoryInv, SupersededIsGone, NoClaim
<1>4. ~HoldsProbe(op)
  BY <1>2 DEF HoldsProbe, Matches, HistoryInv, SupersededIsGone
<1>5. CASE ForegroundSucceeds(s)
  BY <1>4, <1>5 DEF ForegroundSucceeds
<1>6. CASE ForegroundQuota(s)
  <2>1. SelectForeground(s, row, op, op.cursor + 1)
    BY <1>3, <1>4, <1>6 DEF ForegroundQuota
  <2> HIDE DEF op
  <2>2. row = [c \in Candidates |-> row[c]]
    BY TypedState
  <2>3. row'[op.option.chain[op.cursor]] = row[op.option.chain[op.cursor]]
    BY <1>2, <2>1, <2>2, PassedIsKept DEF GoodOperation
  <2> QED
    BY <2>3 DEF Target, op
<1> QED
  BY <1>5, <1>6

(* A late result of a superseded claim changes nothing, although a         *)
(* generation may come back.                                               *)
THEOREM SupersededAlwaysChangesNothing == Spec => SupersededChangesNothing
<1>1. TypeOK /\ HistoryInv /\ [Next]_vars =>
        [\A s \in Sessions :
            /\ foreground[s] # None
            /\ foreground[s].claim.token \in superseded
            /\ ForegroundSucceeds(s) \/ ForegroundQuota(s)
            => row'[Target(foreground[s])] = row[Target(foreground[s])]]_vars
  BY SupersededIsIgnored
<1> QED
  BY <1>1, TypeCorrect, HistoryCorrect, PTL
     DEF Spec, SupersededChangesNothing

-----------------------------------------------------------------------------
(* The reservation of a Session, step by step.                             *)
Undisturbed(s) ==
    /\ row'[Primary(s)] = row[Primary(s)]
    /\ reservation'[s] = reservation[s] /\ option'[s] = option[s]

Renews(s) == row'[Primary(s)] = Renewed(row[Primary(s)])

(* primary_next reads nothing but these.                                   *)
LEMMA UndisturbedIsKept ==
  ASSUME NEW s \in Sessions, PrimaryNext(s), Undisturbed(s)
  PROVE  PrimaryNext(s)'
  BY DEF Undisturbed, PrimaryNext, HoldsReservation, Matches, Primary

(* What primary_next says of the row.                                      *)
LEMMA ReservedRow ==
  ASSUME TypeOK, NEW s \in Sessions, PrimaryNext(s)
  PROVE  /\ Primary(s) \in Candidates
         /\ row[Primary(s)].kind = "reservation"
         /\ row[Primary(s)].owner = s
         /\ row[Primary(s)].live = TRUE /\ row[Primary(s)].generation # 0
<1>1. GoodRow(row[Primary(s)]) /\ Primary(s) \in Candidates
  BY TypedState, Targets
<1>2. row[Primary(s)].live = TRUE
  BY <1>1, RowFlags, Zenon DEF PrimaryNext
<1>3. /\ row[Primary(s)].kind = "reservation"
      /\ row[Primary(s)].owner = s
  BY DEF PrimaryNext, HoldsReservation, Matches
<1>4. row[Primary(s)].generation # 0
  BY <1>1, <1>3 DEF GoodRow, Complete, Healthy
<1> QED
  BY <1>1, <1>2, <1>3, <1>4

(* Selection leaves a reserved row as it finds it: alone or just renewed.  *)
LEMMA SelectionKeepsReserved ==
  ASSUME TypeOK, NEW s \in Sessions, PrimaryNext(s), NEW t \in Sessions,
         NEW rows, NEW op \in Operations, NEW k \in Nat, Minting,
         SelectForeground(t, rows, op, k), StartsFrom(rows)
  PROVE  \/ row'[Primary(s)] = row[Primary(s)]
         \/ Renews(s) /\ rows # row
<1> DEFINE p == Primary(s)
<1>1. p \in Candidates /\ row[p].live = TRUE
  BY ReservedRow
<1> HIDE DEF p
<1>2. /\ row = [c \in Candidates |-> row[c]]
      /\ \A c \in Candidates : GoodRow(row[c])
  BY TypedState
<1>3. /\ rows = [c \in Candidates |-> rows[c]]
      /\ \A c \in Candidates :
           rows[c] = row[c] \/ rows[c] = Renewed(row[c])
  BY <1>2 DEF StartsFrom
<1>4. \A c \in Candidates : GoodRow(rows[c])
  BY <1>2, <1>3, RenewedIsGood
<1>5. Exhausts(t, rows) \/ SendsToHealthy(t, rows) \/ Probes(t, rows, op)
  BY <1>4, SelectionMoves
<1>6. row'[p] = rows[p]
  <2>1. CASE row' = rows
    BY <2>1
  <2>2. CASE Probes(t, rows, op)
    <3> DEFINE c == Target(foreground'[t])
    <3>1. c \in Candidates /\ rows[c].cooling = FALSE /\ rows[c].live = FALSE
      BY <2>2, Targets DEF Probes
    <3>2. row' = [rows EXCEPT ![c] =
                     Claimed(rows[c], "probe", op.id, minted')]
      BY <2>2 DEF Probes
    <3> HIDE DEF c
    <3>3. rows[c] = row[c]
      BY <1>2, <1>3, <3>1, RowFields
    <3>4. c # p
      BY <1>1, <3>1, <3>3
    <3> QED
      BY <1>1, <1>3, <3>2, <3>4
  <2> QED
    BY <1>5, <2>1, <2>2 DEF Exhausts, SendsToHealthy
<1> QED
  BY <1>1, <1>3, <1>6 DEF p, Renews

(* An operation that the Session begins for its own label takes its         *)
(* reservation up.                                                         *)
LEMMA BeginTakesReservation ==
  ASSUME TypeOK, NEW s \in Sessions, PrimaryNext(s),
         Begin(s, option[s])
  PROVE  /\ foreground'[s] # None /\ Target(foreground'[s]) = Primary(s)
         /\ row'[Primary(s)].owner = foreground'[s].id
<1> DEFINE c == Primary(s)
           r == Transferred(row[c], minted', minted')
           claim == [generation |-> r.generation, token |-> r.token]
<1>1. Minting /\ BeginReserved(s, option[s])
  BY Minted DEF Begin, BeginUnreserved, Transferable, PrimaryNext, Primary
<1>2. c \in Candidates /\ GoodRow(row[c]) /\ row[c].kind = "reservation"
  BY TypedState, ReservedRow
<1>3. /\ row' = [row EXCEPT ![c] = r]
      /\ foreground' = [foreground EXCEPT
            ![s] = Advanced(NewOperation(option[s]), 1, claim)]
  BY <1>1 DEF BeginReserved, Primary
<1>4. GoodRow(r) /\ r.token = minted' /\ r.owner = minted'
  BY <1>1, <1>2, TransferredIsGood, RowFields DEF Minting
<1>5. claim \in Claims
  BY <1>4 DEF Claims, GoodRow, Rows
<1>6. row'[c] = r
  BY <1>2, <1>3, TypedState
<1> HIDE DEF r, claim
<1>7. /\ NewOperation(option[s]) \in Operations
      /\ NewOperation(option[s]).option = option[s] /\ NewOperation(option[s]).id = minted'
  BY <1>1, BegunOperation, TypedState
<1>8. 1 \in DOMAIN option[s].chain
  BY Chains, TypedState
<1>9. foreground'[s] = Advanced(NewOperation(option[s]), 1, claim)
  BY <1>3, TypedState
<1>10. /\ GoodOperation(foreground'[s]) /\ Target(foreground'[s]) = c
       /\ foreground'[s].id = minted'
  BY <1>5, <1>7, <1>8, <1>9, AdvancedOperation DEF Primary
<1> QED
  BY <1>4, <1>6, <1>10, HealthAssumption DEF GoodOperation

(* What runs do, those of other Sessions and the later steps of its own.   *)
LEMMA RunsKeepReservation ==
  ASSUME TypeOK, NEW s \in Sessions, PrimaryNext(s), NEW t \in Sessions
  PROVE  /\ \A o \in Options :
              Begin(t, o) /\ ~(t = s /\ o = option[s]) =>
                  Undisturbed(s) \/ option'[s] # option[s]
         /\ PrepareCompaction(t) => Undisturbed(s)
         /\ ForegroundQuota(t) => Undisturbed(s) \/ Renews(s)
         /\ CompactionQuota(t) => Undisturbed(s) \/ Renews(s)
         /\ ForegroundSucceeds(t) => Undisturbed(s)
         /\ CompactionSucceeds(t) => Undisturbed(s)
         /\ RunEnds(t) => Undisturbed(s)
<1> DEFINE p == Primary(s)
<1>1. /\ p \in Candidates /\ row[p].owner = s
      /\ row[p].kind = "reservation"
  BY ReservedRow
<1>2. row = [c \in Candidates |-> row[c]]
  BY TypedState
<1>3. ASSUME NEW o \in Options, Begin(t, o), ~(t = s /\ o = option[s]),
             option'[s] = option[s]
      PROVE  Undisturbed(s)
  <2>1. Minting
    BY <1>3, Minted DEF Begin
  <2>2. CASE BeginReserved(t, o)
    <3>1. t # s
      BY <1>3, <2>2 DEF Begin, BeginReserved, Transferable, PrimaryNext
    <3>2. row[o.chain[1]].owner = t
      BY <2>2 DEF BeginReserved, Transferable, HoldsReservation, Matches
    <3>3. row'[p] = row[p]
      BY <1>1, <1>2, <2>2, <3>1, <3>2 DEF BeginReserved
    <3>4. reservation'[s] = reservation[s]
      BY <2>2, <3>1 DEF BeginReserved, TypeOK
    <3> QED
      BY <1>3, <3>3, <3>4 DEF Undisturbed
  <2>3. CASE BeginUnreserved(t, o)
    <3>1. NewOperation(o) \in Operations
      BY <2>1, BegunOperation
    <3>2. row'[p] = row[p]
      BY <2>1, <2>3, <3>1, SelectionKeepsReserved
         DEF BeginUnreserved, StartsFrom
    <3> QED
      BY <1>3, <2>3, <3>2 DEF Undisturbed, BeginUnreserved
  <2> QED
    BY <1>3, <2>2, <2>3 DEF Begin
<1>4. PrepareCompaction(t) => Undisturbed(s)
  BY DEF PrepareCompaction, Undisturbed
<1>5. ASSUME ForegroundQuota(t) PROVE Undisturbed(s) \/ Renews(s)
  <2> DEFINE op == foreground[t]
             renews == op.claim = NoClaim \/ HoldsProbe(op)
             rows == IF renews
                     THEN [row EXCEPT ![Target(op)] = Renewed(@)] ELSE row
  <2>1. /\ Minting /\ op # None
        /\ SelectForeground(t, rows, op, op.cursor + 1)
    BY <1>5, Minted DEF ForegroundQuota
  <2>2. GoodOperation(op) /\ Target(op) \in Candidates
    BY <2>1, TypedState, Targets
  <2>3. op \in Operations /\ op.cursor + 1 \in Nat
    BY <2>2 DEF GoodOperation, Operations
  <2>4. StartsFrom(rows)
    <3>1. [row EXCEPT ![Target(op)] = Renewed(@)]
             = [row EXCEPT ![Target(op)] = Renewed(row[Target(op)])]
      BY <1>2, <2>2
    <3> QED
      BY <2>2, <3>1 DEF StartsFrom
  <2> HIDE DEF rows, op
  <2>5. row'[p] = row[p] \/ Renews(s)
    BY <2>1, <2>3, <2>4, SelectionKeepsReserved
  <2> QED
    BY <1>5, <2>5 DEF ForegroundQuota, Undisturbed
<1>6. ASSUME CompactionQuota(t) PROVE Undisturbed(s) \/ Renews(s)
  <2>1. row'[p] = row[p] \/ row'[p] = Renewed(row[p])
    BY <1>1, <1>2, <1>6 DEF CompactionQuota
  <2> QED
    BY <1>6, <2>1 DEF CompactionQuota, Undisturbed, Renews
<1>7. ASSUME ForegroundSucceeds(t) PROVE Undisturbed(s)
  <2>1. HoldsProbe(foreground[t]) => Target(foreground[t]) # p
    BY <1>1 DEF HoldsProbe, Matches
  <2>2. row'[p] = row[p]
    BY <1>1, <1>2, <1>7, <2>1 DEF ForegroundSucceeds
  <2> QED
    BY <1>7, <2>2 DEF ForegroundSucceeds, Undisturbed
<1>8. /\ CompactionSucceeds(t) => Undisturbed(s)
      /\ RunEnds(t) => Undisturbed(s)
  BY DEF CompactionSucceeds, RunEnds, Undisturbed
<1> QED
  BY <1>3, <1>4, <1>5, <1>6, <1>7, <1>8

(* What the users of other Sessions do.                                    *)
LEMMA UsersKeepReservation ==
  ASSUME TypeOK, NEW s \in Sessions, PrimaryNext(s), NEW t \in Sessions
  PROVE  /\ Reserve(t) => Undisturbed(s)
         /\ t # s /\ Cancel(t) => Undisturbed(s)
         /\ t # s /\ ChangeOption(t) => Undisturbed(s)
         /\ t # s /\ Archive(t) => Undisturbed(s)
<1> DEFINE p == Primary(s)
<1>1. p \in Candidates /\ row[p].owner = s /\ row[p].live = TRUE
  BY ReservedRow
<1>2. /\ row = [c \in Candidates |-> row[c]]
      /\ option = [u \in Sessions |-> option[u]]
      /\ reservation = [u \in Sessions |-> reservation[u]]
  BY DEF TypeOK
<1>3. ASSUME Reserve(t) PROVE Undisturbed(s)
  <2>1. Primary(t) # p
    BY <1>1, <1>3 DEF Reserve, Reservable
  <2>2. t # s
    BY <2>1
  <2> QED
    BY <1>1, <1>2, <1>3, <2>1, <2>2 DEF Reserve, Undisturbed
<1>4. ASSUME t # s, NEW c, ReleaseAt(t, c) PROVE row'[p] = row[p]
  <2>1. HoldsReservation(t, c) => c # p
    BY <1>1, <1>4 DEF HoldsReservation, Matches
  <2> QED
    BY <1>1, <1>2, <1>4, <2>1 DEF ReleaseAt
<1>5. ASSUME t # s, Cancel(t) PROVE Undisturbed(s)
  BY <1>2, <1>4, <1>5 DEF Cancel, Undisturbed
<1>6. ASSUME t # s, ChangeOption(t) PROVE Undisturbed(s)
  BY <1>2, <1>6 DEF ChangeOption, Undisturbed
<1>7. ASSUME t # s, Archive(t) PROVE Undisturbed(s)
  <2>1. row'[p] = row[p]
    BY <1>4, <1>7 DEF Archive
  <2> QED
    BY <1>2, <1>7, <2>1 DEF Archive, Undisturbed
<1> QED
  BY <1>3, <1>5, <1>6, <1>7

(* What time does.                                                         *)
LEMMA TimeKeepsReservation ==
  ASSUME TypeOK, NEW s \in Sessions, PrimaryNext(s), NEW c \in Candidates
  PROVE  /\ CooldownEnds(c) => PrimaryNext(s)'
         /\ ClaimExpires(c) /\ c # Primary(s) => PrimaryNext(s)'
<1> DEFINE p == Primary(s)
<1>1. /\ p \in Candidates /\ GoodRow(row[p]) /\ row[p].live = TRUE
      /\ row = [b \in Candidates |-> row[b]]
  BY ReservedRow, TypedState
<1>2. ASSUME CooldownEnds(c) PROVE PrimaryNext(s)'
  <2>1. CASE c # p
    <3>1. row'[p] = row[p]
      BY <1>1, <1>2, <2>1 DEF CooldownEnds
    <3> QED
      BY <1>2, <3>1, UndisturbedIsKept DEF CooldownEnds, Undisturbed
  <2>2. CASE c = p
    <3>1. row'[p] = [row[p] EXCEPT !.cooling = FALSE]
      BY <1>1, <1>2, <2>2 DEF CooldownEnds
    <3>2. /\ row'[p].generation = row[p].generation
          /\ row'[p].kind = row[p].kind /\ row'[p].owner = row[p].owner
          /\ row'[p].token = row[p].token /\ row'[p].live = TRUE
      BY <1>1, <3>1 DEF GoodRow, Rows
    <3> QED
      BY <1>2, <3>2 DEF CooldownEnds, PrimaryNext, HoldsReservation,
         Matches, Primary
  <2> QED
    BY <2>1, <2>2
<1>3. ASSUME ClaimExpires(c), c # p PROVE PrimaryNext(s)'
  <2>1. row'[p] = row[p]
    BY <1>1, <1>3 DEF ClaimExpires
  <2> QED
    BY <1>3, <2>1, UndisturbedIsKept DEF ClaimExpires, Undisturbed
<1> QED
  BY <1>2, <1>3

(* Nobody else takes a reservation away, and the next operation that its   *)
(* Session begins for its own label goes to the Primary, for any number of *)
(* Sessions and of retries under other labels.                             *)
THEOREM PrimaryNextAlwaysKept == Spec => PrimaryNextIsKept
<1> DEFINE Kept(s) ==
      \/ PrimaryNext(s)' /\ ~Begin(s, option[s])
      \/ /\ Begin(s, option[s]) /\ foreground'[s] # None
         /\ Target(foreground'[s]) = Primary(s)
         /\ row'[Primary(s)].owner = foreground'[s].id
      \/ Cancel(s) \/ option'[s] # option[s] \/ Archive(s)
      \/ row'[Primary(s)] = Renewed(row[Primary(s)])
      \/ ClaimExpires(Primary(s))
<1>1. ASSUME TypeOK, Next, NEW s \in Sessions, PrimaryNext(s)
      PROVE  Kept(s)
  <2>1. CASE Begin(s, option[s])
    BY <1>1, <2>1, BeginTakesReservation
  <2>2. CASE ~Begin(s, option[s])
    <3>1. Undisturbed(s) => Kept(s)
      BY <1>1, <2>2, UndisturbedIsKept
    <3>2. Renews(s) => Kept(s)
      BY DEF Renews
    <3>3. PrimaryNext(s)' => Kept(s)
      BY <2>2
    <3>4. ASSUME NEW t \in Sessions,
                 \/ \E o \in Options : Begin(t, o)
                 \/ PrepareCompaction(t) \/ ForegroundQuota(t)
                 \/ CompactionQuota(t) \/ ForegroundSucceeds(t)
                 \/ CompactionSucceeds(t) \/ RunEnds(t)
          PROVE  Kept(s)
      <4>1. Undisturbed(s) \/ Renews(s) \/ option'[s] # option[s]
        BY <1>1, <2>2, <3>4, RunsKeepReservation
      <4> QED
        BY <3>1, <3>2, <4>1
    <3>5. ASSUME NEW t \in Sessions,
                 Reserve(t) \/ Cancel(t) \/ ChangeOption(t) \/ Archive(t)
          PROVE  Kept(s)
      <4>1. \/ Undisturbed(s)
            \/ Cancel(s) \/ option'[s] # option[s] \/ Archive(s)
        <5>1. ChangeOption(s) => option'[s] # option[s]
          BY <1>1 DEF ChangeOption, TypeOK
        <5> QED
          BY <1>1, <3>5, <5>1, UsersKeepReservation
      <4> QED
        BY <3>1, <4>1
    <3>6. ASSUME NEW c \in Candidates, CooldownEnds(c) \/ ClaimExpires(c)
          PROVE  Kept(s)
      <4>1. PrimaryNext(s)' \/ ClaimExpires(Primary(s))
        BY <1>1, <3>6, TimeKeepsReservation
      <4> QED
        BY <3>3, <4>1
    <3> HIDE DEF Kept
    <3> QED
      BY <1>1, <3>4, <3>5, <3>6 DEF Next
  <2> QED
    BY <2>1, <2>2
<1>2. TypeOK /\ [Next]_vars =>
        [\A s \in Sessions : PrimaryNext(s) => Kept(s)]_vars
  BY <1>1
<1> QED
  BY <1>2, TypeCorrect, PTL DEF Spec, PrimaryNextIsKept
-----------------------------------------------------------------------------
(* Refinement of CircuitBreaker.                                            *)

(* The token on a row names the operation that holds it, and says all that  *)
(* Matches compares.                                                        *)
ClaimsAgree ==
    \A s \in Sessions, c \in Candidates :
        /\ foreground[s] # None /\ row[c].token # 0
        /\ row[c].token = foreground[s].claim.token
        => Matches(row[c], foreground[s].claim.generation, "probe",
                   foreground[s].id, foreground[s].claim.token)

LEMMA ClaimsStayAgreed ==
  ASSUME TypeOK, StepMoves, TokensAreDistinct, ClaimsAgree,
         minted' = minted \/ minted' = minted + 1
  PROVE  ClaimsAgree'
<1> SUFFICES ASSUME NEW s \in Sessions, NEW c \in Candidates,
                    foreground'[s] # None, row'[c].token # 0,
                    row'[c].token = foreground'[s].claim.token
             PROVE  Matches(row'[c], foreground'[s].claim.generation, "probe",
                            foreground'[s].id, foreground'[s].claim.token)
  BY DEF ClaimsAgree
<1>1. minted \in Nat
  BY HealthAssumption DEF TypeOK
<1>2. CASE foreground'[s] = foreground[s]
  <2>1. foreground[s].claim.token \in 1..minted
    BY <1>2 DEF TokensAreDistinct, NoClaim
  <2>2. /\ row'[c].token = row[c].token
        /\ row'[c].generation = row[c].generation
        /\ row'[c].kind = row[c].kind /\ row'[c].owner = row[c].owner
    BY <1>1, <1>2, <2>1, TokenMoves DEF Minting
  <2> QED
    BY <1>2, <2>2 DEF ClaimsAgree, Matches
<1>3. CASE foreground'[s].claim = NoClaim
  BY <1>3 DEF NoClaim
<1>4. CASE /\ Minting /\ foreground'[s].claim.token = minted'
           /\ GoodOperation(foreground'[s])
           /\ Matches(row'[Target(foreground'[s])],
                      foreground'[s].claim.generation, "probe",
                      foreground'[s].id, minted')
  <2>1. c = Target(foreground'[s])
    BY <1>4, Targets, FreshTokenIsPutOnce DEF Matches
  <2> QED
    BY <1>4, <2>1
<1> QED
  BY <1>2, <1>3, <1>4 DEF StepMoves, OperationsMove, OperationMove

(* What the breaker of a candidate shows of its row, and the request of a   *)
(* Session of its operation.                                                *)
StateOf(r) ==
    IF r.generation = 0 THEN "closed"
    ELSE IF r.cooling THEN "open" ELSE "halfOpen"
AuthorityOf(r) ==
    [grant |-> r.token, live |-> r.live,
     for |-> IF r.kind = "reservation" THEN r.owner ELSE None]
RequestOf(op) ==
    IF op = None THEN [to |-> None, by |-> 0]
    ELSE [to |-> Target(op), by |-> op.claim.token]

States == [c \in Candidates |-> StateOf(row[c])]
Authorities == [c \in Candidates |-> AuthorityOf(row[c])]
Requests == [s \in Sessions |-> RequestOf(foreground[s])]

(* How the operations on a row show.                                        *)
LEMMA RowViews ==
  /\ StateOf(Healthy) = "closed" /\ AuthorityOf(Healthy) = Breaker!Nobody
  /\ \A r : GoodRow(r) =>
       /\ StateOf(Renewed(r)) = "open"
       /\ AuthorityOf(Renewed(r)) = Breaker!Nobody
  /\ \A r, owner, token : GoodRow(r) /\ r.generation # 0 =>
       /\ StateOf(Claimed(r, "probe", owner, token)) = StateOf(r)
       /\ AuthorityOf(Claimed(r, "probe", owner, token))
            = Breaker!Granted(token, None)
  /\ \A r, owner, token : GoodRow(r) /\ r.generation # 0 =>
       /\ StateOf(Claimed(r, "reservation", owner, token)) = StateOf(r)
       /\ AuthorityOf(Claimed(r, "reservation", owner, token))
            = Breaker!Granted(token, owner)
  /\ \A r, owner, token : GoodRow(r) /\ r.generation # 0 =>
       /\ StateOf(Transferred(r, owner, token)) = StateOf(r)
       /\ AuthorityOf(Transferred(r, owner, token))
            = Breaker!Granted(token, None)
  /\ \A r : GoodRow(r) /\ r.generation # 0 =>
       /\ StateOf(Released(r)) = StateOf(r)
       /\ AuthorityOf(Released(r)) = Breaker!Nobody
<1>1. StateOf(Healthy) = "closed" /\ AuthorityOf(Healthy) = Breaker!Nobody
  BY DEF Healthy, StateOf, AuthorityOf, Breaker!Nobody
<1>2. ASSUME NEW r, GoodRow(r)
      PROVE  /\ StateOf(Renewed(r)) = "open"
             /\ AuthorityOf(Renewed(r)) = Breaker!Nobody
  BY <1>2, RowFields
     DEF GoodRow, Rows, Renewed, Healthy, StateOf, AuthorityOf, Breaker!Nobody
<1>3. ASSUME NEW r, NEW q, NEW token, r.generation # 0, q.generation # 0,
             q.cooling = r.cooling, q.live = TRUE, q.token = token
      PROVE  /\ StateOf(q) = StateOf(r)
             /\ AuthorityOf(q) = Breaker!Granted(token,
                    IF q.kind = "reservation" THEN q.owner ELSE None)
  BY <1>3 DEF StateOf, AuthorityOf, Breaker!Granted
<1>4. ASSUME NEW r, NEW owner, NEW token, GoodRow(r), r.generation # 0,
             NEW kind \in {"probe", "reservation"}
      PROVE  LET q == Claimed(r, kind, owner, token) IN
             /\ StateOf(q) = StateOf(r)
             /\ AuthorityOf(q) = Breaker!Granted(token,
                    IF kind = "reservation" THEN owner ELSE None)
  <2> DEFINE q == Claimed(r, kind, owner, token)
  <2>1. /\ q.generation = r.generation + 1 /\ q.cooling = r.cooling
        /\ q.kind = kind /\ q.owner = owner /\ q.token = token /\ q.live = TRUE
    BY <1>4, RowFields
  <2>2. q.generation # 0
    BY <1>4, <2>1 DEF GoodRow, Rows
  <2> HIDE DEF q
  <2> QED
    BY <1>3, <1>4, <2>1, <2>2, Zenon DEF q
<1>5. ASSUME NEW r, NEW owner, NEW token, GoodRow(r), r.generation # 0
      PROVE  LET q == Transferred(r, owner, token) IN
             /\ StateOf(q) = StateOf(r)
             /\ AuthorityOf(q) = Breaker!Granted(token, None)
  <2> DEFINE q == Transferred(r, owner, token)
  <2>1. /\ q.generation = r.generation /\ q.cooling = r.cooling
        /\ q.kind = "probe" /\ q.token = token /\ q.live = TRUE
    BY <1>5, RowFields
  <2> HIDE DEF q
  <2>2. /\ StateOf(q) = StateOf(r)
        /\ AuthorityOf(q) = Breaker!Granted(token, None)
    BY <1>3, <1>5, <2>1
  <2> QED
    BY <2>2 DEF q
<1>6. ASSUME NEW r, GoodRow(r), r.generation # 0
      PROVE  /\ StateOf(Released(r)) = StateOf(r)
             /\ AuthorityOf(Released(r)) = Breaker!Nobody
  BY <1>6 DEF Released, GoodRow, Rows, StateOf, AuthorityOf, Breaker!Nobody
<1>7. \A r, owner, token : GoodRow(r) /\ r.generation # 0 =>
        /\ StateOf(Claimed(r, "probe", owner, token)) = StateOf(r)
        /\ AuthorityOf(Claimed(r, "probe", owner, token))
             = Breaker!Granted(token, None)
  BY <1>4
<1>8. \A r, owner, token : GoodRow(r) /\ r.generation # 0 =>
        /\ StateOf(Claimed(r, "reservation", owner, token)) = StateOf(r)
        /\ AuthorityOf(Claimed(r, "reservation", owner, token))
             = Breaker!Granted(token, owner)
  BY <1>4
<1>9. \A r, owner, token : GoodRow(r) /\ r.generation # 0 =>
        /\ StateOf(Transferred(r, owner, token)) = StateOf(r)
        /\ AuthorityOf(Transferred(r, owner, token))
             = Breaker!Granted(token, None)
  BY <1>5
<1>10. \A r : GoodRow(r) /\ r.generation # 0 =>
         /\ StateOf(Released(r)) = StateOf(r)
         /\ AuthorityOf(Released(r)) = Breaker!Nobody
  BY <1>6
<1>11. \A r : GoodRow(r) =>
         /\ StateOf(Renewed(r)) = "open"
         /\ AuthorityOf(Renewed(r)) = Breaker!Nobody
  BY <1>2
<1> QED
  BY <1>1, <1>7, <1>8, <1>9, <1>10, <1>11, Zenon

(* A grant that is numbered by a fresh identifier is known to nobody.       *)
LEMMA FreshIsUnused ==
  ASSUME TypeOK, TokensAreDistinct, Minting
  PROVE  Breaker!Unused(minted') /\ minted' \in Ids /\ minted' # 0
<1>1. minted \in Nat /\ minted' = minted + 1 /\ minted' \in Ids
  BY HealthAssumption DEF TypeOK, Minting
<1>2. \A s \in Sessions : Requests[s].by # minted'
  <2> TAKE s \in Sessions
  <2>1. CASE foreground[s] = None
    BY <1>1, <2>1 DEF Requests, RequestOf
  <2>2. CASE foreground[s] # None
    <3>1. Requests[s].by = foreground[s].claim.token
      BY <2>2 DEF Requests, RequestOf
    <3> QED
      BY <1>1, <2>2, <3>1 DEF TokensAreDistinct, NoClaim
  <2> QED
    BY <2>1, <2>2
<1>3. \A c \in Candidates : Authorities[c].grant # minted'
  <2> TAKE c \in Candidates
  <2>1. Authorities[c].grant = row[c].token /\ row[c].token \in Nat
    BY DEF Authorities, AuthorityOf, TypeOK, Rows
  <2> QED
    BY <1>1, <2>1 DEF TokensAreDistinct
<1> QED
  BY <1>1, <1>2, <1>3
     DEF Breaker!Unused, Requests, RequestOf, Authorities, AuthorityOf

(* A step that changes one row, or one operation, as they show.             *)
LEMMA ShownRow ==
  ASSUME TypeOK, NEW c \in Candidates, NEW q, row' = [row EXCEPT ![c] = q]
  PROVE  /\ States' = [States EXCEPT ![c] = StateOf(q)]
         /\ Authorities' = [Authorities EXCEPT ![c] = AuthorityOf(q)]
<1>1. row' = [d \in Candidates |-> IF d = c THEN q ELSE row[d]]
  BY TypedState
<1> QED
  BY <1>1 DEF States, Authorities

LEMMA ShownOperation ==
  ASSUME TypeOK, NEW s \in Sessions, OthersKeep(s)
  PROVE  Requests' = [Requests EXCEPT ![s] = RequestOf(foreground'[s])]
  BY DEF OthersKeep, Requests

LEMMA ShownEnd ==
  ASSUME TypeOK, NEW s \in Sessions,
         foreground' = [foreground EXCEPT ![s] = None]
  PROVE  Requests' = [Requests EXCEPT ![s] = Breaker!Nowhere]
<1>1. foreground' = [t \in Sessions |-> IF t = s THEN None ELSE foreground[t]]
  BY TypedState
<1> QED
  BY <1>1 DEF Requests, RequestOf, Breaker!Nowhere

(* Walking down a chain is a selection, after the renewals in cs.           *)
LEMMA SelectionShows ==
  ASSUME TypeOK, TokensAreDistinct, NEW s \in Sessions,
         NEW cs \in SUBSET Candidates, NEW rows,
         rows = [c \in Candidates |-> IF c \in cs THEN Renewed(row[c]) ELSE row[c]],
         NEW op \in Operations, NEW k \in Nat, Minting,
         SelectForeground(s, rows, op, k)
  PROVE  Breaker!Select(s, cs)
<1> DEFINE c == Target(foreground'[s])
<1>1. \A d \in Candidates : GoodRow(row[d]) /\ GoodRow(rows[d])
  BY TypedState, RenewedIsGood
<1>2. /\ OthersKeep(s)
      /\ Exhausts(s, rows) \/ SendsToHealthy(s, rows) \/ Probes(s, rows, op)
  BY <1>1, SelectionMoves
<1>3. Requests' = [Requests EXCEPT ![s] = RequestOf(foreground'[s])]
  BY <1>2, ShownOperation
<1>4. \A d \in Candidates :
          /\ StateOf(rows[d]) = IF d \in cs THEN "open" ELSE States[d]
          /\ AuthorityOf(rows[d]) = IF d \in cs THEN Breaker!Nobody ELSE Authorities[d]
  BY <1>1, RowViews DEF States, Authorities
<1>5. row' = rows =>
          /\ States' = [d \in Candidates |-> IF d \in cs THEN "open" ELSE States[d]]
          /\ Authorities' = [d \in Candidates |->
                IF d \in cs THEN Breaker!Nobody ELSE Authorities[d]]
  BY <1>4 DEF States, Authorities
<1>6. \A d \in cs : rows[d].generation # 0 /\ rows[d].cooling = TRUE
  BY <1>1, RowFields DEF GoodRow, Rows
<1>7. CASE Exhausts(s, rows)
  <2>1. Requests' = [Requests EXCEPT ![s] = Breaker!Nowhere]
    BY <1>3, <1>7 DEF Exhausts, RequestOf, Breaker!Nowhere
  <2> QED
    BY <1>5, <1>7, <2>1
       DEF Exhausts, Breaker!Select, Breaker!Withdrawn, Breaker!Revoked,
           States, StateOf, Authorities, AuthorityOf, Requests, RequestOf
<1>8. CASE SendsToHealthy(s, rows)
  <2>1. c \in Candidates /\ row' = rows /\ rows[c].generation = 0
        /\ GoodOperation(foreground'[s]) /\ foreground'[s].claim = NoClaim
    BY <1>8, Targets DEF SendsToHealthy
  <2>2. c \notin cs /\ States[c] = "closed"
    BY <1>6, <2>1 DEF States, StateOf
  <2>3. RequestOf(foreground'[s]) = [to |-> c, by |-> 0]
    BY <2>1, HealthAssumption DEF GoodOperation, RequestOf, NoClaim
  <2>4. Requests' = [Requests EXCEPT ![s] = [to |-> c, by |-> 0]]
    BY <1>3, <2>3
  <2> QED
    BY <1>5, <2>1, <2>2, <2>4
       DEF Breaker!Select, Breaker!Directed, Breaker!Revoked,
           States, StateOf, Authorities, AuthorityOf, Requests, RequestOf
<1>9. CASE Probes(s, rows, op)
  <2>1. /\ c \in Candidates /\ GoodOperation(foreground'[s])
        /\ row' = [rows EXCEPT ![c] = Claimed(rows[c], "probe", op.id, minted')]
        /\ foreground'[s].claim.token = minted'
        /\ rows[c].cooling = FALSE /\ rows[c].live = FALSE
        /\ rows[c].generation # 0
    BY <1>9, Targets DEF Probes
  <2> HIDE DEF c
  <2>2. c \notin cs /\ rows[c] = row[c]
    BY <1>6, <2>1
  <2>3. States[c] = "halfOpen" /\ Authorities[c].live = FALSE
    BY <2>1, <2>2 DEF States, StateOf, Authorities, AuthorityOf
  <2>4. row' = [d \in Candidates |->
                  IF d = c THEN Claimed(row[c], "probe", op.id, minted')
                  ELSE rows[d]]
    BY <2>1, <2>2
  <2>5. /\ StateOf(Claimed(row[c], "probe", op.id, minted')) = States[c]
        /\ AuthorityOf(Claimed(row[c], "probe", op.id, minted'))
             = Breaker!Granted(minted', None)
    BY <1>1, <2>1, <2>2, RowViews DEF States
  <2>6. States' = [d \in Candidates |-> IF d \in cs THEN "open" ELSE States[d]]
    BY <1>4, <2>2, <2>4, <2>5 DEF States
  <2>7. Authorities' = [d \in Candidates |->
            IF d = c THEN Breaker!Granted(minted', None)
            ELSE IF d \in cs THEN Breaker!Nobody ELSE Authorities[d]]
    BY <1>4, <2>4, <2>5 DEF Authorities
  <2>8. RequestOf(foreground'[s]) = [to |-> c, by |-> minted']
    BY <2>1, HealthAssumption DEF GoodOperation, RequestOf, c
  <2>9. Requests' = [Requests EXCEPT ![s] = [to |-> c, by |-> minted']]
    BY <1>3, <2>8
  <2>10. Breaker!Unused(minted') /\ minted' \in Ids
    BY FreshIsUnused
  <2>11. PICK e \in Candidates \ cs, n \in Ids : e = c /\ n = minted'
    BY <2>1, <2>2, <2>10
  <2>12. /\ States[e] = "halfOpen" /\ ~Authorities[e].live
         /\ Breaker!Unused(n)
    BY <2>3, <2>10, <2>11
  <2>13. /\ Requests' = [Requests EXCEPT ![s] = [to |-> e, by |-> n]]
         /\ Authorities' = [d \in Candidates |->
                IF d = e THEN Breaker!Granted(n, None)
                ELSE IF d \in cs THEN Breaker!Nobody ELSE Authorities[d]]
    BY <2>7, <2>9, <2>11
  <2> QED
    BY <2>6, <2>12, <2>13
       DEF Breaker!Select, Breaker!Directed,
           States, StateOf, Authorities, AuthorityOf, Requests, RequestOf
<1> QED
  BY <1>2, <1>7, <1>8, <1>9

(* An operation without a claim was sent without a grant, and one that      *)
(* holds its claim is a request that holds its authority.                   *)
LEMMA HoldersAgree ==
  ASSUME TypeOK, TokensAreDistinct, ClaimsAgree,
         NEW s \in Sessions, foreground[s] # None
  PROVE  /\ Requests[s] = [to |-> Target(foreground[s]),
                           by |-> foreground[s].claim.token]
         /\ Target(foreground[s]) \in Candidates
         /\ foreground[s].claim = NoClaim <=> foreground[s].claim.token = 0
         /\ HoldsProbe(foreground[s]) <=> Breaker!Holds(s)
<1> DEFINE op == foreground[s]
           c == Target(op)
<1>1. Requests[s] = [to |-> c, by |-> op.claim.token] /\ c \in Candidates
  BY TypedState, Targets DEF Requests, RequestOf
<1>2. op.claim = NoClaim <=> op.claim.token = 0
  BY DEF TokensAreDistinct, NoClaim
<1>3. Authorities[c].grant = row[c].token
  BY <1>1 DEF Authorities, AuthorityOf
<1>4. Breaker!Holds(s) <=> op.claim.token # 0 /\ row[c].token = op.claim.token
  BY <1>1, <1>3
     DEF Breaker!Holds, Requests, RequestOf, Authorities, AuthorityOf
<1>5. HoldsProbe(op) <=> op.claim.token # 0 /\ row[c].token = op.claim.token
  BY <1>1, <1>2 DEF ClaimsAgree, HoldsProbe, Matches
<1> QED
  BY <1>1, <1>2, <1>4, <1>5

-----------------------------------------------------------------------------
(* Every step is one of the breaker or changes nothing that it shows.       *)
Shown == Breaker!Next \/ (States' = States /\ Authorities' = Authorities
                            /\ Requests' = Requests)

LEMMA BeginShows ==
  ASSUME TypeOK, TokensAreDistinct, NEW s \in Sessions, NEW o \in Options,
         Begin(s, o)
  PROVE  Breaker!Begin(s) \/ Breaker!BeginReserved(s)
<1>1. Minting
  BY Minted DEF Begin
<1>2. /\ NewOperation(o) \in Operations /\ NewOperation(o).cursor = 1
      /\ NewOperation(o).option = o /\ NewOperation(o).id = minted'
  BY <1>1, BegunOperation
<1>3. CASE BeginUnreserved(s, o)
  <2>1. row = [c \in Candidates |-> IF c \in {} THEN Renewed(row[c]) ELSE row[c]]
    BY TypedState
  <2>2. SelectForeground(s, row, NewOperation(o), 1)
    BY <1>3 DEF BeginUnreserved
  <2>3. Breaker!Select(s, {})
    BY <1>1, <1>2, <2>1, <2>2, SelectionShows
  <2> QED
    BY <2>3 DEF Breaker!Begin
<1>4. CASE BeginReserved(s, o)
  <2> DEFINE c == o.chain[1]
             r == Transferred(row[c], minted', minted')
             claim == [generation |-> r.generation, token |-> r.token]
             op == Advanced(NewOperation(o), 1, claim)
  <2>1. c \in Candidates /\ GoodRow(row[c])
    BY Chains, TypedState
  <2>2. /\ row[c].kind = "reservation" /\ row[c].owner = s /\ row[c].live
        /\ row' = [row EXCEPT ![c] = r]
        /\ foreground' = [foreground EXCEPT ![s] = op]
    BY <1>4 DEF BeginReserved, Transferable, HoldsReservation, Matches
  <2>3. row[c].generation # 0
    BY <2>1, <2>2 DEF GoodRow, Complete, Healthy
  <2>4. r.generation = row[c].generation /\ r.token = minted'
    BY <2>1, RowFields
  <2>5. claim \in Claims /\ claim.token = minted'
    BY <1>1, <2>1, <2>4, Identifiers DEF Claims, Minting, GoodRow, Rows
  <2>6. 1 \in DOMAIN NewOperation(o).option.chain
    BY <1>2, Chains, TypedState
  <2> HIDE DEF claim
  <2>7. op \in Operations /\ Target(op) = c /\ op.claim.token = minted'
    BY <1>2, <2>5, <2>6, AdvancedOperation DEF GoodOperation
  <2> HIDE DEF op, c, r
  <2>8. RequestOf(op) = [to |-> c, by |-> minted']
    BY <2>7, HealthAssumption DEF RequestOf
  <2>9. OthersKeep(s) /\ foreground'[s] = op
    BY <2>2, TypedState DEF OthersKeep
  <2>10. Requests' = [Requests EXCEPT ![s] = [to |-> c, by |-> minted']]
    BY <2>8, <2>9, ShownOperation
  <2>11. /\ States' = [States EXCEPT ![c] = StateOf(r)]
         /\ Authorities' = [Authorities EXCEPT ![c] = AuthorityOf(r)]
    BY <2>1, <2>2, ShownRow
  <2>12. StateOf(r) = StateOf(row[c])
         /\ AuthorityOf(r) = Breaker!Granted(minted', None)
    BY <2>1, <2>3, RowViews DEF r
  <2>13. States' = States
    BY <2>1, <2>11, <2>12 DEF States
  <2>14. Authorities[c].for = s /\ Authorities[c].live
    BY <2>1, <2>2 DEF Authorities, AuthorityOf
  <2>15. Breaker!Unused(minted') /\ minted' \in Ids
    BY <1>1, FreshIsUnused
  <2>16. Breaker!BeginReserved(s)
    BY <2>1, <2>10, <2>11, <2>12, <2>13, <2>14, <2>15
       DEF Breaker!BeginReserved, Breaker!Directed,
           States, StateOf, Authorities, AuthorityOf, Requests, RequestOf
  <2> QED
    BY <2>16
<1> QED
  BY <1>3, <1>4 DEF Begin

LEMMA QuotaShows ==
  ASSUME TypeOK, TokensAreDistinct, ClaimsAgree,
         NEW s \in Sessions, ForegroundQuota(s)
  PROVE  Breaker!Fail(s)
<1> DEFINE op == foreground[s]
           renews == op.claim = NoClaim \/ HoldsProbe(op)
           rows == IF renews
                   THEN [row EXCEPT ![Target(op)] = Renewed(@)] ELSE row
           cs == IF renews THEN {Target(op)} ELSE {}
<1>1. Minting
  BY Minted DEF ForegroundQuota
<1>2. /\ op # None /\ SelectForeground(s, rows, op, op.cursor + 1)
  BY DEF ForegroundQuota
<1>3. GoodOperation(op) /\ Target(op) \in Candidates
  BY <1>2, TypedState, Targets
<1>4. op \in Operations /\ op.cursor + 1 \in Nat
  BY <1>3 DEF GoodOperation, Operations
<1>5. rows = [c \in Candidates |-> IF c \in cs THEN Renewed(row[c]) ELSE row[c]]
  BY <1>3, TypedState
<1>6. cs \in SUBSET Candidates
  BY <1>3
<1>7. /\ Requests[s] = [to |-> Target(op), by |-> op.claim.token]
      /\ op.claim = NoClaim <=> op.claim.token = 0
      /\ HoldsProbe(op) <=> Breaker!Holds(s)
  BY <1>2, HoldersAgree
<1> HIDE DEF op
<1>8. Requests[s] # Breaker!Nowhere
  BY <1>3, <1>7, HealthAssumption DEF Breaker!Nowhere
<1>9. cs = IF Requests[s].by = 0 \/ Breaker!Holds(s)
           THEN {Requests[s].to} ELSE {}
  <2>1. Requests[s].to = Target(op) /\ Requests[s].by = op.claim.token
    BY <1>7
  <2> QED
    BY <1>7, <2>1
<1> HIDE DEF rows, cs
<1>10. SelectForeground(s, rows, op, op.cursor + 1)
  BY <1>2
<1>11. PICK ds \in SUBSET Candidates : ds = cs
  BY <1>6
<1>12. rows = [c \in Candidates |-> IF c \in ds THEN Renewed(row[c]) ELSE row[c]]
  BY <1>5, <1>11
<1>13. Breaker!Select(s, ds)
  BY <1>1, <1>4, <1>10, <1>12, SelectionShows
<1>14. ds = IF Requests[s].by = 0 \/ Breaker!Holds(s)
            THEN {Requests[s].to} ELSE {}
  BY <1>9, <1>11
<1>15. Breaker!Sent(s)
  BY <1>8 DEF Breaker!Sent, Requests, RequestOf
<1> QED
  BY <1>13, <1>14, <1>15
     DEF Breaker!Fail, Breaker!Select, Breaker!Revoked, Requests, RequestOf

(* A background operation's quota error opens its candidate.                *)
LEMMA CompactionQuotaShows ==
  ASSUME TypeOK, NEW s \in Sessions, CompactionQuota(s)
  PROVE  \E c \in Candidates : Breaker!FailInBackground(c)
<1>1. compaction[s] \in DOMAIN Lightweight
  BY DEF CompactionQuota, TypeOK
<1>2. PICK c \in Candidates : c = Lightweight[compaction[s]]
  BY <1>1, HealthAssumption
<1>3. row' = [row EXCEPT ![c] = Renewed(row[c])] /\ foreground' = foreground
  BY <1>2 DEF CompactionQuota
<1>4. /\ States' = [States EXCEPT ![c] = StateOf(Renewed(row[c]))]
      /\ Authorities' = [Authorities EXCEPT ![c] = AuthorityOf(Renewed(row[c]))]
  BY <1>2, <1>3, ShownRow
<1>5. /\ StateOf(Renewed(row[c])) = "open"
      /\ AuthorityOf(Renewed(row[c])) = Breaker!Nobody
  BY <1>2, TypedState, RowViews
<1>6. States' = [States EXCEPT ![c] = "open"]
  BY <1>4, <1>5
<1>7. Authorities' = [d \in Candidates |->
          IF d \in {c} THEN Breaker!Nobody ELSE Authorities[d]]
  BY <1>4, <1>5 DEF Authorities
<1>8. Requests' = Requests
  BY <1>3 DEF Requests, RequestOf, Target
<1>9. Breaker!FailInBackground(c)
  BY <1>6, <1>7, <1>8
     DEF Breaker!FailInBackground, Breaker!Revoked,
         States, StateOf, Authorities, AuthorityOf, Requests, RequestOf
<1> QED
  BY <1>9

(* A success recovers the candidate if, and only if, its authority holds.   *)
LEMMA SuccessShows ==
  ASSUME TypeOK, TokensAreDistinct, ClaimsAgree,
         NEW s \in Sessions, ForegroundSucceeds(s)
  PROVE  Breaker!Succeed(s)
<1> DEFINE op == foreground[s]
           c == Target(op)
<1>1. /\ op # None /\ foreground' = [foreground EXCEPT ![s] = None]
      /\ row' = IF HoldsProbe(op)
                THEN [row EXCEPT ![c] = Healthy] ELSE row
  BY DEF ForegroundSucceeds
<1>2. /\ Requests[s] = [to |-> c, by |-> op.claim.token]
      /\ c \in Candidates
      /\ HoldsProbe(op) <=> Breaker!Holds(s)
  BY <1>1, HoldersAgree
<1> HIDE DEF op, c
<1>3. Requests[s] # Breaker!Nowhere /\ Requests[s].to = c
  BY <1>2, HealthAssumption DEF Breaker!Nowhere
<1>4. Requests' = [Requests EXCEPT ![s] = Breaker!Nowhere]
  BY <1>1, ShownEnd
<1>5. Breaker!Sent(s) /\ Breaker!Withdrawn(s)
  BY <1>3, <1>4 DEF Breaker!Sent, Breaker!Withdrawn, Requests, RequestOf
<1>6. CASE HoldsProbe(op)
  <2>1. Breaker!Holds(s)
    BY <1>2, <1>6
  <2>2. row' = [row EXCEPT ![c] = Healthy]
    BY <1>1, <1>6
  <2>3. /\ States' = [States EXCEPT ![c] = StateOf(Healthy)]
        /\ Authorities' = [Authorities EXCEPT ![c] = AuthorityOf(Healthy)]
    BY <1>2, <2>2, ShownRow
  <2>4. States' = [States EXCEPT ![Requests[s].to] = "closed"]
    BY <1>3, <2>3, RowViews
  <2>5. Authorities' = [d \in Candidates |->
            IF d \in {Requests[s].to} THEN Breaker!Nobody ELSE Authorities[d]]
    BY <1>3, <2>3, RowViews DEF Authorities
  <2> QED
    BY <1>5, <2>1, <2>4, <2>5
       DEF Breaker!Succeed, Breaker!Revoked,
           States, StateOf, Authorities, AuthorityOf, Requests, RequestOf
<1>7. CASE ~HoldsProbe(op)
  <2>1. ~Breaker!Holds(s)
    BY <1>2, <1>7
  <2>2. row' = row
    BY <1>1, <1>7
  <2>3. States' = States /\ Authorities' = Authorities
    BY <2>2 DEF States, Authorities
  <2> QED
    BY <1>5, <2>1, <2>3
       DEF Breaker!Succeed, States, StateOf, Authorities, AuthorityOf
<1> QED
  BY <1>6, <1>7

(* A run that ends without a result withdraws its request, if it has one.   *)
LEMMA RunEndShows ==
  ASSUME TypeOK, NEW s \in Sessions, RunEnds(s)
  PROVE  Shown
<1>1. foreground' = [foreground EXCEPT ![s] = None] /\ row' = row
  BY DEF RunEnds
<1>2. States' = States /\ Authorities' = Authorities
  BY <1>1 DEF States, Authorities
<1>3. Requests' = [Requests EXCEPT ![s] = Breaker!Nowhere]
  BY <1>1, ShownEnd
<1>4. CASE Requests[s] = Breaker!Nowhere
  <2>1. Requests' = Requests
    BY <1>3, <1>4 DEF Requests
  <2> QED
    BY <1>2, <2>1 DEF Shown
<1>5. CASE Requests[s] # Breaker!Nowhere
  <2>1. Breaker!End(s)
    BY <1>2, <1>3, <1>5
       DEF Breaker!End, Breaker!Sent, Breaker!Withdrawn,
           States, StateOf, Authorities, AuthorityOf, Requests, RequestOf
  <2> QED
    BY <2>1 DEF Shown, Breaker!Next
<1> QED
  BY <1>4, <1>5

(* Background operations show only their quota errors, options nothing.     *)
LEMMA OthersShowNothing ==
  ASSUME NEW s \in Sessions,
         PrepareCompaction(s) \/ CompactionSucceeds(s) \/ ChangeOption(s)
  PROVE  Shown
<1>1. row' = row /\ foreground' = foreground
  BY DEF PrepareCompaction, CompactionSucceeds, ChangeOption, operations
<1>2. States' = States /\ Authorities' = Authorities
  BY <1>1 DEF States, Authorities
<1>3. Requests' = Requests
  BY <1>1 DEF Requests, RequestOf, Target
<1> QED
  BY <1>2, <1>3 DEF Shown

(* A reservation takes the authority of a candidate that nobody tries.      *)
LEMMA ReserveShows ==
  ASSUME TypeOK, TokensAreDistinct, NEW s \in Sessions, Reserve(s)
  PROVE  \E c \in Candidates, n \in Ids : Breaker!Reserve(s, c, n)
<1>1. PICK c \in Candidates : c = Primary(s)
  BY Targets
<1>2. Minting /\ GoodRow(row[c])
  BY TypedState, Minted DEF Reserve
<1> DEFINE r == Claimed(row[c], "reservation", s, minted')
<1>3. /\ row[c].generation # 0 /\ row[c].live = FALSE
      /\ row' = [row EXCEPT ![c] = r] /\ foreground' = foreground
  BY <1>1, <1>2, RowFlags DEF Reserve, Reservable, operations
<1> HIDE DEF r
<1>4. /\ States' = [States EXCEPT ![c] = StateOf(r)]
      /\ Authorities' = [Authorities EXCEPT ![c] = AuthorityOf(r)]
  BY <1>3, ShownRow
<1>5. PICK n \in Ids : n = minted' /\ Breaker!Unused(n)
  BY <1>2, FreshIsUnused
<1>6. StateOf(r) = StateOf(row[c]) /\ AuthorityOf(r) = Breaker!Granted(n, s)
  BY <1>2, <1>3, <1>5, RowViews DEF r
<1>7. States' = States
  BY <1>4, <1>6 DEF States
<1>8. States[c] # "closed" /\ Authorities[c].live = FALSE
  BY <1>3 DEF States, StateOf, Authorities, AuthorityOf
<1>9. Requests' = Requests
  BY <1>3 DEF Requests, RequestOf, Target
<1>10. Authorities' = [Authorities EXCEPT ![c] = Breaker!Granted(n, s)]
  BY <1>4, <1>6
<1>11. Breaker!Reserve(s, c, n)
  BY <1>5, <1>7, <1>8, <1>9, <1>10
     DEF Breaker!Reserve,
         States, StateOf, Authorities, AuthorityOf, Requests, RequestOf
<1> QED
  BY <1>11

(* A release gives back the authority if the reservation still holds it.    *)
LEMMA ReleaseShows ==
  ASSUME TypeOK, NEW s \in Sessions, NEW c \in Candidates,
         ReleaseAt(s, c), foreground' = foreground
  PROVE  Shown
<1>1. Requests' = Requests
  BY DEF Requests, RequestOf, Target
<1>2. CASE HoldsReservation(s, c)
  <2>1. row' = [row EXCEPT ![c] = Released(row[c])] /\ GoodRow(row[c])
    BY <1>2, TypedState DEF ReleaseAt
  <2>2. row[c].kind = "reservation" /\ row[c].owner = s
    BY <1>2 DEF HoldsReservation, Matches
  <2>3. row[c].generation # 0
    BY <2>1, <2>2 DEF GoodRow, Complete, Healthy
  <2>4. /\ States' = [States EXCEPT ![c] = StateOf(Released(row[c]))]
        /\ Authorities' = [Authorities EXCEPT
              ![c] = AuthorityOf(Released(row[c]))]
    BY <2>1, ShownRow
  <2>5. StateOf(Released(row[c])) = StateOf(row[c])
        /\ AuthorityOf(Released(row[c])) = Breaker!Nobody
    BY <2>1, <2>3, RowViews
  <2>6. States' = States
    BY <2>4, <2>5 DEF States
  <2>7. Authorities' = [d \in Candidates |->
            IF d \in {c} THEN Breaker!Nobody ELSE Authorities[d]]
    BY <2>4, <2>5 DEF Authorities
  <2>8. Authorities[c].for = s
    BY <2>2 DEF Authorities, AuthorityOf
  <2>9. Breaker!GiveBack(s, c)
    BY <1>1, <2>6, <2>7, <2>8
       DEF Breaker!GiveBack, Breaker!Revoked,
           States, StateOf, Authorities, AuthorityOf, Requests, RequestOf
  <2>10. Breaker!Next
    BY <2>9 DEF Breaker!Next
  <2> QED
    BY <2>10 DEF Shown
<1>3. CASE ~HoldsReservation(s, c)
  <2>1. row' = row
    BY <1>3 DEF ReleaseAt
  <2>2. States' = States /\ Authorities' = Authorities
    BY <2>1 DEF States, Authorities
  <2> QED
    BY <1>1, <2>2 DEF Shown
<1> QED
  BY <1>2, <1>3

(* A user cancels a reservation, or archives the Session that has it.       *)
LEMMA CancelShows ==
  ASSUME TypeOK, NEW s \in Sessions, Cancel(s) \/ Archive(s)
  PROVE  Shown
<1>1. foreground' = foreground
  BY DEF Cancel, Archive, operations
<1>2. CASE Cancel(s)
  <2>1. PICK c \in Candidates : c = Primary(s)
    BY Targets
  <2>2. ReleaseAt(s, c)
    BY <1>2, <2>1 DEF Cancel, ReleaseAt, HoldsReservation
  <2> QED
    BY <1>1, <2>2, ReleaseShows
<1>3. CASE Archive(s)
  <2>1. CASE reservation[s] = None
    <3>1. row' = row
      BY <1>3, <2>1 DEF Archive
    <3>2. States' = States /\ Authorities' = Authorities
      BY <3>1 DEF States, Authorities
    <3>3. Requests' = Requests
      BY <1>1 DEF Requests, RequestOf, Target
    <3> QED
      BY <3>2, <3>3 DEF Shown
  <2>2. CASE reservation[s] # None
    <3>1. reservation[s] \in Reservations
      BY <2>2 DEF TypeOK
    <3>2. PICK c \in Candidates : c = reservation[s].candidate
      BY <3>1 DEF Reservations
    <3>3. ReleaseAt(s, c)
      BY <1>3, <2>2, <3>2 DEF Archive, ReleaseAt, HoldsReservation
    <3> QED
      BY <1>1, <3>3, ReleaseShows
  <2> QED
    BY <2>1, <2>2
<1> QED
  BY <1>2, <1>3

(* Time half-opens a candidate, and ends the lease of an authority.         *)
LEMMA TimeShows ==
  ASSUME TypeOK, NEW c \in Candidates, CooldownEnds(c) \/ ClaimExpires(c)
  PROVE  Breaker!CoolDown(c) \/ Breaker!Lapse(c)
<1>1. GoodRow(row[c]) /\ foreground' = foreground
  BY TypedState DEF CooldownEnds, ClaimExpires, operations
<1>2. Requests' = Requests
  BY <1>1 DEF Requests, RequestOf, Target
<1>3. CASE CooldownEnds(c)
  <2> DEFINE q == [row[c] EXCEPT !.cooling = FALSE]
  <2>1. row[c].cooling = TRUE /\ row' = [row EXCEPT ![c] = q]
    BY <1>1, <1>3, RowFlags DEF CooldownEnds
  <2>2. row[c].generation # 0
    BY <1>1, <2>1 DEF GoodRow, Complete, Healthy
  <2>3. StateOf(q) = "halfOpen" /\ AuthorityOf(q) = AuthorityOf(row[c])
    BY <1>1, <2>2 DEF GoodRow, Rows, StateOf, AuthorityOf
  <2> HIDE DEF q
  <2>4. /\ States' = [States EXCEPT ![c] = StateOf(q)]
        /\ Authorities' = [Authorities EXCEPT ![c] = AuthorityOf(q)]
    BY <2>1, ShownRow
  <2>5. Authorities' = Authorities
    BY <2>3, <2>4 DEF Authorities
  <2>6. States[c] = "open" /\ States' = [States EXCEPT ![c] = "halfOpen"]
    BY <2>1, <2>2, <2>3, <2>4 DEF States, StateOf
  <2> QED
    BY <1>2, <2>5, <2>6
       DEF Breaker!CoolDown,
           States, StateOf, Authorities, AuthorityOf, Requests, RequestOf
<1>4. CASE ClaimExpires(c)
  <2> DEFINE q == [row[c] EXCEPT !.live = FALSE]
  <2>1. /\ row[c].live = TRUE /\ row[c].cooling = FALSE
        /\ row' = [row EXCEPT ![c] = q]
    BY <1>1, <1>4, RowFlags DEF ClaimExpires
  <2>2. row[c].generation # 0
    BY <1>1, <2>1 DEF GoodRow, Complete, Healthy
  <2>3. /\ q.generation = row[c].generation /\ q.cooling = row[c].cooling
        /\ q.kind = row[c].kind /\ q.owner = row[c].owner
        /\ q.token = row[c].token /\ q.live = FALSE
    BY <1>1 DEF GoodRow, Rows
  <2> HIDE DEF q
  <2>4. /\ States' = [States EXCEPT ![c] = StateOf(q)]
        /\ Authorities' = [Authorities EXCEPT ![c] = AuthorityOf(q)]
    BY <2>1, ShownRow
  <2>5. States' = States
    BY <2>3, <2>4 DEF States, StateOf
  <2>6. Authorities' = [Authorities EXCEPT ![c].live = FALSE]
    BY <2>3, <2>4 DEF Authorities, AuthorityOf
  <2>7. States[c] = "halfOpen" /\ Authorities[c].live = TRUE
    BY <2>1, <2>2 DEF States, StateOf, Authorities, AuthorityOf
  <2> QED
    BY <1>2, <2>5, <2>6, <2>7
       DEF Breaker!Lapse,
           States, StateOf, Authorities, AuthorityOf, Requests, RequestOf
<1> QED
  BY <1>3, <1>4

LEMMA NextShows ==
  ASSUME TypeOK, TokensAreDistinct, ClaimsAgree, [Next]_vars
  PROVE  Shown
<1>1. ASSUME NEW s \in Sessions, NEW o \in Options, Begin(s, o)
      PROVE  Shown
  <2>1. Breaker!Next
    BY <1>1, BeginShows DEF Breaker!Next
  <2> QED
    BY <2>1 DEF Shown
<1>2. ASSUME NEW s \in Sessions, ForegroundQuota(s) PROVE Shown
  <2>1. Breaker!Next
    BY <1>2, QuotaShows DEF Breaker!Next
  <2> QED
    BY <2>1 DEF Shown
<1>3. ASSUME NEW s \in Sessions, CompactionQuota(s) PROVE Shown
  <2>1. Breaker!Next
    BY <1>3, CompactionQuotaShows DEF Breaker!Next
  <2> QED
    BY <2>1 DEF Shown
<1>4. ASSUME NEW s \in Sessions, ForegroundSucceeds(s) PROVE Shown
  <2>1. Breaker!Next
    BY <1>4, SuccessShows DEF Breaker!Next
  <2> QED
    BY <2>1 DEF Shown
<1>5. ASSUME NEW s \in Sessions, Reserve(s) PROVE Shown
  <2>1. PICK c \in Candidates, n \in Ids : Breaker!Reserve(s, c, n)
    BY <1>5, ReserveShows
  <2>2. Breaker!Next
    BY <2>1 DEF Breaker!Next
  <2> QED
    BY <2>2 DEF Shown
<1>6. ASSUME NEW c \in Candidates, CooldownEnds(c) \/ ClaimExpires(c)
      PROVE  Shown
  <2>1. Breaker!Next
    BY <1>6, TimeShows DEF Breaker!Next
  <2> QED
    BY <2>1 DEF Shown
<1>7. CASE UNCHANGED vars
  <2>1. row' = row /\ foreground' = foreground
    BY <1>7 DEF vars, operations
  <2>2. States' = States /\ Authorities' = Authorities
    BY <2>1 DEF States, Authorities
  <2>3. Requests' = Requests
    BY <2>1 DEF Requests, RequestOf, Target
  <2> QED
    BY <2>2, <2>3 DEF Shown
<1> QED
  BY <1>1, <1>2, <1>3, <1>4, <1>5, <1>6, <1>7, RunEndShows,
     OthersShowNothing, CancelShows DEF Next

(* What the refinement presupposes of every state.                          *)
Sound == TypeOK /\ TokensAreDistinct /\ ClaimsAgree

LEMMA SoundAlways == Spec => []Sound
<1>1. Init => ClaimsAgree
  BY DEF Init, ClaimsAgree
<1>2. TypeOK /\ TokensAreDistinct /\ ClaimsAgree /\ [Next]_vars => ClaimsAgree'
  <2> SUFFICES ASSUME TypeOK, TokensAreDistinct, ClaimsAgree, [Next]_vars
               PROVE  ClaimsAgree'
    OBVIOUS
  <2>1. StepMoves
    BY NextMoves
  <2>2. minted' = minted \/ minted' = minted + 1
    BY OthersStayTyped
  <2> QED
    BY <2>1, <2>2, ClaimsStayAgreed
<1>3. HistoryInv => TokensAreDistinct
  BY DEF HistoryInv
<1> QED
  BY <1>1, <1>2, <1>3, TypeCorrect, HistoryCorrect, PTL DEF Spec, Sound

(* Quota fallback is a circuit breaker for every model candidate: what it   *)
(* shows of rows and operations is what CircuitBreaker allows, with any     *)
(* number of Sessions, candidates and options.                              *)
THEOREM ImplementsCircuitBreaker == Spec => CandidatesAreBreakers
<1>1. Init => Breaker!Init
  <2> SUFFICES ASSUME Init PROVE Breaker!Init
    OBVIOUS
  <2>1. States = [c \in Candidates |-> "closed"]
        /\ Authorities = [c \in Candidates |-> Breaker!Nobody]
    BY RowViews DEF Init, States, Authorities
  <2>2. Requests = [s \in Sessions |-> Breaker!Nowhere]
    BY DEF Init, Requests, RequestOf, Breaker!Nowhere
  <2> QED
    BY <2>1, <2>2
       DEF Breaker!Init,
           States, StateOf, Authorities, AuthorityOf, Requests, RequestOf
<1>2. Sound /\ [Next]_vars => [Breaker!Next]_(Breaker!vars)
  BY NextShows
     DEF Sound, Shown, Breaker!vars,
         States, StateOf, Authorities, AuthorityOf, Requests, RequestOf
<1> QED
  BY <1>1, <1>2, SoundAlways, PTL DEF Spec, CandidatesAreBreakers, Breaker!Spec

-----------------------------------------------------------------------------
(* What CircuitBreaker promises holds here.                                 *)
Laws == INSTANCE CircuitBreaker_proofs WITH
    Numbers <- Ids,
    state <- [c \in Candidates |->
        IF row[c].generation = 0 THEN "closed"
        ELSE IF row[c].cooling THEN "open" ELSE "halfOpen"],
    authority <- [c \in Candidates |->
        [grant |-> row[c].token, live |-> row[c].live,
         for |-> IF row[c].kind = "reservation" THEN row[c].owner ELSE None]],
    request <- [s \in Sessions |->
        IF foreground[s] = None THEN [to |-> None, by |-> 0]
        ELSE [to |-> Target(foreground[s]), by |-> foreground[s].claim.token]]

(* At most one operation holds the probe of a candidate: however claims     *)
(* expire, pass from a reservation to an operation or outlive a deleted     *)
(* row, two Sessions never both decide about its recovery.                  *)
THEOREM OneProbeAtATime == Spec => []OneProbe
<1>1. Laws!Spec => []Laws!OneTrial
  BY Laws!OneTrialAlways
<1>2. Laws!OneTrial <=> Breaker!OneTrial
  BY Zenon DEF Laws!OneTrial, Breaker!OneTrial, Laws!Holds, Breaker!Holds
<1>3. Laws!Init <=> Breaker!Init
  BY Zenon DEF Laws!Init, Breaker!Init, Laws!Nobody, Breaker!Nobody,
               Laws!Nowhere, Breaker!Nowhere
<1>4. [Laws!Next]_(Laws!vars) <=> [Breaker!Next]_(Breaker!vars)
  BY Zenon
     DEF Laws!Next, Breaker!Next, Laws!vars, Breaker!vars,
         Laws!Begin, Breaker!Begin, Laws!BeginReserved, Breaker!BeginReserved,
         Laws!Select, Breaker!Select, Laws!Fail, Breaker!Fail,
         Laws!FailInBackground, Breaker!FailInBackground,
         Laws!Succeed, Breaker!Succeed, Laws!End, Breaker!End,
         Laws!Reserve, Breaker!Reserve, Laws!GiveBack, Breaker!GiveBack,
         Laws!CoolDown, Breaker!CoolDown, Laws!Lapse, Breaker!Lapse,
         Laws!Sent, Breaker!Sent, Laws!Holds, Breaker!Holds,
         Laws!Unused, Breaker!Unused, Laws!Revoked, Breaker!Revoked,
         Laws!Directed, Breaker!Directed, Laws!Withdrawn, Breaker!Withdrawn,
         Laws!Nobody, Breaker!Nobody, Laws!Granted, Breaker!Granted,
         Laws!Nowhere, Breaker!Nowhere
<1>5. Breaker!Spec => Laws!Spec
  BY <1>3, <1>4, PTL DEF Breaker!Spec, Laws!Spec
<1>6. Sound /\ Breaker!OneTrial => OneProbe
  <2> SUFFICES ASSUME Sound, Breaker!OneTrial,
                      NEW s \in Sessions, NEW t \in Sessions,
                      foreground[s] # None, HoldsProbe(foreground[s]),
                      foreground[t] # None, HoldsProbe(foreground[t]),
                      Target(foreground[s]) = Target(foreground[t])
               PROVE  s = t
    BY DEF OneProbe
  <2>1. TypeOK /\ TokensAreDistinct /\ ClaimsAgree
    BY DEF Sound
  <2>2. ASSUME NEW r \in Sessions, foreground[r] # None,
               HoldsProbe(foreground[r])
        PROVE  Breaker!Holds(r) /\ Requests[r].to = Target(foreground[r])
    <3>1. /\ Requests[r] = [to |-> Target(foreground[r]),
                            by |-> foreground[r].claim.token]
          /\ HoldsProbe(foreground[r]) <=> Breaker!Holds(r)
      BY <2>1, <2>2, HoldersAgree
    <3> QED
      BY <2>2, <3>1
  <2>3. /\ Breaker!Holds(s) /\ Requests[s].to = Target(foreground[s])
        /\ Breaker!Holds(t) /\ Requests[t].to = Target(foreground[t])
    BY <2>2
  <2>4. Requests[s].to = Requests[t].to
    BY <2>3
  <2> QED
    BY <2>3, <2>4 DEF Breaker!OneTrial, Requests, RequestOf
<1>7. []Laws!OneTrial => []Breaker!OneTrial
  BY <1>2, PTL
<1>8. Spec => []Breaker!OneTrial
  BY <1>1, <1>5, <1>7, ImplementsCircuitBreaker DEF CandidatesAreBreakers
<1> QED
  BY <1>6, <1>8, SoundAlways, PTL

=============================================================================
