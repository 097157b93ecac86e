---------------------------- MODULE ResolverProofs ----------------------------
(***************************************************************************)
(* rfx_resolve is correct for every capability table with bounded hints    *)
(* and every set of preferences.                                           *)
(*                                                                         *)
(* The inductive invariant of the search says what the loops know half     *)
(* way: the combinations before the current position, in the order of the  *)
(* loops, are all accounted for (Sofar), and the one kept is one of them   *)
(* that beats every earlier valid one strictly and no later one is better  *)
(* (Kept).  When the outermost index runs past its candidates, every       *)
(* position is before the current one, which is Optimal.                   *)
(*                                                                         *)
(* What is special to the table of the product comes after it: how many    *)
(* stages are filled and what an explanation has room for.  The types are  *)
(* last, because those of an explanation rest on what Explain returns.     *)
(***************************************************************************)
EXTENDS Resolver, FiniteSetTheorems, TLAPS

\* Where the loops are.
Here == <<i, j, k>>

InRange ==
  pc = "scan" =>
    /\ i \in 1..(Len(cand["UP"]) + 1) /\ j \in 1..Len(cand["RR"]) /\ k \in 1..Len(cand["FG"])
    /\ i = Len(cand["UP"]) + 1 => j = 1 /\ k = 1
    /\ \A s \in Stages : Len(cand[s]) \in Nat /\ DOMAIN cand[s] = 1..Len(cand[s])

Args ==
  /\ caps \in Capabilities /\ pref \in Preferences
  /\ pc \in {"call", "scan", "done"}
  /\ bestScore \in Int
  /\ sel # Invalid => pc = "done"
  /\ pc = "call" => i = 1 /\ j = 1 /\ k = 1 /\ found = FALSE /\ bestScore = INT_MIN

\* No valid combination tried so far beats the best score.
Sofar ==
  pc = "scan" =>
    \A q \in Positions : Before(q, Here) /\ ValidAt(q) => found /\ ScoreAt(q) <= bestScore

\* The best so far is a combination tried, and the first of its score.
Kept ==
  /\ pc = "scan" /\ found =>
       \E p \in Positions :
         /\ Before(p, Here) /\ best = PickAt(p) /\ ValidAt(p) /\ bestScore = ScoreAt(p)
         /\ \A q \in Positions : Before(q, p) /\ ValidAt(q) => ScoreAt(q) < bestScore
  /\ pc = "scan" /\ ~ found => bestScore = INT_MIN

Inv == Args /\ InRange /\ Sofar /\ Kept

-------------------------------------------------------------------------------
\* The row findCaps finds is a row of the table.
LEMMA FoundRow ==
  ASSUME NEW t \in Seq(BackendCaps), NEW s, NEW id, Listed(t, s, id)
  PROVE  findCaps(t, s, id) \in BackendCaps
<1>1. PICK n \in Rows(t, s, id) : findCaps(t, s, id) = t[n]
  BY DEF Listed, findCaps
<1> QED
  BY <1>1 DEF Rows

\* The base outweighs the cost.
LEMMA ScoreArithmetic ==
  \A q \in 0..200, c \in 0..500, bonus \in {0, 200} :
    1000 + q - c + bonus \in Int /\ 1000 + q - c + bonus >= -1000
OBVIOUS

\* A score is a number above INT_MIN, however the weights come out.
LEMMA ScoreRange ==
  ASSUME NEW t \in Capabilities, NEW p \in Preferences, NEW s, NEW id
  PROVE  /\ StageScore(t, rfx_derive_policy(p), s, id) \in Int
         /\ StageScore(t, rfx_derive_policy(p), s, id) >= -1000
<1>1. PICK pol : pol = rfx_derive_policy(p)
  OBVIOUS
<1>2. pol.quality_weight \in {1, 2} /\ pol.cost_weight \in 1..5
  BY <1>1 DEF rfx_derive_policy
<1>3. CASE id = NONE \/ ~ Listed(t, s, id)
  BY <1>3 DEF StageScore, ScoreOver
<1>4. CASE id # NONE /\ Listed(t, s, id)
  <2>1. PICK b \in BackendCaps : b = findCaps(t, s, id)
    BY <1>4, FoundRow, ResolverAssumption
  <2>2. b.quality_tier \in 0..100 /\ b.cost_hint \in 0..100
    <3>1. MaxHint \in 0..100
      BY ResolverAssumption
    <3>2. b.quality_tier \in 0..MaxHint /\ b.cost_hint \in 0..MaxHint
      BY <2>1 DEF BackendCaps
    <3> QED
      BY <3>1, <3>2
  <2>3. PICK A, B, bonus :
          /\ A = pol.quality_weight * b.quality_tier
          /\ B = pol.cost_weight * b.cost_hint
          /\ bonus = (IF pol.prefer_native /\ b.family = "GENERIC" THEN 200 ELSE 0)
    OBVIOUS
  <2>4. StageScore(t, pol, s, id) = 1000 + A - B + bonus
    BY <1>4, <2>1, <2>3 DEF StageScore, ScoreOver
  <2>5. A \in 0..200 /\ B \in 0..500 /\ bonus \in {0, 200}
    <3>1. pol.quality_weight = 1 \/ pol.quality_weight = 2
      BY <1>2
    <3>2. pol.quality_weight * b.quality_tier \in 0..200
      BY ONLY <3>1, <2>2
    <3>3. pol.cost_weight * b.cost_hint \in 0..500
      <4>1. pol.cost_weight = 1 \/ pol.cost_weight = 2 \/ pol.cost_weight = 3
              \/ pol.cost_weight = 4 \/ pol.cost_weight = 5
        BY <1>2
      <4> QED
        BY ONLY <4>1, <2>2
    <3> QED
      BY <2>3, <3>2, <3>3
  <2>6. StageScore(t, pol, s, id) \in Int /\ StageScore(t, pol, s, id) >= -1000
    BY <2>4, <2>5, ScoreArithmetic
  <2> QED
    BY <1>1, <2>6
<1> QED
  BY <1>3, <1>4

LEMMA TotalRange ==
  ASSUME NEW t \in Capabilities, NEW p \in Preferences, NEW pick
  PROVE  Total(t, p, pick) \in Int /\ Total(t, p, pick) > INT_MIN
<1> DEFINE S(s) == StageScore(t, rfx_derive_policy(p), s, pick[s])
<1>1. \A s \in {"UP", "RR", "FG"} : S(s) \in Int /\ S(s) >= -1000
  BY ScoreRange
<1>2. Total(t, p, pick) = S("UP") + S("RR") + S("FG")
  BY DEF Total
<1> HIDE DEF S
<1> QED
  BY <1>1, <1>2, SMT DEF INT_MIN

-------------------------------------------------------------------------------
\* The candidates of a stage are a sequence.
LEMMA CandidatesType ==
  ASSUME NEW t \in Capabilities, NEW p \in Preferences, NEW s \in Stages
  PROVE  /\ Len(Candidates(t, p, s)) \in Nat
         /\ DOMAIN Candidates(t, p, s) = 1..Len(Candidates(t, p, s))
<1> DEFINE ov == p.override_backend[s]
           rows == EligibleRows(t, p, s)
           auto == AutoCandidates(t, p, s)
<1>1. Cardinality(rows) \in Nat
  <2>1. Len(t) \in Nat /\ DOMAIN t = 1..Len(t)
    BY ResolverAssumption
  <2>2. IsFiniteSet(1..Len(t))
    BY <2>1, FS_Interval
  <2>3. rows \subseteq 1..Len(t)
    BY <2>1 DEF EligibleRows
  <2> QED
    BY <2>2, <2>3, FS_Subset, FS_CardinalityType
<1>2. Len(auto) \in Nat /\ DOMAIN auto = 1..Len(auto)
  <2> DEFINE N == Cardinality(rows) + 1
             f == [n \in 1..N |-> IF n = 1 THEN NONE ELSE t[Nth(rows, n - 1)].id]
             X == {f[n] : n \in 1..N}
  <2>1. auto = f
    BY DEF AutoCandidates
  <2>2. N \in Nat
    BY <1>1
  <2>3. f \in [1..N -> X]
    OBVIOUS
  <2> HIDE DEF N, f, X
  <2>4. f \in Seq(X) /\ Len(f) = N
    BY <2>2, <2>3
  <2>5. DOMAIN f = 1..Len(f)
    BY <2>3, <2>4
  <2> HIDE DEF auto
  <2> QED
    BY <2>1, <2>2, <2>4, <2>5
<1>3. Candidates(t, p, s) \in {<<NONE>>, <<ov>>, <<>>, auto}
  BY DEF Candidates
<1>4. CASE Candidates(t, p, s) = auto
  BY <1>2, <1>4
<1>5. CASE Candidates(t, p, s) # auto
  <2>1. \A x : Len(<<x>>) = 1 /\ DOMAIN <<x>> = 1..1
    OBVIOUS
  <2>2. Len(<<>>) = 0 /\ DOMAIN <<>> = 1..0
    OBVIOUS
  <2> QED
    BY <1>3, <1>5, <2>1, <2>2
<1> QED
  BY <1>4, <1>5

-------------------------------------------------------------------------------
(* The search                                                                *)

\* Positions are triples of indices, and the loops visit them in order.
LEMMA PositionFacts ==
  ASSUME InRange, pc = "scan"
  PROVE  /\ \A q \in Positions :
              q[1] \in 1..Len(cand["UP"]) /\ q[2] \in 1..Len(cand["RR"]) /\ q[3] \in 1..Len(cand["FG"])
         /\ \A s \in Stages : Len(cand[s]) \in Nat
         /\ i \in Nat /\ j \in Nat /\ k \in Nat
<1>1. \A s \in {"UP", "RR", "FG"} : Len(cand[s]) \in Nat /\ DOMAIN cand[s] = 1..Len(cand[s])
  BY DEF InRange, Stages
<1>2. i \in Nat /\ j \in Nat /\ k \in Nat
  BY <1>1 DEF InRange
<1>3. \A q \in Positions :
        q[1] \in 1..Len(cand["UP"]) /\ q[2] \in 1..Len(cand["RR"]) /\ q[3] \in 1..Len(cand["FG"])
  BY <1>1 DEF Positions
<1> QED
  BY <1>1, <1>2, <1>3 DEF Stages

LEMMA InitInv == Init => Inv
BY DEF Init, Inv, Args, InRange, Sofar, Kept, Invalid, INT_MIN

\* Gathering starts the scan before the first combination.
LEMMA GatherInv == Inv /\ Gather => Inv'
<1> SUFFICES ASSUME Inv, Gather PROVE Inv'
  OBVIOUS
<1>1. i = 1 /\ j = 1 /\ k = 1 /\ found = FALSE /\ bestScore = INT_MIN
  BY DEF Inv, Args, Gather
<1>2. \A s \in Stages : Len(cand'[s]) \in Nat /\ DOMAIN cand'[s] = 1..Len(cand'[s])
  BY CandidatesType DEF Gather, Inv, Args
<1>3. pc' = "scan" => \A s \in Stages : cand'[s] # <<>>
  BY DEF Gather
<1>4. Args'
  BY DEF Gather, Inv, Args, Invalid
<1>5. InRange'
  <2> SUFFICES ASSUME pc' = "scan" PROVE InRange'
    BY DEF InRange
  <2>1. \A s \in Stages : Len(cand'[s]) >= 1
    <3> SUFFICES ASSUME NEW s \in Stages PROVE Len(cand'[s]) >= 1
      OBVIOUS
    <3> DEFINE f == cand'[s]
               X == {f[n] : n \in 1..Len(f)}
    <3>1. Len(f) \in Nat /\ DOMAIN f = 1..Len(f) /\ f # <<>>
      BY <1>2, <1>3
    <3> QED
      BY <3>1 DEF Gather
  <2>2. i' = 1 /\ j' = 1 /\ k' = 1
    BY <1>1 DEF Gather
  <2> QED
    BY <2>1, <2>2, <1>2 DEF InRange, Stages
<1>6. Sofar' /\ Kept'
  <2>1. \A q \in Positions' : ~ Before(q, Here)'
    <3>1. InRange' /\ pc' = "scan" => Positions' = (1..Len(cand'["UP"])) \X (1..Len(cand'["RR"])) \X (1..Len(cand'["FG"]))
      BY DEF InRange, Positions, Stages
    <3> QED
      BY <1>1, <1>2 DEF Positions, Before, Here, Gather, Stages
  <2> QED
    BY <2>1, <1>1 DEF Sofar, Kept, Gather
<1> QED
  BY <1>4, <1>5, <1>6 DEF Inv

\* After a round of the loops, what lies before them is what did and the
\* combination just tried.
LEMMA TryMoves ==
  ASSUME Inv, Try
  PROVE  /\ Here \in Positions
         /\ InRange'
         /\ \A q \in Positions : Before(q, Here') <=> (Before(q, Here) \/ q = Here)
<1> DEFINE Lu == Len(cand["UP"])
           Lr == Len(cand["RR"])
           Lf == Len(cand["FG"])
<1>1. /\ Lu \in Nat /\ Lr \in Nat /\ Lf \in Nat
      /\ i \in 1..Lu /\ j \in 1..Lr /\ k \in 1..Lf
  BY PositionFacts DEF Inv, InRange, Try, Stages
<1>2. \/ k < Lf /\ k' = k + 1 /\ j' = j /\ i' = i
      \/ k = Lf /\ j < Lr /\ k' = 1 /\ j' = j + 1 /\ i' = i
      \/ k = Lf /\ j = Lr /\ k' = 1 /\ j' = 1 /\ i' = i + 1
  BY <1>1 DEF Try, More
<1>3. Here \in Positions
  <2>1. \A s \in {"UP", "RR", "FG"} : DOMAIN cand[s] = 1..Len(cand[s])
    BY DEF Inv, InRange, Try, Stages
  <2> QED
    BY <1>1, <2>1 DEF Here, Positions
<1>4. InRange'
  <2>1. /\ i' \in 1..(Lu + 1) /\ j' \in 1..Lr /\ k' \in 1..Lf
        /\ i' = Lu + 1 => j' = 1 /\ k' = 1
    BY <1>1, <1>2
  <2>2. cand' = cand /\ pc' = "scan"
    BY DEF Try
  <2>3. \A s \in Stages : Len(cand[s]) \in Nat /\ DOMAIN cand[s] = 1..Len(cand[s])
    BY DEF Inv, InRange, Try
  <2> QED
    BY <2>1, <2>2, <2>3 DEF InRange
<1>5. ASSUME NEW q \in Positions
      PROVE  Before(q, Here') <=> (Before(q, Here) \/ q = Here)
  <2>1. q[1] \in 1..Lu /\ q[2] \in 1..Lr /\ q[3] \in 1..Lf
    BY PositionFacts DEF Inv, Try
  <2>2. q = Here <=> q[1] = i /\ q[2] = j /\ q[3] = k
    BY DEF Here, Positions
  <2>3. Before(q, Here') <=> \/ q[1] < i'
                             \/ q[1] = i' /\ q[2] < j'
                             \/ q[1] = i' /\ q[2] = j' /\ q[3] < k'
    BY DEF Before, Here
  <2>4. Before(q, Here) <=> \/ q[1] < i
                            \/ q[1] = i /\ q[2] < j
                            \/ q[1] = i /\ q[2] = j /\ q[3] < k
    BY DEF Before, Here
  <2> HIDE DEF Lu, Lr, Lf
  <2>5. CASE k < Lf /\ k' = k + 1 /\ j' = j /\ i' = i
    BY <1>1, <2>1, <2>2, <2>3, <2>4, <2>5
  <2>6. CASE k = Lf /\ j < Lr /\ k' = 1 /\ j' = j + 1 /\ i' = i
    BY <1>1, <2>1, <2>2, <2>3, <2>4, <2>6
  <2>7. CASE k = Lf /\ j = Lr /\ k' = 1 /\ j' = 1 /\ i' = i + 1
    BY <1>1, <2>1, <2>2, <2>3, <2>4, <2>7
  <2> QED
    BY <1>2, <2>5, <2>6, <2>7
<1> QED
  BY <1>3, <1>4, <1>5

\* A round keeps the account of what was tried.
LEMMA TryInv == Inv /\ Try => Inv'
<1> SUFFICES ASSUME Inv, Try PROVE Inv'
  OBVIOUS
<1>1. /\ cand' = cand /\ caps' = caps /\ pref' = pref /\ pc = "scan" /\ pc' = "scan" /\ sel' = sel
  BY DEF Try
<1>2. /\ Positions' = Positions
      /\ \A q : PickAt(q)' = PickAt(q) /\ (ValidAt(q)' <=> ValidAt(q)) /\ ScoreAt(q)' = ScoreAt(q)
  BY <1>1 DEF Positions, PickAt, At, ValidAt, ScoreAt
<1>3. \A q : ScoreAt(q) \in Int /\ ScoreAt(q) > INT_MIN
  BY TotalRange DEF Inv, Args, ScoreAt
<1>4. /\ Here \in Positions /\ InRange'
      /\ \A q \in Positions : Before(q, Here') <=> (Before(q, Here) \/ q = Here)
  BY TryMoves
<1>5. Improves(At(i, j, k)) <=> ValidAt(Here) /\ ScoreAt(Here) > bestScore
  BY DEF Improves, ValidAt, ScoreAt, PickAt, Here
<1>6. bestScore \in Int
  BY DEF Inv, Args
<1>7. CASE Improves(At(i, j, k))
  <2>1. best' = PickAt(Here) /\ found' = TRUE /\ bestScore' = ScoreAt(Here)
    BY <1>7 DEF Try, PickAt, ScoreAt, Here
  <2>2. \A q \in Positions : Before(q, Here) /\ ValidAt(q) => ScoreAt(q) < ScoreAt(Here)
    <3>1. \A q \in Positions : Before(q, Here) /\ ValidAt(q) => ScoreAt(q) <= bestScore
      BY <1>1 DEF Inv, Sofar
    <3> QED
      BY <3>1, <1>3, <1>5, <1>6, <1>7
  <2>3. Args'
    BY <2>1, <1>1, <1>3 DEF Inv, Args
  <2>4. Sofar'
    BY <2>1, <2>2, <1>2, <1>3, <1>4 DEF Sofar
  <2>5. Kept'
    BY <2>1, <2>2, <1>2, <1>4, <1>5, <1>7 DEF Kept
  <2> QED
    BY <1>4, <2>3, <2>4, <2>5 DEF Inv
<1>8. CASE ~ Improves(At(i, j, k))
  <2>1. best' = best /\ found' = found /\ bestScore' = bestScore
    BY <1>8 DEF Try
  <2>2. ValidAt(Here) => found /\ ScoreAt(Here) <= bestScore
    <3>1. ~ found => bestScore = INT_MIN
      BY <1>1 DEF Inv, Kept
    <3> QED
      BY <3>1, <1>3, <1>5, <1>6, <1>8
  <2>3. Args'
    BY <2>1, <1>1 DEF Inv, Args
  <2>4. Sofar'
    BY <2>1, <2>2, <1>1, <1>2, <1>4 DEF Inv, Sofar
  <2>5. Kept'
    BY <2>1, <1>1, <1>2, <1>4 DEF Inv, Kept
  <2> QED
    BY <1>4, <2>3, <2>4, <2>5 DEF Inv
<1> QED
  BY <1>7, <1>8

\* At the end of the loops everything has been tried.
LEMMA AllBefore ==
  ASSUME Inv, Return
  PROVE  \A q \in Positions : Before(q, Here)
<1>1. i = Len(cand["UP"]) + 1
  BY PositionFacts DEF Inv, InRange, Return, Stages
<1> QED
  BY <1>1, PositionFacts DEF Inv, Return, Before, Here, Stages

-------------------------------------------------------------------------------
\* What is known once the call has returned.
Returned ==
  /\ Optimal
  /\ pc = "done" /\ ~ sel.valid => \A q \in Positions : ~ ValidAt(q)

ReturnedInv == Inv /\ Returned

LEMMA ReturnStep == Inv /\ Return => Returned'
<1> SUFFICES ASSUME Inv, Return PROVE Returned'
  OBVIOUS
<1>1. cand' = cand /\ caps' = caps /\ pref' = pref /\ pc = "scan" /\ pc' = "done"
  BY DEF Return
<1>2. /\ Positions' = Positions
      /\ \A q : PickAt(q)' = PickAt(q) /\ (ValidAt(q)' <=> ValidAt(q)) /\ ScoreAt(q)' = ScoreAt(q)
  BY <1>1 DEF Positions, PickAt, At, ValidAt, ScoreAt
<1>3. \A q \in Positions : ValidAt(q) => found /\ ScoreAt(q) <= bestScore
  BY AllBefore, <1>1 DEF Inv, Sofar
<1>4. CASE found
  <2>1. sel'.valid = TRUE /\ sel'.backend = best
    BY <1>4 DEF Return
  <2>2. PICK p \in Positions :
          /\ best = PickAt(p) /\ ValidAt(p) /\ bestScore = ScoreAt(p)
          /\ \A q \in Positions : Before(q, p) /\ ValidAt(q) => ScoreAt(q) < bestScore
    BY <1>1, <1>4 DEF Inv, Kept
  <2> QED
    BY <2>1, <2>2, <1>2, <1>3 DEF Returned, Optimal
<1>5. CASE ~ found
  <2>1. sel'.valid = FALSE
    BY <1>5 DEF Return, Invalid
  <2> QED
    BY <2>1, <1>2, <1>3, <1>5 DEF Returned, Optimal
<1> QED
  BY <1>4, <1>5

\* Inv is inductive; the result of the search stays what Return made it.
LEMMA Inductive == Inv /\ [Next]_vars => Inv'
<1> SUFFICES ASSUME Inv, [Next]_vars PROVE Inv'
  OBVIOUS
<1>1. CASE Gather
  BY <1>1, GatherInv
<1>2. CASE Try
  BY <1>2, TryInv
<1>3. CASE Return
  BY <1>3 DEF Return, Inv, Args, InRange, Sofar, Kept, Invalid
<1>4. CASE UNCHANGED vars
  <2>1. /\ Positions' = Positions /\ Here' = Here
        /\ \A q : PickAt(q)' = PickAt(q) /\ (ValidAt(q)' <=> ValidAt(q)) /\ ScoreAt(q)' = ScoreAt(q)
    BY <1>4 DEF vars, Positions, PickAt, At, ValidAt, ScoreAt, Here
  <2>2. Args' /\ InRange'
    BY <1>4 DEF vars, Inv, Args, InRange
  <2>3. Sofar' /\ Kept'
    BY <1>4, <2>1 DEF vars, Inv, Sofar, Kept
  <2> QED
    BY <2>2, <2>3 DEF Inv
<1> QED
  BY <1>1, <1>2, <1>3, <1>4 DEF Next

\* A call that gathers no candidates for a stage has no combinations.
LEMMA GatherReturned == Inv /\ Gather => Returned'
<1> SUFFICES ASSUME Inv, Gather, pc' = "done" PROVE Returned'
  BY DEF Returned, Optimal, Done
<1>1. sel' = Invalid
  BY DEF Gather, Inv, Args
<1>2. PICK s \in Stages : cand'[s] = <<>>
  BY DEF Gather
<1>3. DOMAIN cand'[s] = {}
  BY <1>2
<1>4. Positions' = {}
  BY <1>3 DEF Positions, Stages
<1> QED
  BY <1>1, <1>4 DEF Returned, Optimal, Done, Invalid

LEMMA ReturnedInductive == ReturnedInv /\ [Next]_vars => ReturnedInv'
<1> SUFFICES ASSUME ReturnedInv, [Next]_vars PROVE Returned'
  BY Inductive DEF ReturnedInv
<1>1. CASE Gather
  BY <1>1, GatherReturned DEF ReturnedInv
<1>2. CASE Try
  BY <1>2 DEF Try, Returned, Optimal, Done
<1>3. CASE Return
  BY <1>3, ReturnStep DEF ReturnedInv
<1>4. CASE UNCHANGED vars
  <2>1. /\ Positions' = Positions
        /\ \A q : PickAt(q)' = PickAt(q) /\ (ValidAt(q)' <=> ValidAt(q)) /\ ScoreAt(q)' = ScoreAt(q)
    BY <1>4 DEF vars, Positions, PickAt, At, ValidAt, ScoreAt
  <2> QED
    BY <1>4, <2>1 DEF vars, ReturnedInv, Returned, Optimal, Done
<1> QED
  BY <1>1, <1>2, <1>3, <1>4 DEF Next

LEMMA InitReturned == Init => ReturnedInv
BY InitInv DEF Init, ReturnedInv, Returned, Optimal, Done

-------------------------------------------------------------------------------
\* For every table with unique rows and hints up to 100, every preference and
\* every set of overrides, rfx_resolve returns the first of the best valid
\* combinations (resolve.cpp:154-164).
THEOREM OptimalCorrect == Spec => []Optimal
<1>1. ReturnedInv => Optimal
  BY DEF ReturnedInv, Returned
<1> QED
  BY <1>1, InitReturned, ReturnedInductive, PTL DEF Spec

\* RFX_NO_VALID_SELECTION is returned only when no combination of candidates
\* is valid (resolve.cpp:149, 166).
THEOREM FailsOnlyForCauseCorrect == Spec => []FailsOnlyForCause
<1>1. ReturnedInv => FailsOnlyForCause
  BY DEF ReturnedInv, Returned, FailsOnlyForCause, Done
<1> QED
  BY <1>1, InitReturned, ReturnedInductive, PTL DEF Spec

-------------------------------------------------------------------------------
(* No overrides, no failure                                                  *)

\* The search runs over the candidates of its arguments.
Gathered ==
  pc # "call" => \A s \in Stages : cand[s] = Candidates(caps, pref, s)

LEMMA GatheredInductive == Gathered /\ [Next]_vars => Gathered'
<1> SUFFICES ASSUME Gathered, [Next]_vars PROVE Gathered'
  OBVIOUS
<1>1. CASE Gather
  BY <1>1 DEF Gather, Gathered
<1>2. CASE Try
  BY <1>2 DEF Try, Gathered
<1>3. CASE Return
  BY <1>3 DEF Return, Gathered
<1>4. CASE UNCHANGED vars
  BY <1>4 DEF vars, Gathered
<1> QED
  BY <1>1, <1>2, <1>3, <1>4 DEF Next

\* A stage without an override has candidates, and the first is to disable it.
LEMMA FirstIsNone ==
  ASSUME NEW t \in Capabilities, NEW p \in Preferences, NEW s \in Stages,
         p.override_backend[s] \in {AUTO, NONE}
  PROVE  1 \in DOMAIN Candidates(t, p, s) /\ Candidates(t, p, s)[1] = NONE
<1> DEFINE rows == EligibleRows(t, p, s)
<1>1. CASE s \notin p.stages_enabled \/ p.override_backend[s] = NONE
  <2>1. Candidates(t, p, s) = <<NONE>>
    BY <1>1 DEF Candidates
  <2> QED
    BY <2>1
<1>2. CASE ~ (s \notin p.stages_enabled \/ p.override_backend[s] = NONE)
  <2>1. Candidates(t, p, s) = AutoCandidates(t, p, s)
    BY <1>2 DEF Candidates
  <2>2. Cardinality(rows) \in Nat
    <3>1. Len(t) \in Nat /\ DOMAIN t = 1..Len(t)
      BY ResolverAssumption
    <3>2. IsFiniteSet(1..Len(t))
      BY <3>1, FS_Interval
    <3>3. rows \subseteq 1..Len(t)
      BY <3>1 DEF EligibleRows
    <3> QED
      BY <3>2, <3>3, FS_Subset, FS_CardinalityType
  <2>3. 1 \in 1..(Cardinality(rows) + 1)
    BY <2>2
  <2> QED
    BY <2>1, <2>3 DEF AutoCandidates
<1> QED
  BY <1>1, <1>2

\* Without overrides there is always a selection, however strict the rules of a
\* preference and whatever a table offers: every stage may stay disabled, and
\* that combination is one of those the loops of resolve.cpp try.
THEOREM AutoResolvesCorrect == Spec => []AutoResolves
<1>1. Init => Gathered
  BY DEF Init, Gathered
<1>2. ReturnedInv /\ Gathered => AutoResolves
  <2> SUFFICES ASSUME ReturnedInv, Gathered, Done, ~ sel.valid,
                      \A s \in Stages : pref.override_backend[s] \in {AUTO, NONE}
               PROVE  FALSE
    BY DEF AutoResolves
  <2>1. caps \in Capabilities /\ pref \in Preferences
    BY DEF ReturnedInv, Inv, Args
  <2>2. \A s \in Stages : 1 \in DOMAIN cand[s] /\ cand[s][1] = NONE
    <3> SUFFICES ASSUME NEW s \in Stages PROVE 1 \in DOMAIN cand[s] /\ cand[s][1] = NONE
      OBVIOUS
    <3>1. 1 \in DOMAIN Candidates(caps, pref, s) /\ Candidates(caps, pref, s)[1] = NONE
      BY <2>1, FirstIsNone
    <3> QED
      BY <3>1 DEF Gathered, Done
  <2> DEFINE first == <<1, 1, 1>>
  <2>3. first \in Positions
    BY <2>2 DEF Positions, Stages
  <2>4. PickAt(first) = [s \in Stages |-> NONE]
    BY <2>2 DEF PickAt, At, Stages
  <2>5. ValidAt(first)
    BY <2>4 DEF ValidAt, ComboValid
  <2>6. FailsOnlyForCause
    BY DEF ReturnedInv, Returned, FailsOnlyForCause, Done
  <2> QED
    BY <2>3, <2>5, <2>6 DEF FailsOnlyForCause
<1> QED
  BY <1>1, <1>2, GatheredInductive, InitReturned, ReturnedInductive, PTL DEF Spec

-------------------------------------------------------------------------------
(* The product's table fills as many stages as it can                        *)

\* What a row of the product's table can score at its worst and at its best:
\* the weights are at most 2 and 5, the debug bias is for generic rows.
LEMMA ProductRows ==
  /\ DOMAIN kTable = 1..11
  /\ \A n \in 1..11 :
       /\ kTable[n].quality_tier \in 0..100 /\ kTable[n].cost_hint \in 0..100
       /\ kTable[n].quality_tier - 5 * kTable[n].cost_hint >= -135
       /\ 2 * kTable[n].quality_tier - kTable[n].cost_hint <= 285
       /\ kTable[n].family = "GENERIC" =>
            2 * kTable[n].quality_tier - kTable[n].cost_hint <= 85
<1>1. DOMAIN kTable = 1..11
  BY DEF kTable
<1>2. \A n \in 1..11 : kTable[n].quality_tier \in 0..100 /\ kTable[n].cost_hint \in 0..100
  BY SMTT(30) DEF kTable, Row
<1>3. \A n \in 1..11 : kTable[n].quality_tier - 5 * kTable[n].cost_hint >= -135
  BY DEF kTable, Row
<1>4. \A n \in 1..11 : 2 * kTable[n].quality_tier - kTable[n].cost_hint <= 285
  BY DEF kTable, Row
<1>5. \A n \in 1..11 : kTable[n].family = "GENERIC" =>
        2 * kTable[n].quality_tier - kTable[n].cost_hint <= 85
  BY DEF kTable, Row
<1> QED
  BY <1>1, <1>2, <1>3, <1>4, <1>5, SMTT(30)

\* So two filled stages outweigh any one, and three any two.
LEMMA ProductScore ==
  ASSUME NEW ids, NEW p \in Preferences, NEW s, NEW id, id # NONE,
         Listed(WithSupported(ids), s, id)
  PROVE  StageScore(WithSupported(ids), rfx_derive_policy(p), s, id) \in 865..1285
<1> DEFINE t == WithSupported(ids)
<1>1. PICK n \in Rows(t, s, id) : findCaps(t, s, id) = t[n]
  BY DEF Listed, findCaps
<1>2. n \in 1..11 /\ t[n] = [kTable[n] EXCEPT !.supported = @ \/ kTable[n].id \in ids]
  BY ProductRows DEF Rows, WithSupported
<1>3. PICK b : b = t[n]
  OBVIOUS
<1>4. /\ b.quality_tier = kTable[n].quality_tier /\ b.cost_hint = kTable[n].cost_hint
      /\ b.family = kTable[n].family
  <2>1. \A m \in 1..11 : \A v :
          /\ [kTable[m] EXCEPT !.supported = v].quality_tier = kTable[m].quality_tier
          /\ [kTable[m] EXCEPT !.supported = v].cost_hint = kTable[m].cost_hint
          /\ [kTable[m] EXCEPT !.supported = v].family = kTable[m].family
    OBVIOUS
  <2> QED
    BY <1>2, <1>3, <2>1
<1>5. PICK pol : pol = rfx_derive_policy(p)
  OBVIOUS
<1>6. pol.quality_weight \in 1..2 /\ pol.cost_weight \in 1..5
  BY <1>5 DEF rfx_derive_policy
<1>7. PICK bonus : bonus = (IF pol.prefer_native /\ b.family = "GENERIC" THEN 200 ELSE 0)
  OBVIOUS
<1>8. StageScore(t, pol, s, id) = 1000 + pol.quality_weight * b.quality_tier - pol.cost_weight * b.cost_hint + bonus
  <2>1. findCaps(t, s, id) = b /\ Listed(t, s, id)
    BY <1>1, <1>3
  <2> HIDE DEF t
  <2>2. PICK A, B : A = pol.quality_weight * b.quality_tier /\ B = pol.cost_weight * b.cost_hint
    OBVIOUS
  <2>3. StageScore(t, pol, s, id) = 1000 + A - B + bonus
    BY <2>1, <2>2, <1>7 DEF StageScore, ScoreOver
  <2> QED
    BY <2>2, <2>3
<1>9. bonus \in {0, 200} /\ (bonus = 200 => b.family = "GENERIC")
  BY <1>7
<1> HIDE DEF t
<1>10. /\ b.quality_tier \in 0..100 /\ b.cost_hint \in 0..100
       /\ b.quality_tier - 5 * b.cost_hint >= -135
       /\ 2 * b.quality_tier - b.cost_hint <= 285
       /\ bonus = 200 => 2 * b.quality_tier - b.cost_hint <= 85
  BY <1>2, <1>4, <1>9, ProductRows
<1>11. 1000 + pol.quality_weight * b.quality_tier - pol.cost_weight * b.cost_hint + bonus \in 865..1285
  <2>1. PICK q, c, qw, cw :
          /\ q = b.quality_tier /\ c = b.cost_hint
          /\ qw = pol.quality_weight /\ cw = pol.cost_weight
    OBVIOUS
  <2>2. /\ q \in 0..100 /\ c \in 0..100 /\ qw \in 1..2 /\ cw \in 1..5
        /\ q - 5 * c >= -135 /\ 2 * q - c <= 285 /\ (bonus = 200 => 2 * q - c <= 85)
    BY <1>6, <1>9, <1>10, <2>1
  <2>3. PICK A, B : A = qw * q /\ B = cw * c
    OBVIOUS
  <2>4. A \in Int /\ A >= q /\ A <= 2 * q
    <3>1. qw = 1 \/ qw = 2
      BY <2>2
    <3> QED
      BY <2>2, <2>3, <3>1
  <2>5. B \in Int /\ B >= c /\ B <= 5 * c
    <3>1. cw = 1 \/ cw = 2 \/ cw = 3 \/ cw = 4 \/ cw = 5
      BY <2>2
    <3> QED
      BY <2>2, <2>3, <3>1
  <2>6. 1000 + A - B + bonus \in 865..1285
    BY <1>9, <2>2, <2>4, <2>5
  <2> QED
    BY <2>1, <2>3, <2>6
<1> QED
  BY <1>5, <1>8, <1>11 DEF t

Bit(id) == IF id = NONE THEN 0 ELSE 1

\* The stages a combination fills, counted one by one.
LEMMA FilledCount ==
  ASSUME NEW pick
  PROVE  Cardinality(Filled(pick)) = Bit(pick["UP"]) + Bit(pick["RR"]) + Bit(pick["FG"])
<1> DEFINE A == IF pick["UP"] = NONE THEN {} ELSE {"UP"}
           B == IF pick["RR"] = NONE THEN A ELSE A \cup {"RR"}
           C == IF pick["FG"] = NONE THEN B ELSE B \cup {"FG"}
<1>1. IsFiniteSet(A) /\ Cardinality(A) = Bit(pick["UP"])
  BY FS_EmptySet, FS_Singleton DEF Bit
<1>2. "RR" \notin A /\ "FG" \notin B
  OBVIOUS
<1>3. C = Filled(pick)
  BY DEF Filled, Stages
<1>4. IsFiniteSet(B) /\ Cardinality(B) = Bit(pick["UP"]) + Bit(pick["RR"])
  <2> HIDE DEF A
  <2>1. CASE pick["RR"] = NONE
    BY <1>1, <2>1 DEF Bit
  <2>2. CASE pick["RR"] # NONE
    BY <1>1, <1>2, <2>2, FS_AddElement DEF Bit
  <2> QED
    BY <2>1, <2>2
<1>5. Cardinality(C) = Bit(pick["UP"]) + Bit(pick["RR"]) + Bit(pick["FG"])
  <2> HIDE DEF B
  <2>1. CASE pick["FG"] = NONE
    BY <1>4, <2>1 DEF Bit
  <2>2. CASE pick["FG"] # NONE
    BY <1>4, <1>2, <2>2, FS_AddElement DEF Bit
  <2> QED
    BY <2>1, <2>2
<1> QED
  BY <1>3, <1>5

\* What m filled stages can score.
InBand(m, score) == score \in (865 * m)..(1285 * m)

\* A valid combination scores between its number of filled stages times the
\* worst and times the best a row can have.
LEMMA ScoreByFilled ==
  ASSUME NEW ids, NEW p \in Preferences, NEW pick, ComboValid(WithSupported(ids), pick)
  PROVE  \E m \in 0..3 :
           /\ m = Cardinality(Filled(pick))
           /\ InBand(m, Total(WithSupported(ids), p, pick))
<1> DEFINE S(s) == StageScore(WithSupported(ids), rfx_derive_policy(p), s, pick[s])
<1>1. /\ \A s \in Stages : pick[s] = NONE => S(s) = 0
      /\ \A s \in Stages : pick[s] # NONE => S(s) \in 865..1285
  <2>1. \A s \in Stages : pick[s] = NONE => S(s) = 0
    BY DEF StageScore, ScoreOver
  <2>2. \A s \in Stages : pick[s] # NONE => S(s) \in 865..1285
    <3> SUFFICES ASSUME NEW s \in Stages, pick[s] # NONE PROVE S(s) \in 865..1285
      OBVIOUS
    <3>1. Listed(WithSupported(ids), s, pick[s])
      BY DEF ComboValid
    <3> QED
      BY <3>1, ProductScore
  <2> QED
    BY <2>1, <2>2
<1>2. Total(WithSupported(ids), p, pick) = S("UP") + S("RR") + S("FG")
  BY DEF Total
<1>3. \A s \in Stages : /\ Bit(pick[s]) \in {0, 1}
                        /\ S(s) \in (865 * Bit(pick[s]))..(1285 * Bit(pick[s]))
  <2> HIDE DEF S
  <2>1. ASSUME NEW s \in Stages, pick[s] = NONE
        PROVE  Bit(pick[s]) = 0 /\ S(s) = 0
    BY <1>1, <2>1 DEF Bit
  <2>2. ASSUME NEW s \in Stages, pick[s] # NONE
        PROVE  Bit(pick[s]) = 1 /\ S(s) \in 865..1285
    BY <1>1, <2>2 DEF Bit
  <2>3. ASSUME NEW s \in Stages
        PROVE  Bit(pick[s]) \in {0, 1} /\ S(s) \in (865 * Bit(pick[s]))..(1285 * Bit(pick[s]))
    <3>1. CASE pick[s] = NONE
      BY <2>1, <3>1
    <3>2. CASE pick[s] # NONE
      BY <2>2, <3>2
    <3> QED
      BY <3>1, <3>2
  <2> QED
    BY <2>3
<1>4. PICK x, y, z : x = Bit(pick["UP"]) /\ y = Bit(pick["RR"]) /\ z = Bit(pick["FG"])
  OBVIOUS
<1>5. PICK u, v, w : u = S("UP") /\ v = S("RR") /\ w = S("FG")
  OBVIOUS
<1>6. /\ x \in {0, 1} /\ u \in (865 * x)..(1285 * x)
      /\ y \in {0, 1} /\ v \in (865 * y)..(1285 * y)
      /\ z \in {0, 1} /\ w \in (865 * z)..(1285 * z)
  <2> HIDE DEF S
  <2> QED
    BY <1>3, <1>4, <1>5 DEF Stages
<1>7. /\ x + y + z \in 0..3
      /\ u + v + w \in (865 * (x + y + z))..(1285 * (x + y + z))
  BY <1>6
<1>8. Total(WithSupported(ids), p, pick) = u + v + w
  BY <1>2, <1>5
<1>9. x + y + z = Cardinality(Filled(pick))
  BY <1>4, FilledCount
<1>10. PICK m : m = x + y + z
  OBVIOUS
<1>11. /\ m \in 0..3 /\ m = Cardinality(Filled(pick))
       /\ InBand(m, Total(WithSupported(ids), p, pick))
  BY <1>7, <1>8, <1>9, <1>10 DEF InBand
<1> QED
  BY <1>11

\* resolve.cpp:24 "Base 1000 so any valid real backend beats a disabled stage":
\* with the rows of backends.cpp, whatever the probes find and whatever the
\* application prefers, no valid combination fills more stages than the
\* selection.  It is the numbers of the table that make it so: with hints up to
\* 100 one stage at its best would outweigh two at their worst.
THEOREM FillsMostCorrect ==
  ASSUME \A t \in Capabilities : \E ids : t = WithSupported(ids)
  PROVE  Spec => []FillsMost
<1>1. ReturnedInv => FillsMost
  <2> SUFFICES ASSUME ReturnedInv, Done, sel.valid, NEW q \in Positions, ValidAt(q)
               PROVE  Cardinality(Filled(PickAt(q))) <= Cardinality(Filled(sel.backend))
    BY DEF FillsMost
  <2>1. PICK p \in Positions :
          sel.backend = PickAt(p) /\ ValidAt(p) /\ ScoreAt(q) <= ScoreAt(p)
    BY DEF ReturnedInv, Returned, Optimal
  <2>2. PICK ids : caps = WithSupported(ids)
    BY DEF ReturnedInv, Inv, Args
  <2>3. pref \in Preferences
    BY DEF ReturnedInv, Inv, Args
  <2>4. PICK m \in 0..3 : m = Cardinality(Filled(PickAt(p))) /\ InBand(m, ScoreAt(p))
    BY <2>1, <2>2, <2>3, ScoreByFilled DEF ValidAt, ScoreAt
  <2>5. PICK n \in 0..3 : n = Cardinality(Filled(PickAt(q))) /\ InBand(n, ScoreAt(q))
    BY <2>2, <2>3, ScoreByFilled DEF ValidAt, ScoreAt
  <2>6. n <= m
    BY <2>1, <2>4, <2>5 DEF InBand
  <2> QED
    BY <2>1, <2>4, <2>5, <2>6
<1> QED
  BY <1>1, InitReturned, ReturnedInductive, PTL DEF Spec

-------------------------------------------------------------------------------
(* The selection obeys the preference                                        *)

\* The rows up to the n-th of the table.
Below(rows, n) == {l \in rows : l <= n}

LEMMA BelowFinite ==
  ASSUME NEW N \in Nat, NEW rows \in SUBSET (1..N), NEW n
  PROVE  /\ IsFiniteSet(Below(rows, n)) /\ Cardinality(Below(rows, n)) \in Nat
         /\ Cardinality(rows) \in Nat /\ Cardinality(Below(rows, n)) <= Cardinality(rows)
<1>1. IsFiniteSet(1..N)
  BY FS_Interval
<1>2. IsFiniteSet(rows)
  BY <1>1, FS_Subset
<1>3. Below(rows, n) \in SUBSET rows
  BY DEF Below
<1> QED BY <1>2, <1>3, FS_Subset, FS_CardinalityType

LEMMA RowNumbers ==
  ASSUME NEW N \in Nat, NEW rows \in SUBSET (1..N)
  PROVE  \A l \in rows : l \in Nat /\ 1 <= l /\ l <= N
OBVIOUS

LEMMA BelowIs ==
  ASSUME NEW rows, NEW n
  PROVE  \A l : l \in Below(rows, n) <=> l \in rows /\ l <= n
BY DEF Below

\* The first row up to which there are c.
LEMMA FirstWith ==
  ASSUME NEW N \in Nat, NEW rows \in SUBSET (1..N), NEW c \in 1..Cardinality(rows)
  PROVE  \E m \in 0..N : /\ Cardinality(Below(rows, m)) >= c
                         /\ \A l \in 0..N : l < m => Cardinality(Below(rows, l)) < c
<1> DEFINE T == {X \in SUBSET (1..N) : \E m \in 0..N : X = 1..m /\ Cardinality(Below(rows, m)) >= c}
<1>1. IsFiniteSet(1..N)
  BY FS_Interval
<1>2. T \subseteq FiniteSubsetsOf(1..N)
  BY <1>1, FS_FiniteSubsetsOfFinite
<1>3. 1..N \in T
  <2>1. Below(rows, N) = rows
    BY RowNumbers DEF Below
  <2>2. Cardinality(Below(rows, N)) >= c
    BY <2>1, BelowFinite
  <2> QED BY <2>2
<1>4. PICK X \in T : \A Y \in T : ~ (<<Y, X>> \in StrictSubsetOrdering(1..N))
  <2>1. T # {}
    BY <1>3
  <2> HIDE DEF T
  <2> QED BY <1>2, <2>1, FS_StrictSubsetOrderingWellFounded, WFMin
<1>5. PICK m \in 0..N : X = 1..m /\ Cardinality(Below(rows, m)) >= c
  OBVIOUS
<1>6. ASSUME NEW l \in 0..N, l < m PROVE Cardinality(Below(rows, l)) < c
  <2>1. 1..l \in SUBSET (1..N) /\ 1..l \subseteq X /\ m \in X /\ m \notin 1..l
    BY <1>5, <1>6
  <2>2. <<1..l, X>> \in StrictSubsetOrdering(1..N)
    BY <2>1 DEF StrictSubsetOrdering
  <2>3. 1..l \notin T
    BY <1>4, <2>2
  <2>4. ~ (Cardinality(Below(rows, l)) >= c)
    BY <2>1, <2>3
  <2>5. Cardinality(Below(rows, l)) \in Nat
    BY BelowFinite
  <2> QED BY <2>4, <2>5
<1> QED BY <1>5, <1>6

\* Every number of rows is reached, at a row.
LEMMA NthExists ==
  ASSUME NEW N \in Nat, NEW rows \in SUBSET (1..N), NEW c \in 1..Cardinality(rows)
  PROVE  Nth(rows, c) \in rows /\ Cardinality(Below(rows, Nth(rows, c))) = c
<1>1. PICK m \in 0..N : /\ Cardinality(Below(rows, m)) >= c
                        /\ \A l \in 0..N : l < m => Cardinality(Below(rows, l)) < c
  BY FirstWith
<1>2. \A l \in rows : l \in Nat /\ 1 <= l /\ l <= N
  BY RowNumbers
<1>3. c \in Nat \ {0} /\ m \in Nat
  BY BelowFinite
<1>4. m # 0
  <2> SUFFICES ASSUME m = 0 PROVE FALSE
    OBVIOUS
  <2>1. \A l \in rows : ~ (l <= m)
    BY <1>2
  <2>2. Below(rows, m) = {}
    BY <2>1, BelowIs
  <2> QED BY <1>1, <1>3, <2>2, FS_EmptySet
<1>5. PICK B, C : B = Below(rows, m - 1) /\ C = Below(rows, m)
  OBVIOUS
<1>6. Cardinality(B) \in Nat /\ Cardinality(B) < c /\ IsFiniteSet(B)
  <2>1. m - 1 \in 0..N /\ m - 1 < m
    BY <1>3, <1>4
  <2> QED BY <1>1, <1>5, <2>1, BelowFinite
<1>7. Cardinality(C) \in Nat /\ Cardinality(C) >= c
  BY <1>1, <1>5, BelowFinite
<1>8. \A l : l \in C <=> l \in B \/ (l = m /\ m \in rows)
  <2>1. \A l \in rows : l <= m <=> l <= m - 1 \/ l = m
    BY <1>2, <1>3
  <2>2. \A l : (l \in C <=> l \in rows /\ l <= m) /\ (l \in B <=> l \in rows /\ l <= m - 1)
    BY <1>5, BelowIs
  <2>3. m <= m
    BY <1>3
  <2> QED BY <2>1, <2>2, <2>3
<1>9. m \in rows
  <2> SUFFICES ASSUME m \notin rows PROVE FALSE
    OBVIOUS
  <2>1. C = B
    BY <1>8
  <2> QED BY <1>3, <1>6, <1>7, <2>1
<1>10. C = B \cup {m}
  BY <1>8, <1>9
<1>11. Cardinality(C) <= Cardinality(B) + 1
  BY <1>6, <1>10, FS_AddElement
<1>12. Cardinality(Below(rows, m)) = c
  BY <1>3, <1>5, <1>6, <1>7, <1>11
<1> QED BY <1>9, <1>12 DEF Nth, Below

\* A row is found at the place its number of predecessors gives.
LEMMA NthIs ==
  ASSUME NEW N \in Nat, NEW rows \in SUBSET (1..N), NEW n \in rows
  PROVE  /\ Cardinality(Below(rows, n)) \in 1..Cardinality(rows)
         /\ Nth(rows, Cardinality(Below(rows, n))) = n
<1>1. \A l \in rows : l \in Nat /\ 1 <= l /\ l <= N
  BY RowNumbers
<1>2. \A m \in rows : IsFiniteSet(Below(rows, m)) /\ m \in Below(rows, m)
  <2>1. \A m \in rows : m <= m
    BY <1>1
  <2> QED BY <2>1, BelowIs, BelowFinite
<1>3. PICK c : c = Cardinality(Below(rows, n))
  OBVIOUS
<1>4. c \in 1..Cardinality(rows)
  <2>1. c # 0
    BY <1>2, <1>3, FS_EmptySet
  <2>2. c \in Nat /\ Cardinality(rows) \in Nat /\ c <= Cardinality(rows)
    BY <1>3, BelowFinite
  <2> QED BY <2>1, <2>2
<1>5. ASSUME NEW m \in rows, NEW l \in rows, m < l PROVE Cardinality(Below(rows, m)) # Cardinality(Below(rows, l))
  <2>1. \A x \in rows : x <= m => x <= l
    BY <1>1, <1>5
  <2>2. Below(rows, m) \in SUBSET Below(rows, l)
    BY <2>1, BelowIs
  <2>3. ~ (l <= m)
    BY <1>1, <1>5
  <2>4. l \notin Below(rows, m) /\ l \in Below(rows, l)
    BY <1>2, <2>3, BelowIs
  <2> QED BY <1>2, <2>2, <2>4, FS_Subset
<1>6. Nth(rows, c) \in rows /\ Cardinality(Below(rows, Nth(rows, c))) = c
  BY <1>4, NthExists
<1>7. Nth(rows, c) = n
  <2>1. PICK m \in rows : m = Nth(rows, c)
    BY <1>6
  <2>2. m \in Nat /\ n \in Nat
    BY <1>1
  <2>3. m < n \/ n < m \/ m = n
    BY <2>2
  <2> QED BY <1>3, <1>5, <1>6, <2>1, <2>3
<1> QED BY <1>3, <1>4, <1>7

\* Eligible rows of a table are numbers of rows.
LEMMA EligibleNumbers ==
  ASSUME NEW t \in Capabilities, NEW p \in Preferences, NEW s
  PROVE  /\ Len(t) \in Nat /\ DOMAIN t = 1..Len(t)
         /\ EligibleRows(t, p, s) \in SUBSET (1..Len(t))
<1>1. Len(t) \in Nat /\ DOMAIN t = 1..Len(t)
  BY ResolverAssumption
<1> QED BY <1>1 DEF EligibleRows

\* In a table with no two rows of a stage alike an id stands for its row.
LEMMA RowOf ==
  ASSUME NEW t \in Capabilities, NEW n \in DOMAIN t
  PROVE  /\ Listed(t, t[n].stage, t[n].id)
         /\ findCaps(t, t[n].stage, t[n].id) = t[n]
<1>1. \A m \in DOMAIN t : t[m].stage = t[n].stage /\ t[m].id = t[n].id => m = n
  BY ResolverAssumption
<1>2. Rows(t, t[n].stage, t[n].id) = {n}
  BY <1>1 DEF Rows
<1> QED BY <1>2 DEF Listed, findCaps

\* What a stage may get: an override the table supports, or a row the policy
\* lets the resolver choose, and nothing where the stage is not requested.
Allowed(t, p, s, id) ==
  LET ov == p.override_backend[s]
      b == findCaps(t, s, id)
  IN /\ s \in p.stages_enabled /\ ov # NONE
     /\ Listed(t, s, id) /\ b.supported
     /\ ov = id \/ (ov = AUTO /\ Eligible(b, s, rfx_derive_policy(p)))

LEMMA CandidatesAllowed ==
  ASSUME NEW t \in Capabilities, NEW p \in Preferences, NEW s \in Stages,
         NEW n \in DOMAIN Candidates(t, p, s), Candidates(t, p, s)[n] # NONE
  PROVE  Allowed(t, p, s, Candidates(t, p, s)[n])
<1> DEFINE ov == p.override_backend[s]
           rows == EligibleRows(t, p, s)
<1>1. s \in p.stages_enabled /\ ov # NONE
  <2> SUFFICES ASSUME s \notin p.stages_enabled \/ ov = NONE PROVE FALSE
    OBVIOUS
  <2>1. Candidates(t, p, s) = <<NONE>>
    BY DEF Candidates
  <2> QED BY <2>1
<1>2. CASE ov # AUTO
  <2>1. CASE Listed(t, s, ov) /\ findCaps(t, s, ov).supported
    <3>1. Candidates(t, p, s) = <<ov>>
      BY <1>1, <1>2, <2>1 DEF Candidates
    <3>2. Candidates(t, p, s)[n] = ov
      BY <3>1
    <3> QED BY <1>1, <2>1, <3>2 DEF Allowed
  <2>2. CASE ~ (Listed(t, s, ov) /\ findCaps(t, s, ov).supported)
    <3>1. Candidates(t, p, s) = <<>>
      BY <1>1, <1>2, <2>2 DEF Candidates
    <3> QED BY <3>1
  <2> QED BY <2>1, <2>2
<1>3. CASE ov = AUTO
  <2>1. Candidates(t, p, s) = AutoCandidates(t, p, s)
    BY <1>1, <1>3 DEF Candidates
  <2>2. Cardinality(rows) \in Nat
    BY EligibleNumbers, BelowFinite
  <2>3. n \in 1..(Cardinality(rows) + 1)
    BY <2>1 DEF AutoCandidates
  <2>4. AutoCandidates(t, p, s)[n] = IF n = 1 THEN NONE ELSE t[Nth(rows, n - 1)].id
    BY <2>3 DEF AutoCandidates
  <2>5. n # 1 /\ Candidates(t, p, s)[n] = t[Nth(rows, n - 1)].id
    BY <2>1, <2>4
  <2>6. n - 1 \in 1..Cardinality(rows)
    BY <2>2, <2>3, <2>5
  <2>7. PICK m \in rows : m = Nth(rows, n - 1)
    BY <2>6, EligibleNumbers, NthExists
  <2>8. m \in DOMAIN t /\ Eligible(t[m], s, rfx_derive_policy(p))
    BY <2>7 DEF EligibleRows
  <2>9. Listed(t, s, t[m].id) /\ findCaps(t, s, t[m].id) = t[m]
    BY <2>8, RowOf DEF Eligible
  <2>10. t[m].supported
    BY <2>8 DEF Eligible
  <2>11. Candidates(t, p, s)[n] = t[m].id
    BY <2>5, <2>7
  <2> QED BY <1>1, <1>3, <2>8, <2>9, <2>10, <2>11 DEF Allowed
<1> QED BY <1>2, <1>3

\* No stage gets anything else.
ObeysPreference ==
  Done /\ sel.valid => \A s \in Filled(sel.backend) : Allowed(caps, pref, s, sel.backend[s])

LEMMA SelectionAllowed == ReturnedInv /\ Gathered => ObeysPreference
<1> SUFFICES ASSUME ReturnedInv, Gathered, Done, sel.valid, NEW s \in Filled(sel.backend)
             PROVE  Allowed(caps, pref, s, sel.backend[s])
  BY DEF ObeysPreference
<1>1. caps \in Capabilities /\ pref \in Preferences
  BY DEF ReturnedInv, Inv, Args
<1>2. PICK p \in Positions : sel.backend = PickAt(p)
  BY DEF ReturnedInv, Returned, Optimal
<1>3. s \in Stages /\ sel.backend[s] # NONE
  BY DEF Filled
<1>4. \E n \in DOMAIN cand[s] : sel.backend[s] = cand[s][n]
  <2>1. p[1] \in DOMAIN cand["UP"] /\ p[2] \in DOMAIN cand["RR"] /\ p[3] \in DOMAIN cand["FG"]
    BY DEF Positions
  <2>2. sel.backend = At(p[1], p[2], p[3])
    BY <1>2 DEF PickAt
  <2>3. CASE s = "UP"
    BY <1>3, <2>1, <2>2, <2>3 DEF At, Stages
  <2>4. CASE s = "RR"
    BY <1>3, <2>1, <2>2, <2>4 DEF At, Stages
  <2>5. CASE s = "FG"
    BY <1>3, <2>1, <2>2, <2>5 DEF At, Stages
  <2> QED BY <1>3, <2>3, <2>4, <2>5 DEF Stages
<1>5. cand[s] = Candidates(caps, pref, s)
  BY <1>3 DEF Gathered, Done
<1> QED BY <1>1, <1>3, <1>4, <1>5, CandidatesAllowed

\* Whatever the table: a selection leaves a stage alone that was not requested
\* or switched off, gives an override what it asks for, and gives an automatic
\* stage a supported backend that the policy lets through, even where another
\* stage's override is against the policy (candidates in resolve.cpp).
THEOREM ObeysPreferenceCorrect == Spec => []ObeysPreference
<1>1. Init => Gathered
  BY DEF Init, Gathered
<1> QED
  BY <1>1, SelectionAllowed, GatheredInductive, InitReturned, ReturnedInductive, PTL DEF Spec

-------------------------------------------------------------------------------
(* The explanation                                                           *)

\* The explanation a selection carries is that of its arguments.
Explained ==
  sel.valid => \A s \in Stages : sel.explanation[s] = Explain(caps, pref, s, sel.backend[s])

LEMMA ExplainedInductive == Explained /\ [Next]_vars => Explained'
<1> SUFFICES ASSUME Explained, [Next]_vars PROVE Explained'
  OBVIOUS
<1>1. CASE Gather
  BY <1>1 DEF Gather, Explained
<1>2. CASE Try
  BY <1>2 DEF Try, Explained
<1>3. CASE Return
  <2>1. CASE found
    <3>1. /\ sel'.backend = best
          /\ sel'.explanation = [s \in Stages |-> Explain(caps, pref, s, best[s])]
      BY <1>3, <2>1 DEF Return
    <3>2. \A s \in Stages : sel'.explanation[s] = Explain(caps, pref, s, sel'.backend[s])
      BY <3>1
    <3>3. caps' = caps /\ pref' = pref
      BY <1>3 DEF Return
    <3> QED BY <3>2, <3>3 DEF Explained
  <2>2. CASE ~ found
    <3>1. ~ sel'.valid
      BY <1>3, <2>2 DEF Return, Invalid
    <3> QED BY <3>1 DEF Explained
  <2> QED BY <2>1, <2>2
<1>4. CASE UNCHANGED vars
  BY <1>4 DEF vars, Explained
<1> QED
  BY <1>1, <1>2, <1>3, <1>4 DEF Next

\* Six rows at most.
LEMMA SixAtMost ==
  ASSUME NEW true, true \subseteq {1, 2, 3, 5, 6, 9}
  PROVE  IsFiniteSet(true) /\ Cardinality(true) <= 6
<1> DEFINE A == {1} B == A \cup {2} C == B \cup {3} D == C \cup {5} E == D \cup {6} F == E \cup {9}
<1>1. IsFiniteSet(A) /\ Cardinality(A) = 1
  BY FS_Singleton
<1>2. IsFiniteSet(B) /\ Cardinality(B) = 2
  BY <1>1, FS_AddElement
<1>3. IsFiniteSet(C) /\ Cardinality(C) = 3
  BY <1>2, FS_AddElement
<1>4. IsFiniteSet(D) /\ Cardinality(D) = 4
  BY <1>3, FS_AddElement
<1>5. IsFiniteSet(E) /\ Cardinality(E) = 5
  BY <1>4, FS_AddElement
<1>6. IsFiniteSet(F) /\ Cardinality(F) = 6
  BY <1>5, FS_AddElement
<1>7. true \in SUBSET F
  OBVIOUS
<1> HIDE DEF F
<1>8. IsFiniteSet(true) /\ Cardinality(true) <= Cardinality(F)
  BY <1>6, <1>7, FS_Subset
<1> QED BY <1>6, <1>8

\* The ninth of ten reasons is kept where the fourth, the seventh and the eighth
\* do not hold.
LEMMA NinthKept ==
  ASSUME NEW reasons, DOMAIN reasons = 1..10,
         reasons[9].holds, ~ reasons[4].holds, ~ reasons[7].holds, ~ reasons[8].holds
  PROVE  \E n \in DOMAIN AddReasons(reasons) : AddReasons(reasons)[n] = reasons[9].reason
<1> DEFINE true == {n \in DOMAIN reasons : reasons[n].holds}
<1>1. true \in SUBSET (1..10) /\ 9 \in true /\ 10 \in Nat
  OBVIOUS
<1>2. Below(true, 9) \subseteq {1, 2, 3, 5, 6, 9}
  BY DEF Below
<1>3. AddReasons(reasons) =
        [n \in 1..(IF Cardinality(true) < RFX_MAX_REASONS THEN Cardinality(true) ELSE RFX_MAX_REASONS)
           |-> reasons[Nth(true, n)].reason]
  BY DEF AddReasons
<1> HIDE DEF true
<1>4. PICK c : c = Cardinality(Below(true, 9))
  OBVIOUS
<1>5. c \in 1..Cardinality(true) /\ Nth(true, c) = 9 /\ Cardinality(true) \in Nat
  BY <1>1, <1>4, NthIs, BelowFinite
<1>6. c <= 6
  BY <1>2, <1>4, SixAtMost
<1>7. c \in 1..(IF Cardinality(true) < RFX_MAX_REASONS THEN Cardinality(true) ELSE RFX_MAX_REASONS)
  BY <1>5, <1>6 DEF RFX_MAX_REASONS
<1> QED BY <1>3, <1>5, <1>7

\* The rows that need a family in another stage, but for the reserved one: vendor
\* rows that are the best of their stage.
LEMMA FamilyRows ==
  ASSUME NEW n \in DOMAIN kTable, kTable[n].requires_family_stage # NONE, kTable[n].id # "FSR_FG"
  PROVE  /\ ~ kTable[n].deterministic /\ kTable[n].family # "GENERIC" /\ kTable[n].quality_tier \in Nat
         /\ \A m \in DOMAIN kTable : kTable[m].stage = kTable[n].stage =>
              kTable[m].quality_tier \in 0..kTable[n].quality_tier
<1>1. DOMAIN kTable = 1..11
  BY DEF kTable
<1>2. n \in {7, 10}
  BY <1>1 DEF kTable, Row
<1>3. CASE n = 7
  BY <1>1, <1>3 DEF kTable, Row, NONE
<1>4. CASE n = 10
  BY <1>1, <1>4 DEF kTable, Row, NONE
<1> QED BY <1>2, <1>3, <1>4

\* Nothing is higher than the highest of a set.
LEMMA HighestIs ==
  ASSUME NEW q \in Nat, NEW tiers, tiers \subseteq 0..q, q \in tiers
  PROVE  Highest(tiers) = q
<1>1. \A t \in tiers \cup {0} : (\A u \in tiers \cup {0} : u <= t) <=> t = q
  OBVIOUS
<1> QED BY <1>1 DEF Highest

\* A row of the product's table that a device may support.
LEMMA ProductRow ==
  ASSUME NEW ids, "FSR_FG" \notin ids, NEW n \in DOMAIN kTable,
         NEW b, b = WithSupported(ids)[n], b.supported, b.requires_family_stage # NONE
  PROVE  /\ ~ b.deterministic /\ b.family # "GENERIC"
         /\ b.quality_tier \in Nat /\ Highest(StageTiers(WithSupported(ids), b.stage)) = b.quality_tier
<1> DEFINE t == WithSupported(ids)
<1>1. DOMAIN t = DOMAIN kTable
  BY DEF WithSupported
<1>2. \A m \in DOMAIN kTable : t[m] = [kTable[m] EXCEPT !.supported = @ \/ kTable[m].id \in ids]
  BY DEF WithSupported
<1>3. \A m \in DOMAIN kTable :
        /\ t[m].stage = kTable[m].stage /\ t[m].id = kTable[m].id /\ t[m].family = kTable[m].family
        /\ t[m].deterministic = kTable[m].deterministic /\ t[m].quality_tier = kTable[m].quality_tier
        /\ t[m].requires_family_stage = kTable[m].requires_family_stage
  <2> HIDE DEF t
  <2>1. DOMAIN kTable = 1..11
    BY DEF kTable
  <2>2. \A m \in 1..11 : \A v : LET r == [kTable[m] EXCEPT !.supported = v]
                            IN /\ r.stage = kTable[m].stage /\ r.id = kTable[m].id
                               /\ r.family = kTable[m].family
                               /\ r.deterministic = kTable[m].deterministic
                               /\ r.quality_tier = kTable[m].quality_tier
                               /\ r.requires_family_stage = kTable[m].requires_family_stage
    OBVIOUS
  <2> SUFFICES ASSUME NEW m \in DOMAIN kTable
               PROVE  /\ t[m].stage = kTable[m].stage /\ t[m].id = kTable[m].id /\ t[m].family = kTable[m].family
                      /\ t[m].deterministic = kTable[m].deterministic /\ t[m].quality_tier = kTable[m].quality_tier
                      /\ t[m].requires_family_stage = kTable[m].requires_family_stage
    OBVIOUS
  <2>3. PICK v : t[m] = [kTable[m] EXCEPT !.supported = v]
    BY <1>2
  <2>4. m \in 1..11
    BY <2>1
  <2> QED BY <2>2, <2>3, <2>4
<1>4. kTable[n].id # "FSR_FG"
  <2>1. b.supported = (kTable[n].supported \/ kTable[n].id \in ids)
    <3>1. \E r : kTable[n] = r /\ DOMAIN r = DOMAIN [kTable[n] EXCEPT !.supported = TRUE] /\ "supported" \in DOMAIN r
      BY DEF kTable, Row
    <3> QED BY <1>2, <3>1
  <2>2. ~ kTable[n].supported
    BY DEF kTable, Row
  <2> QED BY <2>1, <2>2
<1>5. /\ ~ kTable[n].deterministic /\ kTable[n].family # "GENERIC" /\ kTable[n].quality_tier \in Nat
      /\ \A m \in DOMAIN kTable : kTable[m].stage = kTable[n].stage =>
           kTable[m].quality_tier \in 0..kTable[n].quality_tier
  BY <1>3, <1>4, FamilyRows
<1>6. StageTiers(t, b.stage) \subseteq 0..b.quality_tier /\ b.quality_tier \in StageTiers(t, b.stage)
  <2> HIDE DEF t
  <2> QED BY <1>1, <1>3, <1>5 DEF StageTiers, t
<1>7. b.quality_tier \in Nat
  BY <1>3, <1>5
<1>8. Highest(StageTiers(t, b.stage)) = b.quality_tier
  <2> HIDE DEF t
  <2> QED BY <1>6, <1>7, HighestIs
<1> QED BY <1>3, <1>5, <1>7, <1>8

LEMMA TenOf ==
  ASSUME NEW a, NEW b, NEW c, NEW d, NEW e, NEW f, NEW g, NEW h, NEW l, NEW m,
         NEW r, r = <<a, b, c, d, e, f, g, h, l, m>>
  PROVE  DOMAIN r = 1..10 /\ r[4] = d /\ r[7] = g /\ r[8] = h /\ r[9] = l
OBVIOUS

LEMMA ReasonsOf ==
  ASSUME NEW t, NEW p, NEW s, NEW id,
         NEW r, r = Reasons(t, p, s, id), NEW b, b = findCaps(t, s, id)
  PROVE  /\ DOMAIN r = 1..10 /\ r[9].reason = "CONSTRAINT_SATISFIED"
         /\ r[9].holds <=> b.requires_family_stage # NONE
         /\ r[4].holds <=> b.quality_tier < Highest(StageTiers(t, s))
         /\ r[7].holds <=> rfx_derive_policy(p).require_deterministic /\ b.deterministic
         /\ r[8].holds <=> rfx_derive_policy(p).prefer_native /\ b.family = "GENERIC"
<1> DEFINE Why(holds, reason) == [holds |-> holds, reason |-> reason]
           pol == rfx_derive_policy(p)
<1>1. /\ DOMAIN r = 1..10
      /\ r[4] = Why(b.quality_tier < Highest(StageTiers(t, s)), "ALTERNATIVE_UNAVAILABLE")
      /\ r[7] = Why(pol.require_deterministic /\ b.deterministic, "DETERMINISTIC")
      /\ r[8] = Why(pol.prefer_native /\ b.family = "GENERIC", "PREFERRED_NATIVE")
      /\ r[9] = Why(b.requires_family_stage # NONE, "CONSTRAINT_SATISFIED")
  <2> HIDE DEF Why
  <2>1. r = <<Why(TRUE, "SUPPORTED"),
              Why(p.override_backend[s] = id, "OVERRIDDEN"),
              Why(b.quality_tier >= Highest(CandidateTiers(t, p, s)), "HIGHEST_QUALITY"),
              Why(b.quality_tier < Highest(StageTiers(t, s)), "ALTERNATIVE_UNAVAILABLE"),
              Why(TRUE, IF b.proprietary THEN "PROPRIETARY_ALLOWED" ELSE "OPEN_SOURCE"),
              Why(pol.vendor_pin # "GENERIC" /\ b.family = pol.vendor_pin, "VENDOR_PINNED"),
              Why(pol.require_deterministic /\ b.deterministic, "DETERMINISTIC"),
              Why(pol.prefer_native /\ b.family = "GENERIC", "PREFERRED_NATIVE"),
              Why(b.requires_family_stage # NONE, "CONSTRAINT_SATISFIED"),
              Why(pol.cost_weight >= 2, "LOWEST_COST")>>
    BY ZenonT(30) DEF Reasons, Why
  <2> QED BY <2>1, TenOf
<1>2. /\ r[9].reason = "CONSTRAINT_SATISFIED" /\ r[9].holds = (b.requires_family_stage # NONE)
      /\ r[4].holds = (b.quality_tier < Highest(StageTiers(t, s)))
      /\ r[7].holds = (pol.require_deterministic /\ b.deterministic)
      /\ r[8].holds = (pol.prefer_native /\ b.family = "GENERIC")
  BY <1>1
<1> QED BY <1>1, <1>2

LEMMA ConstraintKept ==
  ASSUME NEW ids, "FSR_FG" \notin ids, NEW p, NEW s \in Stages, NEW id, id # NONE,
         Listed(WithSupported(ids), s, id),
         findCaps(WithSupported(ids), s, id).supported,
         findCaps(WithSupported(ids), s, id).requires_family_stage # NONE
  PROVE  LET e == Explain(WithSupported(ids), p, s, id)
         IN \E n \in DOMAIN e : e[n] = "CONSTRAINT_SATISFIED"
<1>1. PICK t : t = WithSupported(ids)
  OBVIOUS
<1>2. PICK n \in Rows(t, s, id) : findCaps(t, s, id) = t[n]
  BY <1>1 DEF Listed, findCaps
<1>3. PICK b : b = t[n]
  OBVIOUS
<1>4. n \in DOMAIN kTable /\ b.stage = s
  BY <1>1, <1>2, <1>3 DEF Rows, WithSupported
<1>5. /\ ~ b.deterministic /\ b.family # "GENERIC" /\ b.quality_tier \in Nat
      /\ Highest(StageTiers(t, s)) = b.quality_tier
  BY <1>1, <1>2, <1>3, <1>4, ProductRow
<1>6. PICK r : r = Reasons(t, p, s, id)
  OBVIOUS
<1>7. DOMAIN r = 1..10 /\ r[9].reason = "CONSTRAINT_SATISFIED"
  BY <1>6, ReasonsOf
<1>8. r[9].holds /\ ~ r[7].holds /\ ~ r[8].holds
  BY <1>1, <1>2, <1>3, <1>5, <1>6, ReasonsOf
<1>9. ~ r[4].holds
  <2>1. r[4].holds <=> b.quality_tier < Highest(StageTiers(t, s))
    BY <1>2, <1>3, <1>6, ReasonsOf
  <2> QED BY <1>5, <2>1
<1>10. \E m \in DOMAIN AddReasons(r) : AddReasons(r)[m] = "CONSTRAINT_SATISFIED"
  BY <1>7, <1>8, <1>9, NinthKept
<1>11. Explain(t, p, s, id) = AddReasons(r)
  BY <1>6 DEF Explain
<1> QED BY <1>1, <1>10, <1>11

\* The product never reports the reserved frame generator as supported.
LEMMA NeverReserved ==
  ASSUME NEW ofa, NEW sr, NEW rr, NEW xess, NEW fg
  PROVE  \E ids : "FSR_FG" \notin ids /\ QueryCapabilities(ofa, sr, rr, xess, fg) = WithSupported(ids)
<1>1. "FSR_FG" \notin SupportedIds(ofa, TRUE, sr, rr, TRUE, xess) \cup (IF fg THEN {"DLSS_FG"} ELSE {})
  BY DEF SupportedIds
<1> QED BY <1>1 DEF QueryCapabilities

\* With the rows of backends.cpp and whatever the probes find: the reason that a
\* backend was possible because of another stage's survives the six places of
\* an explanation (addReason in resolve.cpp).  At most five come before it: the
\* rows that need a family are the best of their stage, and neither
\* deterministic nor generic.  FSR_FG is none of that, but never supported.
THEOREM ConstraintExplainedCorrect ==
  ASSUME \A t \in Capabilities : \E ofa, sr, rr, xess, fg \in BOOLEAN :
           t = QueryCapabilities(ofa, sr, rr, xess, fg)
  PROVE  Spec => []ConstraintExplained
<1>1. Init => Gathered /\ Explained
  BY DEF Init, Gathered, Explained, Invalid
<1>2. ReturnedInv /\ Gathered /\ Explained => ConstraintExplained
  <2> SUFFICES ASSUME ReturnedInv, Gathered, Explained, Done, sel.valid,
                      NEW s \in Filled(sel.backend),
                      findCaps(caps, s, sel.backend[s]).requires_family_stage # NONE
               PROVE  \E n \in DOMAIN sel.explanation[s] : sel.explanation[s][n] = "CONSTRAINT_SATISFIED"
    BY DEF ConstraintExplained
  <2>1. caps \in Capabilities
    BY DEF ReturnedInv, Inv, Args
  <2>2. PICK ids : "FSR_FG" \notin ids /\ caps = WithSupported(ids)
    BY <2>1, NeverReserved
  <2>3. Listed(caps, s, sel.backend[s]) /\ findCaps(caps, s, sel.backend[s]).supported
    BY SelectionAllowed DEF ObeysPreference, Allowed
  <2>4. s \in Stages /\ sel.backend[s] # NONE
    BY DEF Filled
  <2>5. sel.explanation[s] = Explain(caps, pref, s, sel.backend[s])
    BY <2>4 DEF Explained
  <2> QED BY <2>2, <2>3, <2>4, <2>5, ConstraintKept
<1> QED
  BY <1>1, <1>2, GatheredInductive, ExplainedInductive, InitReturned, ReturnedInductive, PTL DEF Spec

-------------------------------------------------------------------------------
(* Types                                                                     *)

LEMMA PolicyType ==
  ASSUME NEW p \in Preference
  PROVE  rfx_derive_policy(p) \in RfxPolicy
<1>1. /\ p.prioritize_latency \in BOOLEAN /\ p.allow_proprietary \in BOOLEAN /\ p.open_source_only \in BOOLEAN
      /\ p.deterministic \in BOOLEAN /\ p.power_saver \in BOOLEAN /\ p.debug \in BOOLEAN /\ p.vendor_pin \in STRING
  BY DEF Preference
<1>2. (p.open_source_only \/ ~ p.allow_proprietary) \in BOOLEAN /\ (p.deterministic \/ p.debug) \in BOOLEAN
  BY <1>1
<1>3. (IF p.quality = "QUALITY" THEN 2 ELSE 1) \in 1..2
  OBVIOUS
<1>4. (IF p.quality = "PERF" THEN 2 ELSE 1) + (IF p.prioritize_latency THEN 1 ELSE 0)
        + (IF p.power_saver THEN 2 ELSE 0) \in 1..5
  OBVIOUS
<1> QED BY <1>1, <1>2, <1>3, <1>4 DEF rfx_derive_policy, RfxPolicy

\* What a stage may get is no backend or one of the table.
LEMMA CandidateIds ==
  ASSUME NEW t \in Capabilities, NEW p \in Preferences, NEW s \in Stages, NEW n \in DOMAIN Candidates(t, p, s)
  PROVE  Candidates(t, p, s)[n] \in Names(t)
<1>1. PICK id : id = Candidates(t, p, s)[n]
  OBVIOUS
<1>2. CASE id = NONE
  BY <1>1, <1>2 DEF Names
<1>3. CASE id # NONE
  <2>1. Listed(t, s, id)
    BY <1>1, <1>3, CandidatesAllowed DEF Allowed
  <2>2. \E m \in DOMAIN t : t[m].id = id
    BY <2>1 DEF Listed, Rows
  <2> QED BY <1>1, <2>2 DEF Names
<1> QED BY <1>2, <1>3

\* What is kept of up to ten reasons are reasons.
LEMMA AddReasonsType ==
  ASSUME NEW r, DOMAIN r = 1..10, \A n \in 1..10 : r[n].reason \in RfxReason
  PROVE  AddReasons(r) \in Seq(RfxReason)
<1>1. PICK true : true = {n \in DOMAIN r : r[n].holds}
  OBVIOUS
<1>2. true \in SUBSET (1..10) /\ Cardinality(true) \in Nat
  <2>1. true \in SUBSET (1..10)
    BY <1>1
  <2> QED BY <2>1, BelowFinite
<1>3. PICK m : m = IF Cardinality(true) < RFX_MAX_REASONS THEN Cardinality(true) ELSE RFX_MAX_REASONS
  OBVIOUS
<1>4. m \in Nat /\ \A n \in 1..m : n \in 1..Cardinality(true)
  <2>1. PICK count : count = Cardinality(true)
    OBVIOUS
  <2>2. count \in Nat /\ m \in Nat /\ m <= count
    BY <1>2, <1>3, <2>1 DEF RFX_MAX_REASONS
  <2> QED BY <2>1, <2>2
<1>5. AddReasons(r) = [n \in 1..m |-> r[Nth(true, n)].reason]
  BY <1>1, <1>3 DEF AddReasons
<1>6. \A n \in 1..m : r[Nth(true, n)].reason \in RfxReason
  <2> SUFFICES ASSUME NEW n \in 1..m PROVE r[Nth(true, n)].reason \in RfxReason
    OBVIOUS
  <2>1. Nth(true, n) \in true
    BY <1>2, <1>4, NthExists
  <2> QED BY <1>2, <2>1
<1>7. AddReasons(r) \in [1..m -> RfxReason]
  BY <1>5, <1>6
<1> QED BY <1>4, <1>7

LEMMA TenPlaces ==
  ASSUME NEW a, NEW b, NEW c, NEW d, NEW e, NEW f, NEW g, NEW h, NEW l, NEW m,
         NEW r, r = <<a, b, c, d, e, f, g, h, l, m>>
  PROVE  /\ DOMAIN r = 1..10 /\ r[1] = a /\ r[2] = b /\ r[3] = c /\ r[4] = d /\ r[5] = e
         /\ r[6] = f /\ r[7] = g /\ r[8] = h /\ r[9] = l /\ r[10] = m
OBVIOUS

LEMMA ReasonsType ==
  ASSUME NEW t, NEW p, NEW s, NEW id, NEW r, r = Reasons(t, p, s, id)
  PROVE  DOMAIN r = 1..10 /\ \A n \in 1..10 : r[n].reason \in RfxReason
<1> DEFINE Why(holds, reason) == [holds |-> holds, reason |-> reason]
           pol == rfx_derive_policy(p)
           b == findCaps(t, s, id)
           licence == IF b.proprietary THEN "PROPRIETARY_ALLOWED" ELSE "OPEN_SOURCE"
<1>1. licence \in RfxReason
  BY DEF RfxReason
<1>2. /\ "SUPPORTED" \in RfxReason /\ "OVERRIDDEN" \in RfxReason /\ "HIGHEST_QUALITY" \in RfxReason
      /\ "ALTERNATIVE_UNAVAILABLE" \in RfxReason /\ "VENDOR_PINNED" \in RfxReason
      /\ "DETERMINISTIC" \in RfxReason /\ "PREFERRED_NATIVE" \in RfxReason
      /\ "CONSTRAINT_SATISFIED" \in RfxReason /\ "LOWEST_COST" \in RfxReason
  BY DEF RfxReason
<1>3. r = <<Why(TRUE, "SUPPORTED"),
            Why(p.override_backend[s] = id, "OVERRIDDEN"),
            Why(b.quality_tier >= Highest(CandidateTiers(t, p, s)), "HIGHEST_QUALITY"),
            Why(b.quality_tier < Highest(StageTiers(t, s)), "ALTERNATIVE_UNAVAILABLE"),
            Why(TRUE, licence),
            Why(pol.vendor_pin # "GENERIC" /\ b.family = pol.vendor_pin, "VENDOR_PINNED"),
            Why(pol.require_deterministic /\ b.deterministic, "DETERMINISTIC"),
            Why(pol.prefer_native /\ b.family = "GENERIC", "PREFERRED_NATIVE"),
            Why(b.requires_family_stage # NONE, "CONSTRAINT_SATISFIED"),
            Why(pol.cost_weight >= 2, "LOWEST_COST")>>
  BY ZenonT(30) DEF Reasons, Why
<1> HIDE DEF Why, licence, pol, b
<1>4. /\ DOMAIN r = 1..10
      /\ r[1] = Why(TRUE, "SUPPORTED") /\ r[2] = Why(p.override_backend[s] = id, "OVERRIDDEN")
      /\ r[3] = Why(b.quality_tier >= Highest(CandidateTiers(t, p, s)), "HIGHEST_QUALITY")
      /\ r[4] = Why(b.quality_tier < Highest(StageTiers(t, s)), "ALTERNATIVE_UNAVAILABLE")
      /\ r[5] = Why(TRUE, licence)
      /\ r[6] = Why(pol.vendor_pin # "GENERIC" /\ b.family = pol.vendor_pin, "VENDOR_PINNED")
      /\ r[7] = Why(pol.require_deterministic /\ b.deterministic, "DETERMINISTIC")
      /\ r[8] = Why(pol.prefer_native /\ b.family = "GENERIC", "PREFERRED_NATIVE")
      /\ r[9] = Why(b.requires_family_stage # NONE, "CONSTRAINT_SATISFIED")
      /\ r[10] = Why(pol.cost_weight >= 2, "LOWEST_COST")
  BY <1>3, TenPlaces
<1>5. /\ r[1].reason = "SUPPORTED" /\ r[2].reason = "OVERRIDDEN" /\ r[3].reason = "HIGHEST_QUALITY"
      /\ r[4].reason = "ALTERNATIVE_UNAVAILABLE" /\ r[5].reason = licence
      /\ r[6].reason = "VENDOR_PINNED" /\ r[7].reason = "DETERMINISTIC"
      /\ r[8].reason = "PREFERRED_NATIVE" /\ r[9].reason = "CONSTRAINT_SATISFIED"
      /\ r[10].reason = "LOWEST_COST"
  BY <1>4 DEF Why
<1>6. \A n \in 1..10 : n \in {1, 2, 3, 4, 5, 6, 7, 8, 9, 10}
  OBVIOUS
<1>7. \A n \in 1..10 : r[n].reason \in RfxReason
  BY <1>1, <1>2, <1>5, <1>6
<1>8. DOMAIN r = 1..10
  BY <1>4
<1> QED BY <1>7, <1>8

LEMMA ExplainType ==
  ASSUME NEW t, NEW p, NEW s, NEW id
  PROVE  Explain(t, p, s, id) \in Seq(RfxReason)
<1>1. CASE id = NONE
  <2>1. PICK x \in RfxReason : Explain(t, p, s, id) = <<x>>
    BY <1>1 DEF Explain, RfxReason
  <2> QED BY <2>1
<1>2. CASE id # NONE
  <2>1. PICK r : r = Reasons(t, p, s, id)
    OBVIOUS
  <2>2. DOMAIN r = 1..10 /\ \A n \in 1..10 : r[n].reason \in RfxReason
    BY <2>1, ReasonsType
  <2>3. Explain(t, p, s, id) = AddReasons(r)
    BY <1>2, <2>1 DEF Explain
  <2> QED BY <2>2, <2>3, AddReasonsType
<1> QED BY <1>1, <1>2

\* What TypeOK says of the search beyond Args and InRange.
Settled ==
  /\ best \in [Stages -> Names(caps)] /\ found \in BOOLEAN
  /\ pc = "scan" => \A s \in Stages : cand[s] # <<>>

LEMMA SettledInductive == Inv /\ Gathered /\ Settled /\ [Next]_vars => Settled'
<1> SUFFICES ASSUME Inv, Gathered, Settled, [Next]_vars PROVE Settled'
  OBVIOUS
<1>1. CASE Gather
  BY <1>1 DEF Gather, Settled
<1>2. CASE Try
  <2>1. pc = "scan" /\ caps \in Capabilities /\ pref \in Preferences
    BY <1>2 DEF Try, Inv, Args
  <2>2. /\ i \in 1..Len(cand["UP"]) /\ j \in 1..Len(cand["RR"]) /\ k \in 1..Len(cand["FG"])
        /\ \A s \in Stages : Len(cand[s]) \in Nat /\ DOMAIN cand[s] = 1..Len(cand[s])
    <3>1. "UP" \in Stages /\ Len(cand["UP"]) \in Nat
      BY <2>1 DEF Inv, InRange, Stages
    <3> QED BY <1>2, <2>1, <3>1 DEF Try, Inv, InRange
  <2>3. \A s \in Stages : \A n \in DOMAIN cand[s] : cand[s][n] \in Names(caps)
    BY <2>1, CandidateIds DEF Gathered
  <2>4. cand["UP"][i] \in Names(caps) /\ cand["RR"][j] \in Names(caps) /\ cand["FG"][k] \in Names(caps)
    BY <2>2, <2>3 DEF Stages
  <2>5. At(i, j, k) \in [Stages -> Names(caps)]
    BY <2>4 DEF At, Stages
  <2> QED BY <1>2, <2>5 DEF Try, Settled
<1>3. CASE Return
  BY <1>3 DEF Return, Settled
<1>4. CASE UNCHANGED vars
  BY <1>4 DEF vars, Settled
<1> QED
  BY <1>1, <1>2, <1>3, <1>4 DEF Next

\* The variables keep their types: in particular the loops stay within the candidates,
\* which are backends of the table, and an explanation consists of the reasons of the
\* public header.
THEOREM TypeCorrect == Spec => []TypeOK
<1>1. Init => Gathered /\ Explained /\ Settled
  <2>1. NoPick \in [Stages -> Names(caps)]
    BY DEF NoPick, Names
  <2>2. Init => Gathered /\ Explained
    BY DEF Init, Gathered, Explained, Invalid
  <2>3. Init => Settled
    BY <2>1 DEF Init, Settled
  <2> QED BY <2>2, <2>3
<1>2. Inv /\ Gathered /\ Explained /\ Settled => TypeOK
  <2> SUFFICES ASSUME Inv, Gathered, Explained, Settled PROVE TypeOK
    OBVIOUS
  <2>1. /\ caps \in Capabilities /\ pref \in Preferences /\ pc \in {"call", "scan", "done"} /\ bestScore \in Int
    BY DEF Inv, Args
  <2>2. rfx_derive_policy(pref) \in RfxPolicy
    BY <2>1, PolicyType, ResolverAssumption
  <2>3. sel.valid => \A s \in Stages : sel.explanation[s] \in Seq(RfxReason)
    BY ExplainType DEF Explained
  <2>4. pc = "scan" => /\ i \in 1..(Len(cand["UP"]) + 1)
                       /\ j \in DOMAIN cand["RR"] /\ k \in DOMAIN cand["FG"]
    BY DEF Inv, InRange, Stages
  <2> QED BY <2>1, <2>2, <2>3, <2>4 DEF TypeOK, Gathered, Settled
<1>3. ReturnedInv => Inv
  BY DEF ReturnedInv
<1> QED
  BY <1>1, <1>2, <1>3, InitReturned, ReturnedInductive, GatheredInductive, ExplainedInductive, SettledInductive, PTL DEF Spec
===============================================================================
