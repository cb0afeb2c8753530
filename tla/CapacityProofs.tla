--------------------------- MODULE CapacityProofs ---------------------------
(***************************************************************************)
(* What is counted and shared out: the candidates with the largest deficit, *)
(* the bridge's slots, and the requests of a window, for any accounts,     *)
(* weights, costs, calls, requests, limits and ages of the instants.       *)
(***************************************************************************)
EXTENDS Allocation, Bridge, Limiter, FiniteSetTheorems, TLAPS

\* The provers to try, and their time, for a leaf that names none.
USE SMTT(30), ZenonT(30), SMTT(60)

-----------------------------------------------------------------------------
(* The second loop of selectUpstreamAllocation.                            *)

AllocationTypeOK ==
    /\ weight \in [Candidates -> Nat] /\ cost \in [Candidates -> Nat]
    /\ stage \in {"sum", "compare", "draw", "chosen", "none"} /\ position \in Nat \ {0}
    /\ totalWeight \in Nat /\ totalCost \in Nat /\ largest \in Int
    /\ ties \subseteq Candidates

\* The candidates the second loop has passed.
Passed == {i \in Candidates : weight[i] > 0 /\ (stage = "compare" => i < position)}

\* The loop's invariant: the ties are what was passed with the largest deficit,
\* and once something was passed there is a tie.
CompareInvariant ==
    /\ stage = "sum" => ties = {}
    /\ stage \in {"compare", "draw", "chosen"} =>
        /\ ties \subseteq Passed
        /\ \A i \in ties : Deficit(i) = largest
        /\ \A i \in Passed \ ties : Deficit(i) < largest
        /\ Passed # {} => ties # {}

LoopInvariant == AllocationTypeOK /\ CompareInvariant

-----------------------------------------------------------------------------
\* A deficit is an integer.
LEMMA DeficitType ==
    ASSUME AllocationTypeOK, NEW i \in Candidates
    PROVE  Deficit(i) \in Int
<1>1. weight[i] \in Int /\ cost[i] \in Int /\ totalWeight \in Int /\ totalCost \in Int
  BY DEF AllocationTypeOK
<1>2. totalCost * weight[i] \in Int /\ cost[i] * totalWeight \in Int
  BY <1>1
<1> QED BY <1>2 DEF Deficit

\* A step that keeps inputs and totals keeps every deficit.
LEMMA DeficitKept ==
    ASSUME UNCHANGED <<inputVars, totalWeight, totalCost>>
    PROVE  \A i \in Candidates : Deficit(i)' = Deficit(i)
BY DEF Deficit, inputVars

\* Every step keeps the types.
LEMMA TypeStep ==
    ASSUME AllocationTypeOK, [AllocationNext]_allocationVars
    PROVE  AllocationTypeOK'
<1>1. CASE AddUp
  <2>1. weight[position] \in Nat /\ SummedCost(position) \in Nat
    BY <1>1 DEF AllocationTypeOK, AddUp, SummedCost
  <2> QED BY <1>1, <2>1 DEF AllocationTypeOK, AddUp, inputVars
<1>2. CASE AddedUp
  BY <1>2 DEF AllocationTypeOK, AddedUp, inputVars
<1>3. CASE Compare
  <2>1. position \in Candidates
    BY <1>3 DEF Compare
  <2>2. Deficit(position) \in Int
    BY <2>1, DeficitType
  <2>3. largest' \in Int
    BY <1>3, <2>2 DEF AllocationTypeOK, Compare
  <2>4. ties' \subseteq Candidates
    BY Zenon, <1>3, <2>1 DEF AllocationTypeOK, Compare
  <2> QED BY <1>3, <2>3, <2>4 DEF AllocationTypeOK, Compare, inputVars
<1>4. CASE Compared
  BY <1>4 DEF AllocationTypeOK, Compared, inputVars
<1>5. CASE \E d \in 0..(tiedWeight - 1) : Draw(d)
  BY <1>5 DEF AllocationTypeOK, Draw, inputVars
<1>6. CASE UNCHANGED allocationVars
  BY <1>6 DEF AllocationTypeOK, allocationVars
<1> QED BY <1>1, <1>2, <1>3, <1>4, <1>5, <1>6 DEF AllocationNext

\* One comparison of the second loop keeps its invariant.
LEMMA CompareStep ==
    ASSUME LoopInvariant, Compare
    PROVE  CompareInvariant'
<1> DEFINE p == position
<1>1. /\ stage = "compare" /\ stage' = "compare" /\ p \in Candidates /\ position' = p + 1
      /\ weight' = weight /\ ties \subseteq Candidates /\ largest \in Int
      /\ Candidates \subseteq Nat /\ weight \in [Candidates -> Nat]
  BY AllocationAssumption DEF Compare, inputVars, LoopInvariant, AllocationTypeOK
<1>2. \A i \in Candidates : Deficit(i)' = Deficit(i)
  BY DeficitKept DEF Compare
<1>3. \A i \in Candidates : Deficit(i) \in Int
  BY DeficitType DEF LoopInvariant
<1>4. /\ ties \subseteq Passed /\ \A i \in ties : Deficit(i) = largest
      /\ \A i \in Passed \ ties : Deficit(i) < largest
      /\ Passed # {} => ties # {}
  BY <1>1 DEF LoopInvariant, CompareInvariant
<1>5. /\ Passed = {i \in Candidates : weight[i] > 0 /\ i < p}
      /\ Passed' = {i \in Candidates : weight[i] > 0 /\ i < p + 1}
  BY <1>1 DEF Passed
<1>6. Passed' = IF weight[p] = 0 THEN Passed ELSE Passed \union {p}
  <2>1. \A i \in Candidates : (i < p + 1 <=> i < p \/ i = p)
    BY <1>1
  <2>2. CASE weight[p] = 0
    <3>1. ~(weight[p] > 0)
      BY <2>2
    <3> QED BY <1>5, <2>1, <2>2, <3>1
  <2>3. CASE weight[p] # 0
    <3>1. weight[p] > 0
      BY <1>1, <2>3
    <3>2. \A i : i \in Passed' <=> i \in Passed \union {p}
      BY Zenon, <1>1, <1>5, <2>1, <3>1
    <3> QED BY <2>3, <3>2
  <2> QED BY <2>2, <2>3
<1>7. p \notin Passed
  BY <1>1, <1>5
<1>8. /\ ties' \subseteq Passed' /\ \A i \in ties' : Deficit(i) = largest'
      /\ \A i \in Passed' \ ties' : Deficit(i) < largest'
      /\ Passed' # {} => ties' # {}
  <2>1. CASE weight[p] = 0
    <3>1. UNCHANGED <<largest, ties>>
      BY <2>1 DEF Compare
    <3> QED BY <2>1, <3>1, <1>4, <1>6
  <2>2. CASE weight[p] # 0 /\ ~Larger(p) /\ Deficit(p) < largest
    <3>1. UNCHANGED <<largest, ties>> /\ ties # {}
      BY <2>2 DEF Compare, Larger
    <3> QED BY Zenon, <2>2, <3>1, <1>4, <1>6, <1>7
  <2>3. CASE weight[p] # 0 /\ Larger(p)
    <3>1. largest' = Deficit(p) /\ ties' = {p}
      BY <2>3 DEF Compare
    <3>2. \A i \in Passed : Deficit(i) < Deficit(p)
      <4>1. CASE ties = {}
        BY <4>1, <1>4
      <4>2. CASE Deficit(p) > largest
        <5>1. \A i \in Passed : Deficit(i) <= largest
          BY <1>1, <1>3, <1>4, <1>5
        <5> QED BY <1>1, <1>3, <1>5, <4>2, <5>1
      <4> QED BY <2>3, <4>1, <4>2 DEF Larger
    <3> QED BY Zenon, <2>3, <3>1, <3>2, <1>1, <1>6
  <2>4. CASE weight[p] # 0 /\ ~Larger(p) /\ ~(Deficit(p) < largest)
    <3>1. largest' = largest /\ ties' = ties \union {p}
      BY <2>4 DEF Compare
    <3>2. Deficit(p) = largest
      BY <2>4, <1>1, <1>3 DEF Larger
    <3> QED BY Zenon, <2>4, <3>1, <3>2, <1>4, <1>6
  <2> QED BY <2>1, <2>2, <2>3, <2>4
<1>9. ties' \subseteq Candidates /\ Passed' \subseteq Candidates
  BY <1>5, <1>8
<1> QED BY <1>1, <1>2, <1>8, <1>9 DEF CompareInvariant

\* When the loop ends, position is behind every candidate.
LEMMA ComparedStep ==
    ASSUME LoopInvariant, Compared
    PROVE  CompareInvariant'
<1>1. \A i \in Candidates : i < position
  <2> SUFFICES ASSUME NEW i \in Candidates, ~(i < position) PROVE FALSE
    OBVIOUS
  <2>1. i \in Nat /\ position \in Nat \ {0} /\ position \notin Candidates
    BY AllocationAssumption DEF LoopInvariant, AllocationTypeOK, Compared
  <2>2. position \in 1..i
    BY <2>1
  <2> QED BY <2>1, <2>2, AllocationAssumption
<1>2. Passed' = Passed
  BY <1>1 DEF Passed, Compared, inputVars
<1>3. \A i \in Candidates : Deficit(i)' = Deficit(i)
  BY DeficitKept DEF Compared
<1>4. Passed \subseteq Candidates /\ ties \subseteq Candidates
  BY DEF Passed, LoopInvariant, AllocationTypeOK
<1> QED BY <1>2, <1>3, <1>4 DEF LoopInvariant, CompareInvariant, Compared

\* Every step keeps the loop's invariant.
LEMMA InvariantStep ==
    ASSUME LoopInvariant, [AllocationNext]_allocationVars
    PROVE  LoopInvariant'
<1>1. AllocationTypeOK'
  BY TypeStep DEF LoopInvariant
<1>2. CompareInvariant'
  <2>1. CASE AddUp
    BY <2>1 DEF LoopInvariant, CompareInvariant, AddUp
  <2>2. CASE AddedUp
    <3>1. ties' = {} /\ stage' \in {"none", "compare"} /\ position' = 1
      BY <2>2 DEF LoopInvariant, CompareInvariant, AddedUp
    <3>2. stage' = "compare" => Passed' = {}
      <4>1. \A i \in Candidates : ~(i < 1)
        BY AllocationAssumption
      <4> QED BY <3>1, <4>1 DEF Passed
    <3> QED BY <3>1, <3>2 DEF CompareInvariant
  <2>3. CASE Compare
    BY <2>3, CompareStep
  <2>4. CASE Compared
    BY <2>4, ComparedStep
  <2>5. CASE \E d \in 0..(tiedWeight - 1) : Draw(d)
    <3>1. /\ UNCHANGED <<inputVars, position, totalWeight, totalCost, largest, ties>>
          /\ stage = "draw" /\ stage' = "chosen"
      BY <2>5 DEF Draw
    <3>2. Passed' = Passed
      BY <3>1 DEF Passed, inputVars
    <3>3. \A i \in Candidates : Deficit(i)' = Deficit(i)
      BY <3>1, DeficitKept
    <3>4. Passed \subseteq Candidates /\ ties \subseteq Candidates
      BY DEF Passed, LoopInvariant, AllocationTypeOK
    <3> QED BY <3>1, <3>2, <3>3, <3>4 DEF LoopInvariant, CompareInvariant
  <2>6. CASE UNCHANGED allocationVars
    BY <2>6 DEF LoopInvariant, CompareInvariant, Passed, Deficit, allocationVars
  <2> QED BY Zenon, <2>1, <2>2, <2>3, <2>4, <2>5, <2>6 DEF AllocationNext
<1> QED BY <1>1, <1>2 DEF LoopInvariant

\* The invariant gives the property once the loop is over.
LEMMA InvariantGives ==
    ASSUME LoopInvariant
    PROVE  TiesAreLargest
<1> SUFFICES ASSUME stage \in {"draw", "chosen"}
             PROVE  ties = {i \in Candidates : weight[i] > 0 /\ \A j \in Candidates : weight[j] > 0 => Deficit(j) <= Deficit(i)}
  BY DEF TiesAreLargest
<1>1. Passed = {i \in Candidates : weight[i] > 0}
  BY DEF Passed
<1>2. \A i \in Candidates : Deficit(i) \in Int
  BY DeficitType DEF LoopInvariant
<1>3. /\ ties \subseteq Passed /\ largest \in Int
      /\ \A i \in ties : Deficit(i) = largest
      /\ \A i \in Passed \ ties : Deficit(i) < largest
      /\ Passed # {} => ties # {}
  BY DEF LoopInvariant, CompareInvariant, AllocationTypeOK
<1>4. ASSUME NEW i \in ties, NEW j \in Passed
      PROVE  Deficit(j) <= Deficit(i)
  BY <1>1, <1>2, <1>3
<1>5. ASSUME NEW i \in Passed, i \notin ties
      PROVE  \E j \in Passed : ~(Deficit(j) <= Deficit(i))
  <2>1. PICK t \in ties : Deficit(t) = largest
    BY <1>3
  <2>2. Deficit(i) < Deficit(t) /\ t \in Passed
    BY <1>3, <1>5, <2>1
  <2> QED BY <1>1, <1>2, <2>2
<1> QED BY <1>1, <1>3, <1>4, <1>5

\* Whatever the order of the rows, selectUpstreamAllocation draws among exactly
\* the candidates with a weight whose deficit is the largest.
THEOREM TiesAreLargestHolds == AllocationSpec => []TiesAreLargest
<1>1. AllocationInit => LoopInvariant
  <2> SUFFICES ASSUME AllocationInit PROVE LoopInvariant
    OBVIOUS
  <2>1. 0..MaxWeight \subseteq Nat /\ 0..MaxCost \subseteq Nat
    BY AllocationAssumption
  <2>2. weight \in [Candidates -> Nat] /\ cost \in [Candidates -> Nat]
    BY <2>1 DEF AllocationInit
  <2> QED BY <2>2 DEF AllocationInit, LoopInvariant, AllocationTypeOK, CompareInvariant
<1>2. LoopInvariant /\ [AllocationNext]_allocationVars => LoopInvariant'
  BY InvariantStep
<1>3. LoopInvariant => TiesAreLargest
  BY InvariantGives
<1> QED BY <1>1, <1>2, <1>3, PTL DEF AllocationSpec

-----------------------------------------------------------------------------
(* The bridge's slots.  Each action adds or removes at most one call at    *)
(* one account, and reserve and release do the same to the counters.       *)

RowFields == {"enabled", "ready", "refreshing", "active", "talks", "cooldown"}
CallFields == {"stage", "account", "tried", "started"}
Serving == {"running", "retrying", "leaving"}

\* The calls of a conversation at an account.
Sharing(a, t) == {c \in Using(a) : TalkOf[c] = t}

RowExact(a) ==
    /\ DOMAIN pool[a] = RowFields /\ DOMAIN pool[a].talks = Talks
    /\ pool[a].active = Cardinality(Using(a))
    /\ \A t \in Talks : pool[a].talks[t] = Cardinality(Sharing(a, t))
    /\ pool[a].refreshing => Using(a) = {}

BridgeInvariant ==
    /\ DOMAIN pool = BrAccounts /\ DOMAIN brCall = BrCalls
    /\ \A c \in BrCalls : DOMAIN brCall[c] = CallFields
    /\ \A a \in BrAccounts : RowExact(a)

-----------------------------------------------------------------------------
\* The sets that are counted are finite.
LEMMA UsingFinite ==
    ASSUME NEW a
    PROVE  IsFiniteSet(Using(a)) /\ \A t : IsFiniteSet(Sharing(a, t))
<1>1. Using(a) \subseteq BrCalls /\ \A t : Sharing(a, t) \subseteq BrCalls
  BY Zenon DEF Using, Sharing
<1> QED BY Zenon, <1>1, BridgeAssumption, FS_Subset

\* A row that keeps its counters and its calls.
LEMMA RowStays ==
    ASSUME NEW a \in BrAccounts, RowExact(a), Using(a)' = Using(a),
           DOMAIN pool'[a] = RowFields, pool'[a].active = pool[a].active, pool'[a].talks = pool[a].talks,
           pool'[a].refreshing => pool[a].refreshing \/ pool[a].active = 0
    PROVE  RowExact(a)'
<1>1. \A t : Sharing(a, t)' = Sharing(a, t)
  BY DEF Sharing
<1>2. pool[a].active = 0 => Using(a) = {}
  BY Zenon, UsingFinite, FS_EmptySet DEF RowExact
<1>3. pool'[a].refreshing => Using(a)' = {}
  BY <1>2 DEF RowExact
<1> QED BY Zenon, <1>1, <1>3 DEF RowExact

\* Which calls an account serves is a matter of the calls' stages and accounts.
LEMMA SameUsing ==
    ASSUME NEW a, \A c \in BrCalls : (c \in Using(a)') = (c \in Using(a))
    PROVE  Using(a)' = Using(a)
<1>1. Using(a) \subseteq BrCalls /\ Using(a)' \subseteq BrCalls
  BY DEF Using
<1> QED BY <1>1

\* A step that leaves the pool alone and serves no call less or more.
LEMMA CallsOnly ==
    ASSUME BridgeInvariant, UNCHANGED pool, NEW c \in BrCalls, NEW q, brCall' = [brCall EXCEPT ![c] = q],
           DOMAIN q = CallFields,
           \/ brCall[c].stage \notin Serving /\ q.stage \notin Serving
           \/ brCall[c].stage = q.stage /\ brCall[c].account = q.account
    PROVE  BridgeInvariant'
<1>1. DOMAIN brCall' = BrCalls /\ brCall'[c] = q /\ \A o \in BrCalls : o # c => brCall'[o] = brCall[o]
  BY Zenon DEF BridgeInvariant
<1>2. ASSUME NEW a \in BrAccounts PROVE RowExact(a)'
  <2>1. ASSUME NEW o \in BrCalls PROVE (o \in Using(a)') = (o \in Using(a))
    BY <1>1 DEF Using, Serving
  <2>2. Using(a)' = Using(a)
    BY <2>1, SameUsing
  <2>3. RowExact(a)
    BY DEF BridgeInvariant
  <2> QED BY Zenon, <2>2, <2>3, RowStays DEF RowExact
<1>3. \A o \in BrCalls : DOMAIN brCall'[o] = CallFields
  BY <1>1 DEF BridgeInvariant
<1> QED BY <1>1, <1>2, <1>3 DEF BridgeInvariant

\* A call that ends or is refused without having an account.
LEMMA EndsStep ==
    ASSUME BridgeInvariant, UNCHANGED pool, NEW c \in BrCalls, brCall[c].stage \notin Serving, Ends(c)
    PROVE  BridgeInvariant'
<1>1. DOMAIN Over = CallFields /\ Over.stage = "ended" /\ "ended" \notin Serving
  BY DEF Over, Waiting, CallFields, Serving
<1> QED BY Zenon, <1>1, CallsOnly DEF Ends

\* A step of the calls' stage outside the account.
LEMMA StageStep ==
    ASSUME BridgeInvariant, UNCHANGED pool, NEW c \in BrCalls, NEW to,
           brCall[c].stage \notin Serving, to \notin Serving,
           brCall' = [brCall EXCEPT ![c].stage = to]
    PROVE  BridgeInvariant'
<1> DEFINE q == [brCall[c] EXCEPT !.stage = to]
<1>1. DOMAIN q = CallFields /\ q.stage = to
  BY DEF BridgeInvariant, CallFields
<1>2. brCall' = [brCall EXCEPT ![c] = q]
  BY DEF BridgeInvariant
<1> HIDE DEF q
<1> QED BY Zenon, <1>1, <1>2, CallsOnly

\* The steps of a selection before it takes a slot.
LEMMA SelectionKeeps ==
    ASSUME BridgeInvariant, NEW c \in BrCalls,
           GivesUp(c) \/ EnterSelection(c) \/ eligibleLimits(c) \/ OfferLayer(c) \/ selectAccount(c)
    PROVE  BridgeInvariant'
<1>1. UNCHANGED pool /\ brCall[c].stage \notin Serving
  BY Zenon DEF GivesUp, EnterSelection, eligibleLimits, OfferLayer, selectAccount, Selecting, Serving
<1>2. UNCHANGED brCall \/ Ends(c) \/ brCall' = [brCall EXCEPT ![c].stage = "selecting"]
  BY ZenonT(30) DEF GivesUp, EnterSelection, eligibleLimits, OfferLayer, selectAccount, LeaveSelection
<1>3. CASE UNCHANGED brCall
  BY <1>1, <1>3 DEF BridgeInvariant, RowExact, Using, Sharing
<1>4. CASE brCall' = [brCall EXCEPT ![c].stage = "selecting"]
  <2>1. "selecting" \notin Serving
    BY DEF Serving
  <2> QED BY ZenonT(30), <1>1, <1>4, <2>1, StageStep
<1> QED BY Zenon, <1>1, <1>2, <1>3, <1>4, EndsStep

-----------------------------------------------------------------------------
\* A slot is taken.
LEMMA ReserveStep ==
    ASSUME BridgeInvariant, NEW c \in BrCalls, Reserve(c)
    PROVE  BridgeInvariant'
<1> DEFINE talk == TalkOf[c]
<1>a. PICK a : a = gateOf.account
  OBVIOUS
<1>0. brCall[c].stage = "selecting" /\ brCall[c].stage \notin Serving /\ talk \in Talks
  BY DEF Reserve, Selecting, Serving, Talks
<1>1. CASE ~StillAdmissible(c, a)
  BY Zenon, <1>a, <1>0, <1>1, EndsStep DEF Reserve, LeaveSelection
<1>2. CASE StillAdmissible(c, a)
  <2> DEFINE q == [brCall[c] EXCEPT !.stage = "running", !.account = a, !.tried = brCall[c].tried \cup {a}]
  <2>1. /\ a \in BrAccounts /\ ~pool[a].refreshing
        /\ pool' = [pool EXCEPT ![a] = reserve(pool[a], talk)]
        /\ brCall' = [brCall EXCEPT ![c] = q]
    <3>1. a \in BrAccounts /\ ~pool[a].refreshing
      BY <1>2 DEF StillAdmissible, Admissible
    <3>2. pool' = [pool EXCEPT ![a] = reserve(pool[a], talk)]
      BY <1>a, <1>2 DEF Reserve, BridgeInvariant
    <3>3. brCall' = [brCall EXCEPT ![c].stage = "running", ![c].account = a, ![c].tried = @ \cup {a}]
      BY <1>a, <1>2 DEF Reserve
    <3>4. brCall' = [brCall EXCEPT ![c] = q]
      BY ZenonT(30), <3>3 DEF BridgeInvariant, CallFields
    <3> QED BY ZenonT(30), <3>1, <3>2, <3>4
  <2>2. DOMAIN q = CallFields /\ q.stage = "running" /\ q.account = a
    BY Zenon DEF BridgeInvariant, CallFields
  <2> HIDE DEF q
  <2>3. /\ DOMAIN brCall' = BrCalls /\ brCall'[c] = q /\ \A o \in BrCalls : o # c => brCall'[o] = brCall[o]
        /\ DOMAIN pool' = BrAccounts /\ pool'[a] = reserve(pool[a], talk)
        /\ \A x \in BrAccounts : x # a => pool'[x] = pool[x]
    BY Zenon, <2>1 DEF BridgeInvariant
  <2>4. ASSUME NEW x \in BrAccounts, x # a PROVE RowExact(x)'
    <3>1. ASSUME NEW o \in BrCalls PROVE (o \in Using(x)') = (o \in Using(x))
      BY ZenonT(30), <1>0, <2>2, <2>3, <2>4 DEF Using, Serving
    <3>2. Using(x)' = Using(x) /\ RowExact(x) /\ pool'[x] = pool[x]
      BY Zenon, <2>3, <2>4, <3>1, SameUsing DEF BridgeInvariant
    <3> QED BY Zenon, <3>2, RowStays DEF RowExact
  <2>5. RowExact(a)'
    <3>0. RowExact(a)
      BY <2>1 DEF BridgeInvariant
    <3>1. c \notin Using(a) /\ Using(a)' = Using(a) \cup {c}
      <4>1. c \notin Using(a) /\ c \in Using(a)'
        BY Zenon, <1>0, <2>2, <2>3 DEF Using, Serving
      <4>2. \A o \in BrCalls : o # c => (o \in Using(a)') = (o \in Using(a))
        BY <2>3 DEF Using
      <4>3. Using(a) \subseteq BrCalls /\ Using(a)' \subseteq BrCalls
        BY DEF Using
      <4> QED BY Zenon, <4>1, <4>2, <4>3
    <3>2. Cardinality(Using(a)') = Cardinality(Using(a)) + 1
      BY Zenon, <3>1, UsingFinite, FS_AddElement
    <3>3. /\ Sharing(a, talk)' = Sharing(a, talk) \cup {c} /\ c \notin Sharing(a, talk)
          /\ \A t \in Talks : t # talk => Sharing(a, t)' = Sharing(a, t)
      BY <3>1 DEF Sharing
    <3>4. Cardinality(Sharing(a, talk)') = Cardinality(Sharing(a, talk)) + 1
      BY ZenonT(30), <3>3, UsingFinite, FS_AddElement
    <3>5. /\ DOMAIN pool'[a] = RowFields /\ pool'[a].active = pool[a].active + 1
          /\ pool'[a].talks = [pool[a].talks EXCEPT ![talk] = pool[a].talks[talk] + 1]
          /\ pool'[a].refreshing = pool[a].refreshing
      BY Zenon, <1>0, <2>3, <3>0 DEF reserve, RowExact, RowFields
    <3>6. DOMAIN pool'[a].talks = Talks /\ pool'[a].talks[talk] = pool[a].talks[talk] + 1
      BY Zenon, <1>0, <3>0, <3>5 DEF RowExact
    <3>7. \A t \in Talks : t # talk => pool'[a].talks[t] = pool[a].talks[t]
      BY Zenon, <3>0, <3>5 DEF RowExact
    <3>8. \A t \in Talks : pool'[a].talks[t] = Cardinality(Sharing(a, t)')
      BY Zenon, <3>0, <3>3, <3>4, <3>6, <3>7 DEF RowExact
    <3>9. pool'[a].active = Cardinality(Using(a)')
      BY Zenon, <3>0, <3>2, <3>5 DEF RowExact
    <3>10. ~pool'[a].refreshing
      BY Zenon, <2>1, <3>5
    <3> QED BY Zenon, <3>5, <3>6, <3>8, <3>9, <3>10 DEF RowExact
  <2>6. \A o \in BrCalls : DOMAIN brCall'[o] = CallFields
    BY Zenon, <2>2, <2>3 DEF BridgeInvariant
  <2> QED BY Zenon, <2>3, <2>4, <2>5, <2>6 DEF BridgeInvariant
<1> QED BY <1>1, <1>2

\* A slot is given back.
LEMMA ReleaseStep ==
    ASSUME BridgeInvariant, NEW c \in BrCalls, Release(c)
    PROVE  BridgeInvariant'
<1> DEFINE talk == TalkOf[c]
<1>a. PICK a : a = brCall[c].account
  OBVIOUS
<1> DEFINE q == IF brCall[c].stage = "retrying"
                THEN [brCall[c] EXCEPT !.stage = "waiting", !.account = NoAccount] ELSE Over
<1>1. /\ brCall[c].stage \in {"retrying", "leaving"} /\ brCall' = [brCall EXCEPT ![c] = q]
      /\ pool' = [pool EXCEPT ![a] = release(@, talk)]
  BY <1>a DEF Release, BridgeInvariant
<1>2. DOMAIN q = CallFields /\ q.stage \in {"waiting", "ended"}
  BY Zenon DEF BridgeInvariant, CallFields, Over, Waiting
<1> HIDE DEF q
<1>3. /\ DOMAIN brCall' = BrCalls /\ brCall'[c] = q /\ \A o \in BrCalls : o # c => brCall'[o] = brCall[o]
      /\ DOMAIN pool' = BrAccounts /\ (a \in BrAccounts => pool'[a] = release(pool[a], talk))
      /\ \A x \in BrAccounts : x # a => pool'[x] = pool[x]
  BY Zenon, <1>1 DEF BridgeInvariant
<1>4. c \in Using(a) /\ talk \in Talks
  BY ZenonT(30), <1>a, <1>1 DEF Using, Talks
<1>5. ASSUME NEW x \in BrAccounts, x # a PROVE RowExact(x)'
  <2>1. ASSUME NEW o \in BrCalls PROVE (o \in Using(x)') = (o \in Using(x))
    BY ZenonT(30), <1>a, <1>2, <1>3, <1>5 DEF Using
  <2>2. Using(x)' = Using(x) /\ RowExact(x) /\ pool'[x] = pool[x]
    BY <1>3, <1>5, <2>1, SameUsing DEF BridgeInvariant
  <2> QED BY <2>2, RowStays DEF RowExact
<1>6. ASSUME a \in BrAccounts PROVE RowExact(a)'
  <2>0. RowExact(a)
    BY <1>6 DEF BridgeInvariant
  <2>1. Using(a)' = Using(a) \ {c}
    <3>1. c \notin Using(a)'
      BY ZenonT(30), <1>2, <1>3 DEF Using
    <3>2. \A o \in BrCalls : o # c => (o \in Using(a)') = (o \in Using(a))
      BY <1>3 DEF Using
    <3>3. Using(a) \subseteq BrCalls /\ Using(a)' \subseteq BrCalls
      BY DEF Using
    <3> QED BY Zenon, <3>1, <3>2, <3>3
  <2>2. Cardinality(Using(a)') = Cardinality(Using(a)) - 1
    BY Zenon, <1>4, <2>1, UsingFinite, FS_RemoveElement
  <2>3. /\ Sharing(a, talk)' = Sharing(a, talk) \ {c} /\ c \in Sharing(a, talk)
        /\ \A t \in Talks : t # talk => Sharing(a, t)' = Sharing(a, t)
    BY <1>4, <2>1 DEF Sharing
  <2>4. Cardinality(Sharing(a, talk)') = Cardinality(Sharing(a, talk)) - 1
    BY Zenon, <2>3, UsingFinite, FS_RemoveElement
  <2>5. /\ DOMAIN pool'[a] = RowFields /\ pool'[a].active = pool[a].active - 1
        /\ pool'[a].talks = [pool[a].talks EXCEPT ![talk] = pool[a].talks[talk] - 1]
        /\ pool'[a].refreshing = pool[a].refreshing
    BY ZenonT(30), <1>3, <1>4, <1>6, <2>0 DEF release, RowExact, RowFields
  <2>6. DOMAIN pool'[a].talks = Talks /\ pool'[a].talks[talk] = pool[a].talks[talk] - 1
    BY Zenon, <1>4, <2>0, <2>5 DEF RowExact
  <2>7. \A t \in Talks : t # talk => pool'[a].talks[t] = pool[a].talks[t]
    BY Zenon, <2>0, <2>5 DEF RowExact
  <2>8. \A t \in Talks : pool'[a].talks[t] = Cardinality(Sharing(a, t)')
    BY Zenon, <2>0, <2>3, <2>4, <2>6, <2>7 DEF RowExact
  <2>9. pool'[a].active = Cardinality(Using(a)')
    BY Zenon, <2>0, <2>2, <2>5 DEF RowExact
  <2>10. pool'[a].refreshing => Using(a)' = {}
    BY Zenon, <1>4, <2>0, <2>5 DEF RowExact
  <2> QED BY Zenon, <2>5, <2>6, <2>8, <2>9, <2>10 DEF RowExact
<1>7. \A o \in BrCalls : DOMAIN brCall'[o] = CallFields
  BY ZenonT(30), <1>2, <1>3 DEF BridgeInvariant
<1> QED BY <1>3, <1>5, <1>6, <1>7 DEF BridgeInvariant

\* The executor's verdict changes readiness and cooldown only.
LEMMA RunStreamStep ==
    ASSUME BridgeInvariant, NEW c \in BrCalls, RunStream(c)
    PROVE  BridgeInvariant'
<1> DEFINE a == brCall[c].account
<1>1. PICK outcome \in {"ok", "quota", "auth", "other"}, next \in {"retrying", "leaving"} :
        /\ pool' = [pool EXCEPT ![a] =
                CASE outcome = "ok" -> Succeeded(a)
                  [] outcome = "quota" -> [@ EXCEPT !.cooldown = now + Cooldown]
                  [] outcome = "auth" -> [@ EXCEPT !.ready = FALSE, !.cooldown = now + Cooldown]
                  [] OTHER -> @]
        /\ brCall' = [brCall EXCEPT ![c].stage = next]
  BY Zenon DEF RunStream
<1> DEFINE q == [brCall[c] EXCEPT !.stage = next]
<1>2. DOMAIN q = CallFields /\ q.stage = next /\ q.account = a /\ brCall[c].stage = "running"
  BY DEF BridgeInvariant, CallFields, RunStream
<1>3. brCall' = [brCall EXCEPT ![c] = q]
  BY <1>1 DEF BridgeInvariant
<1> HIDE DEF q
<1>4. DOMAIN brCall' = BrCalls /\ brCall'[c] = q /\ \A o \in BrCalls : o # c => brCall'[o] = brCall[o]
  BY Zenon, <1>3 DEF BridgeInvariant
<1>5. ASSUME NEW x \in BrAccounts PROVE RowExact(x)'
  <2>1. ASSUME NEW o \in BrCalls PROVE (o \in Using(x)') = (o \in Using(x))
    BY <1>1, <1>2, <1>4 DEF Using
  <2>2. Using(x)' = Using(x) /\ RowExact(x)
    BY <2>1, SameUsing DEF BridgeInvariant
  <2>3. x = a =>
          pool'[x] \in {pool[a], Succeeded(a), [pool[a] EXCEPT !.cooldown = now + Cooldown],
                        [pool[a] EXCEPT !.ready = FALSE, !.cooldown = now + Cooldown]}
    BY <1>1 DEF BridgeInvariant
  <2>4. x # a => pool'[x] = pool[x]
    BY <1>1 DEF BridgeInvariant
  <2>5. /\ DOMAIN pool'[x] = RowFields /\ pool'[x].active = pool[x].active /\ pool'[x].talks = pool[x].talks
        /\ pool'[x].refreshing = pool[x].refreshing
    BY ZenonT(30), <2>2, <2>3, <2>4 DEF Succeeded, RowExact, RowFields
  <2> QED BY Zenon, <2>2, <2>5, RowStays
<1>6. DOMAIN pool' = BrAccounts /\ \A o \in BrCalls : DOMAIN brCall'[o] = CallFields
  BY <1>1, <1>2, <1>4 DEF BridgeInvariant
<1> QED BY <1>4, <1>5, <1>6 DEF BridgeInvariant

\* Steps on one account that no call takes part in.
LEMMA AccountStep ==
    ASSUME BridgeInvariant, UNCHANGED brCall, NEW a \in BrAccounts,
           RefreshBegins(a) \/ RefreshEnds(a) \/ \E on \in BOOLEAN : setEnabled(a, on)
    PROVE  BridgeInvariant'
<1>0. RowExact(a) /\ DOMAIN pool = BrAccounts
  BY DEF BridgeInvariant
<1>1. /\ DOMAIN pool' = BrAccounts /\ \A x \in BrAccounts : x # a => pool'[x] = pool[x]
      /\ DOMAIN pool'[a] = RowFields /\ pool'[a].active = pool[a].active /\ pool'[a].talks = pool[a].talks
      /\ pool'[a].refreshing => pool[a].refreshing \/ pool[a].active = 0
  <2>1. CASE RefreshBegins(a)
    BY <1>0, <2>1 DEF RefreshBegins, RowExact, RowFields
  <2>2. CASE RefreshEnds(a)
    <3>1. PICK ok \in BOOLEAN : pool' = [pool EXCEPT ![a].ready = ok, ![a].refreshing = FALSE]
      BY Zenon, <2>2 DEF RefreshEnds
    <3>2. pool'[a] = [pool[a] EXCEPT !.ready = ok, !.refreshing = FALSE]
          /\ DOMAIN pool' = BrAccounts /\ \A x \in BrAccounts : x # a => pool'[x] = pool[x]
      BY <1>0, <3>1
    <3>3. pool[a].refreshing
      BY <2>2 DEF RefreshEnds
    <3> QED BY <1>0, <3>2, <3>3 DEF RowExact, RowFields
  <2>3. CASE \E on \in BOOLEAN : setEnabled(a, on)
    BY <1>0, <2>3 DEF setEnabled, RowExact, RowFields
  <2> QED BY Zenon, <2>1, <2>2, <2>3
<1>2. ASSUME NEW x \in BrAccounts PROVE RowExact(x)'
  <2>1. Using(x)' = Using(x) /\ RowExact(x)
    BY DEF Using, BridgeInvariant
  <2> QED BY Zenon, <1>1, <2>1, RowStays DEF RowExact
<1> QED BY <1>1, <1>2 DEF BridgeInvariant

\* Every step keeps the invariant.
LEMMA BridgeStep ==
    ASSUME BridgeInvariant, [BridgeNext]_<<now, bridgeVars>>
    PROVE  BridgeInvariant'
<1>1. ASSUME NEW c \in BrCalls, ServeBridge(c) PROVE BridgeInvariant'
  <2>1. UNCHANGED pool /\ brCall[c].stage = "idle"
    BY <1>1 DEF ServeBridge
  <2>2. Ends(c) \/ brCall' = [brCall EXCEPT ![c].stage = "waiting"]
    BY <1>1 DEF ServeBridge
  <2> QED BY <2>1, <2>2, EndsStep, StageStep DEF Serving
<1>2. ASSUME NEW c \in BrCalls, Emit(c) PROVE BridgeInvariant'
  <2> DEFINE q == [brCall[c] EXCEPT !.started = TRUE]
  <2>1. brCall' = [brCall EXCEPT ![c] = q] /\ UNCHANGED pool
    BY <1>2 DEF Emit, BridgeInvariant
  <2>2. DOMAIN q = CallFields /\ q.stage = brCall[c].stage /\ q.account = brCall[c].account
    BY DEF BridgeInvariant, CallFields
  <2> HIDE DEF q
  <2> QED BY Zenon, <2>1, <2>2, CallsOnly
<1>3. ASSUME NEW c \in BrCalls, CallStep(c) PROVE BridgeInvariant'
  BY Zenon, <1>1, <1>2, <1>3, SelectionKeeps, ReserveStep, RunStreamStep, ReleaseStep DEF CallStep, SelectionStep
<1>4. ASSUME NEW a \in BrAccounts,
             RefreshBegins(a) \/ RefreshEnds(a) \/ \E on \in BOOLEAN : setEnabled(a, on)
      PROVE  BridgeInvariant'
  BY Zenon, <1>4, AccountStep DEF RefreshBegins, RefreshEnds, setEnabled
<1>5. CASE UNCHANGED bridgeVars
  BY <1>5 DEF bridgeVars, BridgeInvariant, RowExact, Using, Sharing
<1> QED BY <1>3, <1>4, <1>5 DEF BridgeNext, BridgeTick

\* The pool's counters always name exactly the calls that use an account, and
\* an account being probed serves none, for any accounts, calls and layers.
THEOREM SlotsExactHolds == BridgeSpec => []SlotsExact
<1>1. BridgeInit => BridgeInvariant
  <2> SUFFICES ASSUME BridgeInit PROVE BridgeInvariant
    OBVIOUS
  <2>1. ASSUME NEW a \in BrAccounts PROVE RowExact(a)
    <3>1. Using(a) = {} /\ \A t : Sharing(a, t) = {}
      BY DEF BridgeInit, Using, Sharing, Waiting
    <3>2. Cardinality({}) = 0
      BY FS_EmptySet
    <3>3. pool[a] = Rested
      BY Zenon DEF BridgeInit
    <3>4. /\ DOMAIN Rested = RowFields /\ Rested.active = 0 /\ Rested.talks = [t \in Talks |-> 0]
          /\ ~Rested.refreshing
      BY Zenon DEF Rested, RowFields
    <3> QED BY Zenon, <3>1, <3>2, <3>3, <3>4 DEF RowExact
  <2>2. \A c \in BrCalls : DOMAIN brCall[c] = CallFields
    BY Zenon DEF BridgeInit, Waiting, CallFields
  <2> QED BY Zenon, <2>1, <2>2 DEF BridgeInit, BridgeInvariant
<1>2. BridgeInvariant => SlotsExact
  BY DEF BridgeInvariant, RowExact, SlotsExact, Sharing
<1> QED BY <1>1, <1>2, BridgeStep, PTL DEF BridgeSpec

-----------------------------------------------------------------------------
(* Requests per window                                                     *)

Windows == 0..LimiterHorizon
RequestSteps == {"new", "read", "reserved", "rejected", "admitted", "failed", "released", "tried"}
RequestRows == [at : Windows, step : RequestSteps]
CounterRows == [start : Nat, count : Nat]

KeptOf(o, w) == {r \in passed[w] : o \in Owners(r)}
TriedIn(w) == {r \in Requests : request[r] = [at |-> w, step |-> "tried"]}

\* n requests kept in window w are no more than counter c accounts for, when
\* the windows it was set back for account for p.
Within(c, n, p, limit, w) ==
    /\ c.start = w => n <= p + c.count
    /\ c.start > w => n <= p + limit
    /\ c.start < w => n <= p

CounterWithin(o) ==
    /\ perWindow[o].count <= LimitOf(o)
    /\ \A w \in Windows : IsFiniteSet(KeptOf(o, w))
                          /\ Within(perWindow[o], Cardinality(KeptOf(o, w)), LimitOf(o) * late, LimitOf(o), w)

TriesWithin ==
    /\ tried.count <= KeyPerWindow
    /\ \A w \in Windows : IsFiniteSet(TriedIn(w))
                          /\ Within(tried, Cardinality(TriedIn(w)), KeyPerWindow * lateTries, KeyPerWindow, w)

LimiterTypeOK ==
    /\ now \in Windows /\ late \in Nat /\ lateTries \in Nat
    /\ request \in [Requests -> RequestRows]
    /\ perWindow \in [Scopes -> CounterRows]
    /\ tried \in CounterRows
    /\ DOMAIN passed = Windows

ReservedAreKept == \A r \in Requests : request[r].step = "reserved" => r \in passed[request[r].at]

LimiterInvariant ==
    /\ LimiterTypeOK
    /\ ReservedAreKept
    /\ \A o \in Scopes : CounterWithin(o)
    /\ TriesWithin

\* The limits are positive.
LEMMA Limits ==
    /\ KeyPerWindow \in Nat /\ KeyPerWindow > 0
    /\ \A o : LimitOf(o) \in Nat /\ LimitOf(o) > 0
    /\ \A r \in Requests : Owners(r) \subseteq Scopes
    /\ LimiterHorizon \in Nat
<1>1. KeyPerWindow \in Nat \ {0} /\ UserPerWindow \in Nat \ {0}
  BY LimiterAssumption
<1>2. \A r \in Requests : KeyOf[r] \in Keys /\ UserOf[r] \in Callers
  BY LimiterAssumption
<1> QED BY <1>1, <1>2, LimiterAssumption DEF LimitOf, Owners, Scopes

\* One more window set back accounts for one more limit.
LEMMA Allowances ==
    ASSUME NEW limit \in Nat, NEW l \in Nat
    PROVE  limit * l \in Nat /\ limit * (l + 1) = limit * l + limit /\ limit * (1 + l) = limit * l + limit
  OBVIOUS

\* A counter brought to window v accounts for what was kept; p is more by a
\* limit if that set the counter back.
LEMMA CounterMoves ==
    ASSUME NEW c \in CounterRows, NEW n \in Nat, NEW p \in Nat, NEW limit \in Nat, NEW w \in Nat, NEW v \in Nat,
           c.count <= limit, Within(c, n, p, limit, w),
           NEW q \in Nat, p <= q, c.start > v => p + limit <= q
    PROVE  /\ activeCounter(c, v) \in CounterRows /\ activeCounter(c, v).count <= limit /\ activeCounter(c, v).start = v
           /\ Within(activeCounter(c, v), n, q, limit, w)
<1>1. c.start \in Nat /\ c.count \in Nat
  BY DEF CounterRows
<1>2. CASE c.start = v
  <2>1. activeCounter(c, v) = c
    BY <1>2 DEF activeCounter
  <2> QED BY <1>1, <1>2, <2>1 DEF Within
<1>3. CASE c.start # v
  <2> DEFINE d == [start |-> v, count |-> 0]
  <2>1. activeCounter(c, v) = d
    BY <1>3 DEF activeCounter
  <2>2. d \in CounterRows /\ d.start = v /\ d.count = 0
    BY DEF CounterRows
  <2> HIDE DEF d
  <2> QED BY <1>1, <1>3, <2>1, <2>2 DEF Within
<1> QED BY <1>2, <1>3

\* A request more in the window of the counter.
OneMore(c) == [c EXCEPT !.count = @ + 1]

\* Counting one more request of a window.
LEMMA CounterCounts ==
    ASSUME NEW c \in CounterRows, NEW n \in Nat, NEW m \in Nat, NEW p \in Nat, NEW limit \in Nat, NEW w \in Nat,
           c.count < limit, Within(c, n, p, limit, w), m <= n + 1, c.start # w => m = n
    PROVE  OneMore(c) \in CounterRows /\ OneMore(c).count <= limit /\ Within(OneMore(c), m, p, limit, w)
<1>1. c.start \in Nat /\ c.count \in Nat
  BY DEF CounterRows
<1>2. OneMore(c) \in CounterRows /\ OneMore(c).start = c.start /\ OneMore(c).count = c.count + 1
  BY <1>1 DEF CounterRows, OneMore
<1> QED BY <1>1, <1>2 DEF Within

\* A request taken out of its window.
LEMMA CounterRollsBack ==
    ASSUME NEW c \in CounterRows, NEW n \in Nat, NEW m \in Nat, NEW p \in Nat, NEW limit \in Nat, NEW w \in Nat, NEW v \in Nat,
           c.count <= limit, Within(c, n, p, limit, w), m <= n, v = w => m = n - 1
    PROVE  /\ RolledBack(c, v) \in CounterRows /\ RolledBack(c, v).count <= limit
           /\ Within(RolledBack(c, v), m, p, limit, w)
<1>1. c.start \in Nat /\ c.count \in Nat
  BY DEF CounterRows
<1>2. CASE c.start = v /\ c.count > 0
  <2> DEFINE d == [c EXCEPT !.count = @ - 1]
  <2>1. RolledBack(c, v) = d
    BY <1>2 DEF RolledBack
  <2>2. d \in CounterRows /\ d.start = c.start /\ d.count = c.count - 1
    BY <1>1, <1>2 DEF CounterRows
  <2> HIDE DEF d
  <2> QED BY <1>1, <1>2, <2>1, <2>2 DEF Within
<1>3. CASE ~(c.start = v /\ c.count > 0)
  <2>1. RolledBack(c, v) = c
    BY <1>3 DEF RolledBack
  <2> QED BY <1>1, <1>3, <2>1 DEF Within
<1> QED BY <1>2, <1>3

\* A request moves on, other than by an attempt.
LEMMA RequestMoves ==
    ASSUME LimiterTypeOK, NEW r \in Requests, NEW t \in Windows, NEW step \in RequestSteps \ {"tried"},
           request[r].step # "tried", request' = [request EXCEPT ![r] = [at |-> t, step |-> step]]
    PROVE  /\ request' \in [Requests -> RequestRows]
           /\ request'[r].step = step /\ request'[r].at = t
           /\ \A q \in Requests : q # r => request'[q] = request[q]
           /\ \A w : TriedIn(w)' = TriedIn(w)
<1> DEFINE row == [at |-> t, step |-> step]
<1>1. row \in RequestRows /\ row.step = step /\ row.at = t
  BY DEF RequestRows
<1>2. request' = [request EXCEPT ![r] = row]
  OBVIOUS
<1> HIDE DEF row
<1>3. /\ request' \in [Requests -> RequestRows]
      /\ \A q \in Requests : request'[q] = IF q = r THEN row ELSE request[q]
  BY <1>1, <1>2 DEF LimiterTypeOK
<1>4. ASSUME NEW w PROVE TriedIn(w)' = TriedIn(w)
  <2> DEFINE x == [at |-> w, step |-> "tried"]
  <2>1. x.step = "tried"
    OBVIOUS
  <2> HIDE DEF x
  <2>2. row # x /\ request[r] # x
    BY Zenon, <1>1, <2>1
  <2>3. \A q \in Requests : request'[q] = x <=> request[q] = x
    BY Zenon, <1>3, <2>2
  <2>4. {q \in Requests : request'[q] = x} = {q \in Requests : request[q] = x}
    BY Zenon, <2>3
  <2> QED BY Zenon, <2>4 DEF TriedIn, x
<1> QED BY Zenon, <1>1, <1>3, <1>4

\* The same when the instant of the request stays.
LEMMA StepMoves ==
    ASSUME LimiterTypeOK, NEW r \in Requests, NEW step \in RequestSteps \ {"tried"},
           request[r].step # "tried", At(r, step)
    PROVE  /\ request' \in [Requests -> RequestRows]
           /\ request'[r].step = step /\ request'[r].at = request[r].at
           /\ \A q \in Requests : q # r => request'[q] = request[q]
           /\ \A w : TriedIn(w)' = TriedIn(w)
<1>1. request[r].at \in Windows /\ request[r] \in RequestRows
  BY DEF LimiterTypeOK, RequestRows
<1>2. [request[r] EXCEPT !.step = step] = [at |-> request[r].at, step |-> step]
  BY <1>1 DEF RequestRows
<1>3. request' = [request EXCEPT ![r] = [request[r] EXCEPT !.step = step]]
  BY Zenon DEF At
<1>4. request' = [request EXCEPT ![r] = [at |-> request[r].at, step |-> step]]
  BY Zenon, <1>2, <1>3
<1> QED BY Zenon, <1>1, <1>4, RequestMoves

\* What an attempt counted stays counted while nobody attempts,
LEMMA TriesStay ==
    ASSUME TriesWithin, \A w : TriedIn(w)' = TriedIn(w), UNCHANGED <<tried, lateTries>>
    PROVE  TriesWithin'
  BY Zenon DEF TriesWithin, Within

\* and the counters while nobody reserves or rolls back.
LEMMA CountersStay ==
    ASSUME \A o \in Scopes : CounterWithin(o), UNCHANGED <<perWindow, late, passed>>
    PROVE  \A o \in Scopes : CounterWithin(o)'
  BY Zenon DEF CounterWithin, Within, KeptOf

\* A request that moves on to no reservation leaves the reserved ones kept.
LEMMA ReservedStay ==
    ASSUME ReservedAreKept, NEW r \in Requests, request'[r].step # "reserved",
           \A q \in Requests : q # r => request'[q] = request[q],
           \A q \in Requests : q # r => \A w : q \in passed[w] => q \in passed'[w]
    PROVE  ReservedAreKept'
  BY Zenon DEF ReservedAreKept

\* Steps that count nothing.
LEMMA QuietSteps ==
    ASSUME LimiterInvariant, NEW r \in Requests, UNCHANGED now,
           ReadClock(r) \/ ReserveDaily(r) \/ releaseFor(r)
    PROVE  LimiterInvariant'
<1>1. UNCHANGED <<perWindow, tried, late, lateTries, passed>>
  BY Zenon DEF ReadClock, ReserveDaily, releaseFor
<1>2. /\ request' \in [Requests -> RequestRows]
      /\ request'[r].step # "reserved"
      /\ \A q \in Requests : q # r => request'[q] = request[q]
      /\ \A w : TriedIn(w)' = TriedIn(w)
  <2>0. "read" # "reserved" /\ "admitted" # "reserved" /\ "released" # "reserved"
    OBVIOUS
  <2>1. CASE ReadClock(r)
    <3>1. /\ request[r].step # "tried" /\ now \in Windows /\ "read" \in RequestSteps \ {"tried"}
          /\ request' = [request EXCEPT ![r] = [at |-> now, step |-> "read"]]
      BY <2>1 DEF ReadClock, LimiterInvariant, LimiterTypeOK, RequestSteps
    <3> QED BY Zenon, <2>0, <3>1, RequestMoves DEF LimiterInvariant
  <2>2. CASE ReserveDaily(r)
    <3>1. request[r].step # "tried" /\ "admitted" \in RequestSteps \ {"tried"} /\ At(r, "admitted")
      BY Zenon, <2>2 DEF ReserveDaily, RequestSteps
    <3> QED BY ZenonT(30), <2>0, <3>1, StepMoves DEF LimiterInvariant
  <2>3. CASE releaseFor(r)
    <3>1. request[r].step # "tried" /\ "released" \in RequestSteps \ {"tried"} /\ At(r, "released")
      BY Zenon, <2>3 DEF releaseFor, RequestSteps
    <3> QED BY ZenonT(30), <2>0, <3>1, StepMoves DEF LimiterInvariant
  <2> QED BY Zenon, <2>1, <2>2, <2>3
<1>3. LimiterTypeOK'
  BY Zenon, <1>1, <1>2 DEF LimiterInvariant, LimiterTypeOK
<1>4. ReservedAreKept'
  BY Zenon, <1>1, <1>2, ReservedStay DEF LimiterInvariant
<1>5. TriesWithin' /\ \A o \in Scopes : CounterWithin(o)'
  BY Zenon, <1>1, <1>2, TriesStay, CountersStay DEF LimiterInvariant
<1> QED BY Zenon, <1>3, <1>4, <1>5 DEF LimiterInvariant

\* Lateness never lets a scope have less.
LEMMA AllowanceGrows ==
    ASSUME NEW limit \in Nat, NEW l \in Nat, NEW k, k = l \/ k = l + 1
    PROVE  k \in Nat /\ limit * k \in Nat /\ limit * l \in Nat /\ limit * l <= limit * k
           /\ (k = l + 1 => limit * l + limit <= limit * k)
<1>1. limit * l \in Nat /\ limit * (l + 1) = limit * l + limit
  BY Zenon, Allowances
<1>2. CASE k = l
  <2>1. limit * k = limit * l
    BY Zenon, <1>2
  <2> QED BY <1>1, <1>2, <2>1
<1>3. CASE k = l + 1
  <2>1. limit * k = limit * (l + 1)
    BY Zenon, <1>3
  <2> QED BY <1>1, <1>3, <2>1
<1> QED BY Zenon, <1>2, <1>3

\* Window v keeps request r, or keeps it no longer.
Gains(v, r) == DOMAIN passed = Windows /\ passed' = [passed EXCEPT ![v] = @ \cup {r}]
Loses(v, r) == DOMAIN passed = Windows /\ r \in passed[v] /\ passed' = [passed EXCEPT ![v] = @ \ {r}]

\* What that is to the requests of a scope.
FiniteOf(o) == \A w \in Windows : IsFiniteSet(KeptOf(o, w))
KeepsCount(o) ==
    \A w \in Windows : IsFiniteSet(KeptOf(o, w)') /\ Cardinality(KeptOf(o, w)') = Cardinality(KeptOf(o, w))
GainsOne(o, v) ==
    \A w \in Windows :
        /\ IsFiniteSet(KeptOf(o, w)') /\ Cardinality(KeptOf(o, w)') \in Nat
        /\ Cardinality(KeptOf(o, w)') <= Cardinality(KeptOf(o, w)) + 1
        /\ w # v => Cardinality(KeptOf(o, w)') = Cardinality(KeptOf(o, w))
LosesOne(o, v) ==
    \A w \in Windows :
        /\ IsFiniteSet(KeptOf(o, w)') /\ Cardinality(KeptOf(o, w)') \in Nat
        /\ Cardinality(KeptOf(o, w)') <= Cardinality(KeptOf(o, w))
        /\ v = w => Cardinality(KeptOf(o, w)') = Cardinality(KeptOf(o, w)) - 1

\* A scope whose counter and requests stay has what it had.
LEMMA ScopeStays ==
    ASSUME NEW o, perWindow[o] \in CounterRows, CounterWithin(o), late \in Nat, late' = late \/ late' = late + 1,
           perWindow'[o] = perWindow[o], KeepsCount(o)
    PROVE  CounterWithin(o)'
<1> DEFINE limit == LimitOf(o)
<1> DEFINE c == perWindow[o]
<1>1. limit \in Nat
  BY Zenon, Limits
<1>2. limit * late' \in Nat /\ limit * late \in Nat /\ limit * late <= limit * late'
  BY Zenon, <1>1, AllowanceGrows
<1>3. c.start \in Nat /\ c.count \in Nat
  BY DEF CounterRows
<1>4. ASSUME NEW w \in Windows
      PROVE  Within(c, Cardinality(KeptOf(o, w)), limit * late', limit, w)
  <2>1. Cardinality(KeptOf(o, w)) \in Nat /\ Within(c, Cardinality(KeptOf(o, w)), limit * late, limit, w)
    BY Zenon, FS_CardinalityType DEF CounterWithin
  <2>2. w \in Nat
    BY Limits DEF Windows
  <2> HIDE DEF limit, c
  <2> QED BY <1>1, <1>2, <1>3, <2>1, <2>2 DEF Within
<1>5. LimitOf(o)' = limit
  BY Zenon DEF LimitOf
<1> QED BY Zenon, <1>4, <1>5 DEF CounterWithin, LimitOf, KeepsCount

\* A scope of the request: its counter is brought to the window of the request.
LEMMA ScopeMoves ==
    ASSUME NEW o, perWindow[o] \in CounterRows, CounterWithin(o), late \in Nat, NEW v \in Windows, NEW k,
           k = late \/ k = late + 1, perWindow[o].start > v => k = late + 1,
           NEW d, d = activeCounter(perWindow[o], v)
    PROVE  /\ d \in CounterRows /\ d.count <= LimitOf(o) /\ d.start = v
           /\ \A w \in Windows : Within(d, Cardinality(KeptOf(o, w)), LimitOf(o) * k, LimitOf(o), w)
<1> DEFINE limit == LimitOf(o)
<1> DEFINE c == perWindow[o]
<1>1. limit \in Nat
  BY Zenon, Limits
<1>2. /\ limit * k \in Nat /\ limit * late \in Nat /\ limit * late <= limit * k
      /\ k = late + 1 => limit * late + limit <= limit * k
  BY Zenon, <1>1, AllowanceGrows
<1>3. Windows \subseteq Nat
  BY Limits DEF Windows
<1>4. ASSUME NEW w \in Windows
      PROVE  /\ d \in CounterRows /\ d.count <= limit /\ d.start = v
             /\ Within(d, Cardinality(KeptOf(o, w)), limit * k, limit, w)
  <2>1. /\ Cardinality(KeptOf(o, w)) \in Nat /\ Within(c, Cardinality(KeptOf(o, w)), limit * late, limit, w)
        /\ c.count <= limit
    BY Zenon, FS_CardinalityType DEF CounterWithin
  <2>2. c \in CounterRows /\ d = activeCounter(c, v) /\ (c.start > v => limit * late + limit <= limit * k)
    BY Zenon, <1>2
  <2>3. w \in Nat /\ v \in Nat
    BY Zenon, <1>3
  <2>4. PICK n \in Nat : n = Cardinality(KeptOf(o, w))
    BY Zenon, <2>1
  <2>5. PICK p \in Nat : p = limit * late
    BY Zenon, <1>2
  <2>6. PICK q \in Nat : q = limit * k
    BY Zenon, <1>2
  <2>7. Within(c, n, p, limit, w) /\ p <= q /\ (c.start > v => p + limit <= q)
    BY Zenon, <1>2, <2>1, <2>2, <2>4, <2>5, <2>6
  <2> HIDE DEF limit, c
  <2>8. /\ activeCounter(c, v) \in CounterRows /\ activeCounter(c, v).count <= limit /\ activeCounter(c, v).start = v
        /\ Within(activeCounter(c, v), n, q, limit, w)
    BY ZenonT(30), <1>1, <2>1, <2>2, <2>3, <2>7, CounterMoves
  <2> QED BY Zenon, <2>2, <2>4, <2>6, <2>8
<1> QED BY Zenon, <1>4

\* The requests of a scope when one more is kept in window v.
LEMMA KeptMore ==
    ASSUME NEW v \in Windows, NEW r, NEW o, Gains(v, r), FiniteOf(o)
    PROVE  (o \notin Owners(r) => KeepsCount(o)) /\ GainsOne(o, v)
<1> SUFFICES ASSUME NEW w \in Windows
             PROVE  /\ o \notin Owners(r) => Cardinality(KeptOf(o, w)') = Cardinality(KeptOf(o, w))
                    /\ IsFiniteSet(KeptOf(o, w)')
                    /\ Cardinality(KeptOf(o, w)') \in Nat
                    /\ Cardinality(KeptOf(o, w)') <= Cardinality(KeptOf(o, w)) + 1
                    /\ w # v => Cardinality(KeptOf(o, w)') = Cardinality(KeptOf(o, w))
  BY Zenon DEF KeepsCount, GainsOne
<1>1. passed'[w] = IF w = v THEN passed[w] \cup {r} ELSE passed[w]
  BY Zenon DEF Gains
<1>2. KeptOf(o, w)' = {q \in passed'[w] : o \in Owners(q)}
  BY Zenon DEF KeptOf, Owners
<1>3. PICK S : S = KeptOf(o, w)
  BY Zenon
<1>4. PICK T : T = KeptOf(o, w)'
  BY Zenon
<1>5. T = S \/ (w = v /\ o \in Owners(r) /\ T = S \cup {r})
  BY <1>1, <1>2, <1>3, <1>4 DEF KeptOf
<1>6. IsFiniteSet(S)
  BY Zenon, <1>3 DEF FiniteOf
<1>7. /\ IsFiniteSet(S \cup {r}) /\ Cardinality(S) \in Nat
      /\ Cardinality(S \cup {r}) = Cardinality(S) \/ Cardinality(S \cup {r}) = Cardinality(S) + 1
  BY Zenon, <1>6, FS_AddElement, FS_CardinalityType
<1>8. IsFiniteSet(T) /\ (Cardinality(T) = Cardinality(S) \/ (w = v /\ o \in Owners(r) /\ Cardinality(T) = Cardinality(S) + 1))
  BY Zenon, <1>5, <1>6, <1>7
<1>9. Cardinality(T) \in Nat /\ Cardinality(T) <= Cardinality(S) + 1
  BY <1>7, <1>8
<1> QED BY Zenon, <1>3, <1>4, <1>8, <1>9

\* The requests of a scope when one is taken out of window v.
LEMMA KeptLess ==
    ASSUME NEW v \in Windows, NEW r, NEW o, Loses(v, r), FiniteOf(o)
    PROVE  IF o \in Owners(r) THEN LosesOne(o, v) ELSE KeepsCount(o)
<1> SUFFICES ASSUME NEW w \in Windows
             PROVE  /\ o \notin Owners(r) => Cardinality(KeptOf(o, w)') = Cardinality(KeptOf(o, w))
                    /\ IsFiniteSet(KeptOf(o, w)')
                    /\ Cardinality(KeptOf(o, w)') \in Nat
                    /\ Cardinality(KeptOf(o, w)') <= Cardinality(KeptOf(o, w))
                    /\ v = w /\ o \in Owners(r) => Cardinality(KeptOf(o, w)') = Cardinality(KeptOf(o, w)) - 1
  BY Zenon DEF KeepsCount, LosesOne
<1>1. (passed'[w] = IF w = v THEN passed[w] \ {r} ELSE passed[w]) /\ r \in passed[v]
  BY Zenon DEF Loses
<1>2. KeptOf(o, w)' = {q \in passed'[w] : o \in Owners(q)}
  BY Zenon DEF KeptOf, Owners
<1>3. PICK S : S = KeptOf(o, w)
  BY Zenon
<1>4. PICK T : T = KeptOf(o, w)'
  BY Zenon
<1>5. /\ ~(w = v /\ o \in Owners(r)) => T = S
      /\ w = v /\ o \in Owners(r) => T = S \ {r} /\ r \in S
  BY <1>1, <1>2, <1>3, <1>4 DEF KeptOf
<1>6. IsFiniteSet(S)
  BY Zenon, <1>3 DEF FiniteOf
<1>7. /\ IsFiniteSet(S \ {r}) /\ Cardinality(S) \in Nat
      /\ r \in S => Cardinality(S \ {r}) = Cardinality(S) - 1
  BY Zenon, <1>6, FS_RemoveElement, FS_CardinalityType
<1>8. /\ IsFiniteSet(T) /\ Cardinality(T) \in Nat
      /\ ~(w = v /\ o \in Owners(r)) => Cardinality(T) = Cardinality(S)
      /\ w = v /\ o \in Owners(r) => Cardinality(T) = Cardinality(S) - 1
  BY Zenon, <1>5, <1>6, <1>7, FS_CardinalityType
<1>9. Cardinality(T) <= Cardinality(S)
  <2>1. CASE w = v /\ o \in Owners(r)
    BY <1>7, <1>8, <2>1
  <2>2. CASE ~(w = v /\ o \in Owners(r))
    BY <1>7, <1>8, <2>2
  <2> QED BY Zenon, <2>1, <2>2
<1> QED BY Zenon, <1>3, <1>4, <1>8, <1>9

\* A reservation, admitted or not.
LEMMA ReserveLocalStep ==
    ASSUME LimiterInvariant, NEW r \in Requests, reserveLocal(r), UNCHANGED now
    PROVE  LimiterInvariant'
<1>0. PICK v \in Windows : v = request[r].at
  <2>1. request[r] \in RequestRows
    BY Zenon DEF LimiterInvariant, LimiterTypeOK
  <2> QED BY <2>1 DEF RequestRows
<1> DEFINE D(o) == activeCounter(perWindow[o], v)
<1> DEFINE current == [o \in Scopes |-> IF o \in Owners(r) THEN activeCounter(perWindow[o], v) ELSE perWindow[o]]
<1> DEFINE admitted == /\ \A o \in Owners(r) : current[o].count < LimitOf(o) /\ concurrent[o] < ConcurrentOf(o)
                       /\ globalCurrent < GlobalConcurrent
<1>1. /\ LimiterTypeOK /\ v \in Windows /\ late \in Nat /\ DOMAIN passed = Windows
      /\ \A o \in Scopes : perWindow[o] \in CounterRows
      /\ request[r].step = "read" /\ request[r].step # "tried"
  <2>1. LimiterTypeOK /\ request[r] \in RequestRows /\ request[r].step = "read"
    BY Zenon DEF LimiterInvariant, LimiterTypeOK, reserveLocal
  <2>2. "read" # "tried"
    OBVIOUS
  <2> QED BY Zenon, <1>0, <2>1, <2>2 DEF LimiterTypeOK
<1>2. Owners(r) \subseteq Scopes
  BY Zenon, Limits
<1>3. /\ late' = late \/ late' = late + 1
      /\ \A o \in Owners(r) : perWindow[o].start > v => late' = late + 1
  <2>1. late' = late + (IF \E o \in Owners(r) : perWindow[o].start > v THEN 1 ELSE 0)
    BY Zenon, <1>0 DEF reserveLocal
  <2>2. late + 0 = late
    BY <1>1
  <2> QED BY Zenon, <2>1, <2>2
<1>4. UNCHANGED <<tried, lateTries>>
  BY Zenon DEF reserveLocal
<1>5. \A o \in Scopes : CounterWithin(o)
  BY Zenon DEF LimiterInvariant
<1>6. \A o \in Scopes : FiniteOf(o)
  BY Zenon, <1>5 DEF CounterWithin, FiniteOf
<1>7. \A o \in Owners(r) :
        /\ D(o) \in CounterRows /\ D(o).count <= LimitOf(o) /\ D(o).start = v
        /\ \A w \in Windows : Within(D(o), Cardinality(KeptOf(o, w)), LimitOf(o) * late', LimitOf(o), w)
  <2> SUFFICES ASSUME NEW o \in Owners(r)
               PROVE  /\ D(o) \in CounterRows /\ D(o).count <= LimitOf(o) /\ D(o).start = v
                      /\ \A w \in Windows : Within(D(o), Cardinality(KeptOf(o, w)), LimitOf(o) * late', LimitOf(o), w)
    BY Zenon
  <2>1. PICK k : k = late'
    BY Zenon
  <2>2. PICK d : d = D(o)
    BY Zenon
  <2>3. /\ perWindow[o] \in CounterRows /\ CounterWithin(o) /\ (k = late \/ k = late + 1)
        /\ perWindow[o].start > v => k = late + 1
    BY Zenon, <1>1, <1>2, <1>3, <1>5, <2>1
  <2>4. d = activeCounter(perWindow[o], v)
    BY Zenon, <2>2
  <2> HIDE DEF D
  <2>5. /\ d \in CounterRows /\ d.count <= LimitOf(o) /\ d.start = v
        /\ \A w \in Windows : Within(d, Cardinality(KeptOf(o, w)), LimitOf(o) * k, LimitOf(o), w)
    BY Zenon, <1>1, <2>3, <2>4, ScopeMoves
  <2> QED BY Zenon, <2>1, <2>2, <2>5
<1>8. late' \in Nat
  BY <1>1, <1>3
<1>9. ASSUME request' \in [Requests -> RequestRows], perWindow' \in [Scopes -> CounterRows], DOMAIN passed' = Windows
      PROVE  LimiterTypeOK'
  BY Zenon, <1>1, <1>4, <1>8, <1>9 DEF LimiterTypeOK
<1>10. CASE admitted
  <2>1. /\ perWindow' = [o \in Scopes |-> IF o \in Owners(r) THEN [current[o] EXCEPT !.count = @ + 1] ELSE perWindow[o]]
        /\ passed' = [passed EXCEPT ![v] = @ \cup {r}]
        /\ At(r, "reserved")
    BY Zenon, <1>0, <1>10 DEF reserveLocal
  <2>0. Gains(v, r)
    BY Zenon, <1>1, <2>1 DEF Gains
  <2>2. "reserved" \in RequestSteps \ {"tried"}
    BY DEF RequestSteps
  <2>3. /\ request' \in [Requests -> RequestRows]
        /\ request'[r].step = "reserved" /\ request'[r].at = v
        /\ \A q \in Requests : q # r => request'[q] = request[q]
        /\ \A w : TriedIn(w)' = TriedIn(w)
    BY Zenon, <1>0, <1>1, <2>1, <2>2, StepMoves
  <2>4. \A o \in Owners(r) : current[o] = D(o)
    BY Zenon, <1>2
  <2>5. \A o \in Owners(r) : D(o).count < LimitOf(o)
    BY Zenon, <1>10, <2>4
  <2>6. \A o \in Owners(r) : perWindow'[o] = [D(o) EXCEPT !.count = @ + 1]
    BY Zenon, <1>2, <2>1, <2>4
  <2>7. \A o \in Scopes : o \notin Owners(r) => perWindow'[o] = perWindow[o]
    BY Zenon, <2>1
  <2> HIDE DEF current, admitted, D
  <2>8. ASSUME NEW o \in Scopes, o \notin Owners(r)
        PROVE  perWindow'[o] \in CounterRows /\ CounterWithin(o)'
    <3>1. KeepsCount(o)
      BY Zenon, <1>6, <2>0, <2>8, KeptMore
    <3> QED BY Zenon, <1>1, <1>3, <1>5, <2>7, <2>8, <3>1, ScopeStays
  <2>9. ASSUME NEW o \in Owners(r)
        PROVE  perWindow'[o] \in CounterRows /\ CounterWithin(o)'
    <3>1. o \in Scopes
      BY Zenon, <1>2
    <3>2. PICK limit \in Nat : limit = LimitOf(o)
      BY Zenon, Limits
    <3>3. PICK p \in Nat : p = LimitOf(o) * late'
      BY Zenon, <1>8, <3>2, Allowances
    <3>4. PICK d \in CounterRows : d = D(o)
      BY Zenon, <1>7
    <3>5. v \in Nat
      BY <1>1, Limits DEF Windows
    <3>6. ASSUME NEW w \in Windows
          PROVE  /\ perWindow'[o] \in CounterRows /\ perWindow'[o].count <= limit
                 /\ Within(perWindow'[o], Cardinality(KeptOf(o, w)'), p, limit, w)
                 /\ IsFiniteSet(KeptOf(o, w)')
      <4>1. PICK n \in Nat : n = Cardinality(KeptOf(o, w))
        BY Zenon, <1>6, <3>1, FS_CardinalityType DEF FiniteOf
      <4>2. /\ IsFiniteSet(KeptOf(o, w)') /\ Cardinality(KeptOf(o, w)') \in Nat
            /\ Cardinality(KeptOf(o, w)') <= n + 1
            /\ w # v => Cardinality(KeptOf(o, w)') = n
        <5>1. GainsOne(o, v)
          BY Zenon, <1>6, <2>0, <3>1, KeptMore
        <5> QED BY Zenon, <4>1, <5>1 DEF GainsOne
      <4>3. PICK m \in Nat : m = Cardinality(KeptOf(o, w)')
        BY Zenon, <4>2
      <4>4. w \in Nat
        BY Limits DEF Windows
      <4>5. /\ d.count < limit /\ d.start = v /\ Within(d, n, p, limit, w)
            /\ m <= n + 1 /\ (d.start # w => m = n)
        BY Zenon, <1>7, <2>5, <3>2, <3>3, <3>4, <4>1, <4>2, <4>3
      <4>6. perWindow'[o] = OneMore(d)
        BY Zenon, <2>6, <3>4 DEF OneMore
      <4>7. OneMore(d) \in CounterRows /\ OneMore(d).count <= limit /\ Within(OneMore(d), m, p, limit, w)
        BY Zenon, <4>4, <4>5, CounterCounts
      <4> QED BY Zenon, <4>2, <4>3, <4>6, <4>7
    <3>7. v \in Windows
      BY Zenon, <1>1
    <3>8. perWindow'[o] \in CounterRows /\ perWindow'[o].count <= limit
      BY Zenon, <3>6, <3>7
    <3> QED BY Zenon, <3>2, <3>3, <3>6, <3>8 DEF CounterWithin, LimitOf
  <2>10. \A o \in Scopes : perWindow'[o] \in CounterRows /\ CounterWithin(o)'
    BY Zenon, <2>8, <2>9
  <2>11. LimiterTypeOK'
    <3>1. DOMAIN passed' = Windows
      BY Zenon, <1>1, <2>1
    <3>2. perWindow' = [o \in Scopes |-> perWindow'[o]]
      BY Zenon, <2>1
    <3>3. perWindow' \in [Scopes -> CounterRows]
      BY Zenon, <2>10, <3>2
    <3> QED BY Zenon, <1>9, <2>3, <3>1, <3>3
  <2>12. ReservedAreKept'
    <3>1. \A w \in Windows : passed'[w] = IF w = v THEN passed[w] \cup {r} ELSE passed[w]
      BY Zenon, <1>1, <2>1
    <3>2. ASSUME NEW q \in Requests, request'[q].step = "reserved"
          PROVE  q \in passed'[request'[q].at]
      <4>1. CASE q = r
        BY Zenon, <1>1, <2>3, <3>1, <4>1
      <4>2. CASE q # r
        <5>1. request'[q] = request[q] /\ request[q].at \in Windows
          <6>1. request[q] \in RequestRows
            BY Zenon, <1>1 DEF LimiterTypeOK
          <6> QED BY <2>3, <4>2, <6>1 DEF RequestRows
        <5>2. q \in passed[request[q].at]
          BY Zenon, <3>2, <5>1 DEF LimiterInvariant, ReservedAreKept
        <5>3. passed[request[q].at] \subseteq passed'[request[q].at]
          BY Zenon, <3>1, <5>1
        <5> QED BY Zenon, <5>1, <5>2, <5>3
      <4> QED BY Zenon, <4>1, <4>2
    <3> QED BY Zenon, <3>2 DEF ReservedAreKept
  <2>13. TriesWithin'
    BY Zenon, <1>4, <2>3, TriesStay DEF LimiterInvariant
  <2> QED BY Zenon, <2>10, <2>11, <2>12, <2>13 DEF LimiterInvariant
<1>11. CASE ~admitted
  <2>1. perWindow' = current /\ UNCHANGED passed /\ At(r, "rejected")
    BY Zenon, <1>0, <1>11 DEF reserveLocal
  <2>2. "rejected" \in RequestSteps \ {"tried"} /\ "rejected" # "reserved"
    BY DEF RequestSteps
  <2>3. /\ request' \in [Requests -> RequestRows]
        /\ request'[r].step = "rejected"
        /\ \A q \in Requests : q # r => request'[q] = request[q]
        /\ \A w : TriedIn(w)' = TriedIn(w)
    BY Zenon, <1>0, <1>1, <2>1, <2>2, StepMoves
  <2>4. \A o \in Owners(r) : perWindow'[o] = D(o)
    BY Zenon, <1>2, <2>1
  <2>5. \A o \in Scopes : o \notin Owners(r) => perWindow'[o] = perWindow[o]
    BY Zenon, <2>1
  <2>6. perWindow' = [o \in Scopes |-> perWindow'[o]]
    BY Zenon, <2>1
  <2> HIDE DEF current, admitted, D
  <2>7. \A o, w : KeptOf(o, w)' = KeptOf(o, w)
    BY Zenon, <2>1 DEF KeptOf, Owners
  <2>7a. \A o \in Scopes : KeepsCount(o)
    BY Zenon, <1>6, <2>7 DEF KeepsCount, FiniteOf
  <2>8. ASSUME NEW o \in Scopes
        PROVE  perWindow'[o] \in CounterRows /\ CounterWithin(o)'
    <3>1. CASE o \notin Owners(r)
      BY Zenon, <1>1, <1>3, <1>5, <2>5, <2>7a, <3>1, ScopeStays
    <3>2. CASE o \in Owners(r)
      <4>1. perWindow'[o] \in CounterRows /\ perWindow'[o].count <= LimitOf(o)
        BY Zenon, <1>7, <2>4, <3>2
      <4>2. \A w \in Windows : Within(perWindow'[o], Cardinality(KeptOf(o, w)'), LimitOf(o) * late', LimitOf(o), w)
        BY Zenon, <1>7, <2>4, <2>7, <3>2
      <4>3. \A w \in Windows : IsFiniteSet(KeptOf(o, w)')
        BY Zenon, <1>6, <2>7 DEF FiniteOf
      <4> QED BY Zenon, <4>1, <4>2, <4>3 DEF CounterWithin, LimitOf
    <3> QED BY Zenon, <3>1, <3>2
  <2>9. LimiterTypeOK'
    <3>1. perWindow' \in [Scopes -> CounterRows]
      BY Zenon, <2>6, <2>8
    <3> QED BY Zenon, <1>1, <1>9, <2>1, <2>3, <3>1
  <2>10. ReservedAreKept'
    BY Zenon, <2>1, <2>2, <2>3, ReservedStay DEF LimiterInvariant
  <2>11. TriesWithin'
    BY Zenon, <1>4, <2>3, TriesStay DEF LimiterInvariant
  <2> QED BY Zenon, <2>8, <2>9, <2>10, <2>11 DEF LimiterInvariant
<1> QED BY Zenon, <1>10, <1>11

\* A reservation taken back.
LEMMA RollbackStep ==
    ASSUME LimiterInvariant, NEW r \in Requests, rollbackLocal(r), UNCHANGED now
    PROVE  LimiterInvariant'
<1>0. PICK v \in Windows : v = request[r].at
  <2>1. request[r] \in RequestRows
    BY Zenon DEF LimiterInvariant, LimiterTypeOK
  <2> QED BY <2>1 DEF RequestRows
<1>1. /\ LimiterTypeOK /\ v \in Windows /\ late \in Nat /\ DOMAIN passed = Windows
      /\ \A o \in Scopes : perWindow[o] \in CounterRows /\ CounterWithin(o)
      /\ request[r].step # "tried" /\ r \in passed[v]
  <2>1. LimiterTypeOK /\ request[r] \in RequestRows /\ request[r].step = "reserved"
    BY Zenon DEF LimiterInvariant, LimiterTypeOK, rollbackLocal
  <2>2. "reserved" # "tried"
    OBVIOUS
  <2> QED BY Zenon, <1>0, <2>1, <2>2 DEF LimiterTypeOK, LimiterInvariant, ReservedAreKept
<1>2. /\ perWindow' = [o \in Scopes |-> IF o \in Owners(r) THEN RolledBack(perWindow[o], v) ELSE perWindow[o]]
      /\ passed' = [passed EXCEPT ![v] = @ \ {r}]
      /\ At(r, "failed")
      /\ UNCHANGED <<tried, late, lateTries>>
  BY Zenon, <1>0 DEF rollbackLocal
<1>2a. Loses(v, r)
  BY Zenon, <1>1, <1>2 DEF Loses
<1>3. "failed" \in RequestSteps \ {"tried"} /\ "failed" # "reserved"
  BY DEF RequestSteps
<1>4. /\ request' \in [Requests -> RequestRows]
      /\ request'[r].step = "failed"
      /\ \A q \in Requests : q # r => request'[q] = request[q]
      /\ \A w : TriedIn(w)' = TriedIn(w)
  BY Zenon, <1>1, <1>2, <1>3, StepMoves
<1>5. \A o \in Scopes : perWindow'[o] = IF o \in Owners(r) THEN RolledBack(perWindow[o], v) ELSE perWindow[o]
  BY Zenon, <1>2
<1>6. perWindow' = [o \in Scopes |-> perWindow'[o]]
  BY Zenon, <1>2
<1>7. ASSUME NEW o \in Scopes
      PROVE  perWindow'[o] \in CounterRows /\ CounterWithin(o)'
  <2>1. FiniteOf(o)
    BY Zenon, <1>1 DEF CounterWithin, FiniteOf
  <2>2. CASE o \notin Owners(r)
    <3>1. KeepsCount(o)
      BY Zenon, <1>2a, <2>1, <2>2, KeptLess
    <3> QED BY Zenon, <1>1, <1>2, <1>5, <2>2, <3>1, ScopeStays
  <2>3. CASE o \in Owners(r)
    <3>1. PICK limit \in Nat : limit = LimitOf(o)
      BY Zenon, Limits
    <3>2. PICK p \in Nat : p = LimitOf(o) * late
      BY Zenon, <1>1, <3>1, Allowances
    <3>3. PICK c \in CounterRows : c = perWindow[o]
      BY Zenon, <1>1
    <3>4. v \in Nat
      BY <1>1, Limits DEF Windows
    <3>5. ASSUME NEW w \in Windows
          PROVE  /\ perWindow'[o] \in CounterRows /\ perWindow'[o].count <= limit
                 /\ Within(perWindow'[o], Cardinality(KeptOf(o, w)'), p, limit, w)
                 /\ IsFiniteSet(KeptOf(o, w)')
      <4>1. PICK n \in Nat : n = Cardinality(KeptOf(o, w))
        BY Zenon, <2>1, FS_CardinalityType DEF FiniteOf
      <4>2. /\ IsFiniteSet(KeptOf(o, w)') /\ Cardinality(KeptOf(o, w)') \in Nat
            /\ Cardinality(KeptOf(o, w)') <= n
            /\ v = w => Cardinality(KeptOf(o, w)') = n - 1
        <5>1. LosesOne(o, v)
          BY Zenon, <1>2a, <2>1, <2>3, KeptLess
        <5> QED BY Zenon, <4>1, <5>1 DEF LosesOne
      <4>3. PICK m \in Nat : m = Cardinality(KeptOf(o, w)')
        BY Zenon, <4>2
      <4>4. w \in Nat
        BY Limits DEF Windows
      <4>5. c.count <= limit /\ Within(c, n, p, limit, w) /\ m <= n /\ (v = w => m = n - 1)
        BY Zenon, <1>1, <3>1, <3>2, <3>3, <4>1, <4>2, <4>3 DEF CounterWithin
      <4>6. perWindow'[o] = RolledBack(c, v)
        BY Zenon, <1>5, <2>3, <3>3
      <4>7. RolledBack(c, v) \in CounterRows /\ RolledBack(c, v).count <= limit /\ Within(RolledBack(c, v), m, p, limit, w)
        BY ZenonT(30), <3>4, <4>4, <4>5, CounterRollsBack
      <4> QED BY Zenon, <4>2, <4>3, <4>6, <4>7
    <3>6. perWindow'[o] \in CounterRows /\ perWindow'[o].count <= limit
      BY Zenon, <1>1, <3>5
    <3>7. p = LimitOf(o) * late'
      BY Zenon, <1>2, <3>2
    <3> QED BY Zenon, <3>1, <3>5, <3>6, <3>7 DEF CounterWithin, LimitOf
  <2> QED BY Zenon, <2>2, <2>3
<1>8. LimiterTypeOK'
  <2>1. perWindow' \in [Scopes -> CounterRows]
    BY Zenon, <1>6, <1>7
  <2>2. DOMAIN passed' = Windows
    BY Zenon, <1>1, <1>2
  <2> QED BY Zenon, <1>1, <1>2, <1>4, <2>1, <2>2 DEF LimiterTypeOK
<1>9. ReservedAreKept'
  <2>1. \A q \in Requests : q # r => \A w : q \in passed[w] => q \in passed'[w]
    BY <1>1, <1>2
  <2> QED BY Zenon, <1>3, <1>4, <2>1, ReservedStay DEF LimiterInvariant
<1>10. TriesWithin'
  BY Zenon, <1>2, <1>4, TriesStay DEF LimiterInvariant
<1> QED BY Zenon, <1>7, <1>8, <1>9, <1>10 DEF LimiterInvariant

\* An attempt.
LEMMA AllowStep ==
    ASSUME LimiterInvariant, NEW r \in Requests, allow(r), UNCHANGED now
    PROVE  LimiterInvariant'
<1>0. PICK v \in Windows : v = request[r].at
  <2>1. request[r] \in RequestRows
    BY Zenon DEF LimiterInvariant, LimiterTypeOK
  <2> QED BY <2>1 DEF RequestRows
<1> DEFINE entry == activeCounter(tried, v)
<1>1. /\ LimiterTypeOK /\ v \in Windows /\ lateTries \in Nat /\ tried \in CounterRows /\ TriesWithin
      /\ request[r].step # "tried" /\ request[r] \in RequestRows
  <2>1. LimiterTypeOK /\ request[r] \in RequestRows /\ request[r].step = "read" /\ TriesWithin
    BY Zenon DEF LimiterInvariant, LimiterTypeOK, allow
  <2>2. "read" # "tried"
    OBVIOUS
  <2> QED BY Zenon, <1>0, <2>1, <2>2 DEF LimiterTypeOK
<1>2. UNCHANGED <<perWindow, late, passed>>
  BY Zenon DEF allow
<1>3. \A o \in Scopes : CounterWithin(o)'
  BY Zenon, <1>2, CountersStay DEF LimiterInvariant
<1>4. /\ lateTries' = lateTries \/ lateTries' = lateTries + 1
      /\ tried.start > v => lateTries' = lateTries + 1
      /\ lateTries' \in Nat
  <2>1. lateTries' = lateTries + (IF tried.start > v THEN 1 ELSE 0)
    BY Zenon, <1>0 DEF allow
  <2> QED BY <1>1, <2>1
<1>5. PICK limit \in Nat : limit = KeyPerWindow /\ limit > 0
  BY Zenon, Limits
<1>6. PICK p \in Nat : p = KeyPerWindow * lateTries
  BY Zenon, <1>1, <1>5, Allowances
<1>7. PICK q \in Nat : q = KeyPerWindow * lateTries' /\ p <= q /\ (tried.start > v => p + limit <= q)
  BY ZenonT(30), <1>1, <1>4, <1>5, <1>6, AllowanceGrows
<1>8. Windows \subseteq Nat
  BY Limits DEF Windows
<1>9. ASSUME NEW w \in Windows
      PROVE  /\ entry \in CounterRows /\ entry.count <= limit /\ entry.start = v
             /\ Within(entry, Cardinality(TriedIn(w)), q, limit, w)
  <2>1. PICK n \in Nat : n = Cardinality(TriedIn(w))
    BY Zenon, <1>1, FS_CardinalityType DEF TriesWithin
  <2>2. tried.count <= limit /\ Within(tried, n, p, limit, w)
    BY Zenon, <1>1, <1>5, <1>6, <2>1 DEF TriesWithin
  <2>3. v \in Nat /\ w \in Nat
    BY Zenon, <1>1, <1>8
  <2>4. /\ activeCounter(tried, v) \in CounterRows /\ activeCounter(tried, v).count <= limit /\ activeCounter(tried, v).start = v
        /\ Within(activeCounter(tried, v), n, q, limit, w)
    <3>1. PICK c \in CounterRows : c = tried
      BY Zenon, <1>1
    <3>2. c.count <= limit /\ Within(c, n, p, limit, w) /\ p <= q /\ (c.start > v => p + limit <= q)
      BY Zenon, <1>7, <2>2, <3>1
    <3>3. /\ activeCounter(c, v) \in CounterRows /\ activeCounter(c, v).count <= limit /\ activeCounter(c, v).start = v
          /\ Within(activeCounter(c, v), n, q, limit, w)
      BY Zenon, <2>3, <3>2, CounterMoves
    <3> QED BY Zenon, <3>1, <3>3
  <2> QED BY Zenon, <2>1, <2>4
<1>10. CASE entry.count < KeyPerWindow
  <2>1. tried' = [entry EXCEPT !.count = @ + 1] /\ At(r, "tried")
    BY Zenon, <1>0, <1>10 DEF allow
  <2> DEFINE row == [at |-> v, step |-> "tried"]
  <2>2. row \in RequestRows /\ row.step = "tried" /\ row.at = v /\ [request[r] EXCEPT !.step = "tried"] = row
    BY <1>0, <1>1 DEF RequestRows, RequestSteps
  <2>3. request' = [request EXCEPT ![r] = row]
    BY Zenon, <2>1, <2>2 DEF At
  <2> HIDE DEF row
  <2>4. /\ request' \in [Requests -> RequestRows]
        /\ \A x \in Requests : request'[x] = IF x = r THEN row ELSE request[x]
    BY Zenon, <1>1, <2>2, <2>3 DEF LimiterTypeOK
  <2> HIDE DEF entry
  <2>5. ASSUME NEW w \in Windows
        PROVE  /\ tried' \in CounterRows /\ tried'.count <= limit
               /\ Within(tried', Cardinality(TriedIn(w)'), q, limit, w)
               /\ IsFiniteSet(TriedIn(w)')
    <3>1. IsFiniteSet(TriedIn(w))
      BY Zenon, <1>1 DEF TriesWithin
    <3>2. PICK x : x = [at |-> w, step |-> "tried"]
      BY Zenon
    <3>3. TriedIn(w) = {z \in Requests : request[z] = x} /\ TriedIn(w)' = {z \in Requests : request'[z] = x}
      BY Zenon, <3>2 DEF TriedIn
    <3>4. row = x => w = v
      BY <2>2, <3>2
    <3>5. request[r] # x
      BY <1>1, <3>2
    <3>6. TriedIn(w)' = TriedIn(w) \/ (w = v /\ TriedIn(w)' = TriedIn(w) \cup {r})
      <4>1. CASE row = x
        <5>1. TriedIn(w)' = TriedIn(w) \cup {r}
          BY <2>4, <3>3, <4>1
        <5> QED BY Zenon, <3>4, <4>1, <5>1
      <4>2. CASE row # x
        BY <2>4, <3>3, <3>5, <4>2
      <4> QED BY Zenon, <4>1, <4>2
    <3>7. PICK S : S = TriedIn(w)
      BY Zenon
    <3>8. PICK T : T = TriedIn(w)'
      BY Zenon
    <3>9. IsFiniteSet(S) /\ IsFiniteSet(S \cup {r}) /\ Cardinality(S) \in Nat
          /\ (Cardinality(S \cup {r}) = Cardinality(S) \/ Cardinality(S \cup {r}) = Cardinality(S) + 1)
      BY Zenon, <3>1, <3>7, FS_AddElement, FS_CardinalityType
    <3>10. T = S \/ (w = v /\ T = S \cup {r})
      BY <3>6, <3>7, <3>8
    <3>11. IsFiniteSet(T) /\ (Cardinality(T) = Cardinality(S) \/ (w = v /\ Cardinality(T) = Cardinality(S) + 1))
      BY Zenon, <3>9, <3>10
    <3>12. PICK n \in Nat : n = Cardinality(S)
      BY Zenon, <3>9
    <3>13. PICK m \in Nat : m = Cardinality(T) /\ m <= n + 1 /\ (w # v => m = n)
      <4>1. Cardinality(T) \in Nat /\ Cardinality(T) <= n + 1 /\ (w # v => Cardinality(T) = n)
        BY <3>11, <3>12
      <4> QED BY Zenon, <4>1
    <3>14. PICK e \in CounterRows : e = entry
      BY Zenon, <1>9
    <3>15. e.count < limit /\ Within(e, n, q, limit, w) /\ m <= n + 1 /\ (e.start # w => m = n)
      BY Zenon, <1>5, <1>9, <1>10, <3>7, <3>12, <3>13, <3>14
    <3>16. tried' = OneMore(e)
      BY Zenon, <2>1, <3>14 DEF OneMore
    <3>17. w \in Nat
      BY Zenon, <1>8
    <3>18. OneMore(e) \in CounterRows /\ OneMore(e).count <= limit /\ Within(OneMore(e), m, q, limit, w)
      BY Zenon, <3>15, <3>17, CounterCounts
    <3> QED BY Zenon, <3>8, <3>11, <3>13, <3>16, <3>18
  <2>6. TriesWithin' /\ tried' \in CounterRows
    BY Zenon, <1>1, <1>5, <1>7, <2>5 DEF TriesWithin
  <2>7. LimiterTypeOK'
    BY Zenon, <1>1, <1>2, <1>4, <2>4, <2>6 DEF LimiterTypeOK
  <2>8. ReservedAreKept'
    <3>1. "tried" # "reserved"
      OBVIOUS
    <3>2. request'[r].step # "reserved" /\ \A z \in Requests : z # r => request'[z] = request[z]
      BY Zenon, <2>2, <2>4, <3>1
    <3> QED BY Zenon, <1>2, <3>2, ReservedStay DEF LimiterInvariant
  <2> QED BY Zenon, <1>3, <2>6, <2>7, <2>8 DEF LimiterInvariant
<1>11. CASE ~(entry.count < KeyPerWindow)
  <2>1. UNCHANGED tried /\ At(r, "rejected")
    BY Zenon, <1>0, <1>11 DEF allow
  <2>2. "rejected" \in RequestSteps \ {"tried"} /\ "rejected" # "reserved"
    BY DEF RequestSteps
  <2>3. /\ request' \in [Requests -> RequestRows]
        /\ request'[r].step = "rejected"
        /\ \A z \in Requests : z # r => request'[z] = request[z]
        /\ \A w : TriedIn(w)' = TriedIn(w)
    BY Zenon, <1>0, <1>1, <2>1, <2>2, StepMoves
  <2>4. entry = tried
    <3>1. tried.start # v => entry = [start |-> v, count |-> 0]
      BY Zenon DEF activeCounter
    <3>2. [start |-> v, count |-> 0].count = 0
      OBVIOUS
    <3>3. 0 < KeyPerWindow
      BY <1>5
    <3>4. tried.start # v => FALSE
      BY Zenon, <1>11, <3>1, <3>2, <3>3
    <3> QED BY Zenon, <3>4 DEF activeCounter
  <2>5. TriesWithin'
    <3>1. ASSUME NEW w \in Windows
          PROVE  IsFiniteSet(TriedIn(w)') /\ Within(tried', Cardinality(TriedIn(w)'), KeyPerWindow * lateTries', KeyPerWindow, w)
      BY Zenon, <1>1, <1>5, <1>7, <1>9, <2>1, <2>3, <2>4 DEF TriesWithin
    <3> QED BY Zenon, <1>1, <2>1, <3>1 DEF TriesWithin
  <2>6. LimiterTypeOK'
    BY Zenon, <1>1, <1>2, <1>4, <2>1, <2>3 DEF LimiterTypeOK
  <2>7. ReservedAreKept'
    BY Zenon, <1>2, <2>2, <2>3, ReservedStay DEF LimiterInvariant
  <2> QED BY Zenon, <1>3, <2>5, <2>6, <2>7 DEF LimiterInvariant
<1> QED BY Zenon, <1>10, <1>11

\* Every step keeps the counters within what is allowed.
LEMMA LimiterStep ==
    ASSUME LimiterInvariant, [LimiterNext]_<<now, limiterVars>>
    PROVE  LimiterInvariant'
<1>1. ASSUME UNCHANGED limiterVars, now' \in Windows
      PROVE  LimiterInvariant'
  BY Zenon, <1>1 DEF LimiterInvariant, LimiterTypeOK, ReservedAreKept, CounterWithin, TriesWithin, Within, KeptOf, TriedIn,
                     limiterVars
<1>2. CASE LimiterTick
  <2>1. now' = now + 1 /\ now < LimiterHorizon /\ UNCHANGED limiterVars
    BY Zenon, <1>2 DEF LimiterTick, Advance
  <2>2. now' \in Windows
    <3>1. now \in 0..LimiterHorizon /\ LimiterHorizon \in Nat
      BY Zenon, Limits DEF LimiterInvariant, LimiterTypeOK, Windows
    <3> QED BY <2>1, <3>1 DEF Windows
  <2> QED BY Zenon, <1>1, <2>1, <2>2
<1>3. CASE UNCHANGED <<now, limiterVars>>
  BY Zenon, <1>1, <1>3 DEF LimiterInvariant, LimiterTypeOK
<1>4. ASSUME NEW r \in Requests, UNCHANGED now,
             ReadClock(r) \/ reserveLocal(r) \/ ReserveDaily(r) \/ rollbackLocal(r) \/ releaseFor(r) \/ allow(r)
      PROVE  LimiterInvariant'
  BY Zenon, <1>4, QuietSteps, ReserveLocalStep, RollbackStep, AllowStep
<1> QED BY Zenon, <1>2, <1>3, <1>4 DEF LimiterNext

\* In one window no more requests of a key or a user are kept than its limit,
\* and one limit more for every request that reached the mutex after its window
\* had passed, for any number of requests, keys and users and any limits; and
\* the same of the attempts of an address.
THEOREM WindowLimitHoldsAlways == LimiterSpec => []WindowLimitHolds
<1>1. now = 0 /\ LimiterInit => LimiterInvariant
  <2> SUFFICES ASSUME now = 0, LimiterInit PROVE LimiterInvariant
    BY Zenon
  <2> DEFINE row == [at |-> 0, step |-> "new"]
  <2> DEFINE zero == [start |-> 0, count |-> 0]
  <2>1. 0 \in Windows /\ 0 \in Nat
    BY Limits DEF Windows
  <2>2. row \in RequestRows /\ row.step = "new" /\ zero \in CounterRows /\ zero.count = 0 /\ zero.start = 0
    BY <2>1 DEF RequestRows, RequestSteps, CounterRows
  <2>3. /\ \A r \in Requests : request[r] = row
        /\ \A o \in Scopes : perWindow[o] = zero
        /\ tried = zero /\ late = 0 /\ lateTries = 0
        /\ \A w \in Windows : passed[w] = {}
    BY Zenon DEF LimiterInit, Windows
  <2>4. LimiterTypeOK
    BY Zenon, <2>1, <2>2 DEF LimiterInit, LimiterTypeOK, Windows
  <2> HIDE DEF row, zero
  <2>5. ReservedAreKept
    <3>1. "new" # "reserved"
      OBVIOUS
    <3> QED BY Zenon, <2>2, <2>3, <3>1 DEF ReservedAreKept
  <2>6. IsFiniteSet({}) /\ Cardinality({}) = 0
    BY Zenon, FS_EmptySet
  <2>7. ASSUME NEW limit \in Nat, NEW w \in Windows
        PROVE  Within(zero, 0, limit * 0, limit, w)
    <3>1. w \in Nat /\ limit * 0 = 0
      BY Limits DEF Windows
    <3> QED BY <2>2, <3>1 DEF Within
  <2>8. ASSUME NEW o \in Scopes PROVE CounterWithin(o)
    <3>1. \A w \in Windows : KeptOf(o, w) = {}
      BY <2>3 DEF KeptOf
    <3>2. LimitOf(o) \in Nat /\ 0 <= LimitOf(o)
      BY Limits
    <3> QED BY Zenon, <2>2, <2>3, <2>6, <2>7, <3>1, <3>2 DEF CounterWithin
  <2>9. TriesWithin
    <3>1. ASSUME NEW w PROVE TriedIn(w) = {}
      <4>1. [at |-> w, step |-> "tried"].step = "tried" /\ "tried" # "new"
        OBVIOUS
      <4>2. \A r \in Requests : request[r] # [at |-> w, step |-> "tried"]
        BY Zenon, <2>2, <2>3, <4>1
      <4> QED BY <4>2 DEF TriedIn
    <3>2. KeyPerWindow \in Nat /\ 0 <= KeyPerWindow
      BY Limits
    <3> QED BY Zenon, <2>2, <2>3, <2>6, <2>7, <3>1, <3>2 DEF TriesWithin
  <2> QED BY Zenon, <2>4, <2>5, <2>8, <2>9 DEF LimiterInvariant
<1>2. LimiterInvariant /\ [LimiterNext]_<<now, limiterVars>> => LimiterInvariant'
  BY Zenon, LimiterStep
<1>3. LimiterInvariant => WindowLimitHolds
  <2> SUFFICES ASSUME LimiterInvariant, NEW w \in Windows
               PROVE  /\ \A o \in Scopes : Cardinality(KeptOf(o, w)) <= LimitOf(o) * (1 + late)
                      /\ Cardinality(TriedIn(w)) <= KeyPerWindow * (1 + lateTries)
    BY Zenon DEF WindowLimitHolds, KeptOf, TriedIn, Windows
  <2>1. w \in Nat
    BY Limits DEF Windows
  <2>2. ASSUME NEW c \in CounterRows, NEW n \in Nat, NEW l \in Nat, NEW limit \in Nat,
               c.count <= limit, Within(c, n, limit * l, limit, w)
        PROVE  n <= limit * (1 + l)
    <3>1. c.start \in Nat /\ c.count \in Nat
      BY DEF CounterRows
    <3>2. PICK p \in Nat : p = limit * l /\ limit * (1 + l) = p + limit
      BY Zenon, Allowances
    <3>3. Within(c, n, p, limit, w)
      BY Zenon, <2>2, <3>2
    <3>4. n <= p + limit
      BY <2>1, <2>2, <3>1, <3>3 DEF Within
    <3> QED BY Zenon, <3>2, <3>4
  <2>3. ASSUME NEW o \in Scopes
        PROVE  Cardinality(KeptOf(o, w)) <= LimitOf(o) * (1 + late)
    <3>1. /\ perWindow[o] \in CounterRows /\ late \in Nat /\ LimitOf(o) \in Nat /\ Cardinality(KeptOf(o, w)) \in Nat
          /\ perWindow[o].count <= LimitOf(o)
          /\ Within(perWindow[o], Cardinality(KeptOf(o, w)), LimitOf(o) * late, LimitOf(o), w)
      BY Zenon, Limits, FS_CardinalityType DEF LimiterInvariant, LimiterTypeOK, CounterWithin
    <3> QED BY Zenon, <2>2, <3>1
  <2>4. Cardinality(TriedIn(w)) <= KeyPerWindow * (1 + lateTries)
    <3>1. /\ tried \in CounterRows /\ lateTries \in Nat /\ KeyPerWindow \in Nat /\ Cardinality(TriedIn(w)) \in Nat
          /\ tried.count <= KeyPerWindow
          /\ Within(tried, Cardinality(TriedIn(w)), KeyPerWindow * lateTries, KeyPerWindow, w)
      BY Zenon, Limits, FS_CardinalityType DEF LimiterInvariant, LimiterTypeOK, TriesWithin
    <3> QED BY Zenon, <2>2, <3>1
  <2> QED BY Zenon, <2>3, <2>4
<1> QED BY <1>1, <1>2, <1>3, PTL DEF LimiterSpec

=============================================================================
