--------------------------- MODULE SessionProofs ----------------------------
(***************************************************************************)
(* First the funding groups: their periods stay on one grid, for any       *)
(* groups, users, terms and ages of instants.  Then what withdrawing a     *)
(* credential leaves behind, which proofs of identity count only once, and *)
(* that a pending account can be decided on, for any clients,              *)
(* authenticators, invitations, durations and ages of instants.            *)
(***************************************************************************)
EXTENDS Sessions, Invitations, Groups, TLAPS

\* The provers to try, and their time, for a leaf that names none.
USE SMTT(30), ZenonT(30), SMTT(60)

\* The length, the domain and the elements of a sequence.
LEMMA RowsOfTable ==
    ASSUME NEW S, NEW rows \in Seq(S)
    PROVE  Len(rows) \in Nat /\ DOMAIN rows = 1..Len(rows) /\ \A i \in 1..Len(rows) : rows[i] \in S
  OBVIOUS

\* A sequence with one more element, at place n.
Extended(new, rows, n, row, S) ==
    /\ new \in Seq(S) /\ DOMAIN new = DOMAIN rows \cup {n} /\ n \notin DOMAIN rows /\ new[n] = row
    /\ \A i \in DOMAIN rows : new[i] = rows[i]

LEMMA RowInserted ==
    \A S, rows, row, new, n :
        rows \in Seq(S) /\ row \in S /\ new = Append(rows, row) /\ n = Len(rows) + 1
            => Extended(new, rows, n, row, S)
<1> SUFFICES ASSUME NEW S, NEW rows \in Seq(S), NEW row \in S
             PROVE  Extended(Append(rows, row), rows, Len(rows) + 1, row, S)
  BY Zenon
<1> QED BY DEF Extended

\* A function of an initial interval is a sequence.
LEMMA TableOfRows ==
    ASSUME NEW S, NEW n \in Nat, NEW rows, rows = [i \in 1..n |-> rows[i]], \A i \in 1..n : rows[i] \in S
    PROVE  rows \in Seq(S)
  OBVIOUS

-----------------------------------------------------------------------------
(* Funding groups.  The number of the current period, the expiry and the   *)
(* periods themselves are kept in step: the expiry is the end of the last  *)
(* period of the count, whatever was rolled or edited.                     *)

UsagePeriods ==
    [start : Nat, end : Nat, limit : Nat, member : Nat \cup {NoLimit}, used : Nat, by : [Users -> Nat],
     open : BOOLEAN, term : Nat]
GroupRows ==
    [limit : Nat, member : Nat \cup {NoLimit}, len : Nat \ {0}, anchor : Nat, count : Nat, number : Nat \ {0},
     expires : Nat \cup {Never}, archived : BOOLEAN, periods : Seq(UsagePeriods), term : Nat]

\* Period q starts a whole number of lengths, at least one, after period p.
Aligned(p, q) == \E k \in Nat \ {0} : q.start = p.start + k * (p.end - p.start)

\* The periods of a group: those of the current term have its length, and
\* those of one term are aligned.
OnOneGrid(ps, len, term) ==
    /\ \A i \in 1..Len(ps) : /\ ps[i].end > ps[i].start /\ ps[i].term <= term
                             /\ ps[i].term = term => ps[i].end = ps[i].start + len
    /\ \A i, j \in 1..Len(ps) : i < j /\ ps[i].term = ps[j].term => Aligned(ps[i], ps[j])

\* The expiry is the end of the last period that was granted.
Counted(x) ==
    /\ x.expires = groupExpiration(Cur(x).end, x.len, x.count, x.number)
    /\ x.count > 0 => x.number <= x.count

GridSound(x) ==
    /\ x \in GroupRows /\ Len(x.periods) > 0
    /\ Cur(x).term = x.term
    /\ OnOneGrid(x.periods, x.len, x.term)
    /\ Counted(x)

GroupsInvariant ==
    /\ now \in Nat /\ DOMAIN group = Groups
    /\ \A g \in Groups : Present(g) => GridSound(group[g])
    /\ clearing # NoClearing => clearing.at \in Nat

-----------------------------------------------------------------------------
\* Multiples of a length keep the order of their factors.
LEMMA Multiples ==
    ASSUME NEW d \in Nat \ {0}, NEW a \in Int, NEW b \in Int
    PROVE  a * d \in Int /\ b * d \in Int /\ (a < b <=> a * d < b * d) /\ (a + b) * d = a * d + b * d
  OBVIOUS

\* The slot of an instant.
LEMMA Lengths ==
    ASSUME NEW d \in Nat \ {0}, NEW a \in Nat
    PROVE  a \div d \in Nat /\ (a \div d) * d <= a /\ a < (a \div d) * d + d
  OBVIOUS

\* A whole number of lengths leaves no rest.
LEMMA WholeLengths ==
    ASSUME NEW d \in Nat \ {0}, NEW k \in Nat
    PROVE  k * d \in Nat /\ (k * d) \div d = k /\ (k * d) % d = 0
<1>1. k * d \in Nat /\ k + 1 \in Int
  OBVIOUS
<1> DEFINE m == (k * d) \div d
<1>2. m \in Nat /\ m * d <= k * d /\ k * d < m * d + d
  BY <1>1, Lengths
<1>3. (k * d) % d = 0
  BY Z3
<1> HIDE DEF m
<1>4. (m + 1) * d = m * d + d
  BY <1>2
<1>5. ~(k < m) /\ ~(m + 1 <= k)
  BY <1>1, <1>2, <1>4, Multiples
<1>6. m = k
  BY <1>2, <1>5
<1> QED BY <1>1, <1>3, <1>6 DEF m

-----------------------------------------------------------------------------
(* Rolling.                                                                *)

\* The current period of a sound row.
LEMMA CurrentPeriod ==
    ASSUME NEW x, GridSound(x)
    PROVE  /\ x.len \in Nat \ {0} /\ x.number \in Nat \ {0} /\ x.count \in Nat /\ x.term \in Nat
           /\ x.periods \in Seq(UsagePeriods) /\ Len(x.periods) \in Nat \ {0}
           /\ Cur(x) \in UsagePeriods /\ Cur(x).start \in Nat /\ Cur(x).end = Cur(x).start + x.len
<1>1. x \in GroupRows /\ Len(x.periods) > 0
  BY Zenon DEF GridSound
<1>2. /\ x.len \in Nat \ {0} /\ x.number \in Nat \ {0} /\ x.count \in Nat /\ x.term \in Nat
      /\ x.periods \in Seq(UsagePeriods)
  BY Zenon, <1>1 DEF GroupRows
<1>3. Len(x.periods) \in Nat \ {0} /\ Len(x.periods) \in 1..Len(x.periods)
  BY <1>1, <1>2
<1>4. Cur(x) \in UsagePeriods
  BY <1>2, <1>3 DEF Cur
<1>5. Cur(x).start \in Nat
  BY Zenon, <1>4 DEF UsagePeriods
<1>6. Cur(x).end = Cur(x).start + x.len
  BY Zenon, <1>3 DEF GridSound, OnOneGrid, Cur
<1> QED BY Zenon, <1>2, <1>3, <1>4, <1>5, <1>6

\* A roll moves on by whole lengths and stays within the count.
LEMMA RollMoves ==
    ASSUME NEW x, GridSound(x), NEW at \in Nat, RollDue(x, at)
    PROVE  \E k \in Nat \ {0} :
             /\ groupPeriodStart(Cur(x).start, at, x.len) = Cur(x).start + k * x.len
             /\ RolledNumber(x, at) = x.number + k
             /\ x.count > 0 => x.number + k <= x.count
<1> DEFINE c == Cur(x)
<1> DEFINE d == x.len
<1> DEFINE a == at - c.start
<1> DEFINE k == a \div d
<1>1. d \in Nat \ {0} /\ c.start \in Nat /\ c.end = c.start + d /\ x.number \in Nat \ {0} /\ x.count \in Nat
  BY Zenon, CurrentPeriod
<1>2. at >= c.end /\ After(x.expires, at)
  BY Zenon DEF RollDue
<1>3. x.expires = groupExpiration(c.end, d, x.count, x.number) /\ (x.count > 0 => x.number <= x.count)
  BY Zenon DEF GridSound, Counted
<1> HIDE DEF c, d
<1>4. a \in Nat /\ a >= d /\ ~(at < c.start)
  BY <1>1, <1>2
<1>5. k \in Nat /\ k * d <= a /\ a < k * d + d
  BY Zenon, <1>1, <1>4, Lengths
<1>6. groupPeriodStart(c.start, at, d) = c.start + k * d
  BY Zenon, <1>4 DEF groupPeriodStart
<1> HIDE DEF a, k
<1>7. k # 0
  BY <1>1, <1>4, <1>5
<1>8. (k * d) \div d = k /\ k * d \in Nat
  BY <1>1, <1>5, WholeLengths
<1>9. RolledNumber(x, at) = x.number + k
  <2>1. (c.start + k * d) - c.start = k * d
    BY <1>1, <1>8
  <2> QED BY Zenon, <1>6, <1>8, <2>1 DEF RolledNumber, c, d
<1>10. ASSUME x.count > 0 PROVE x.number + k <= x.count
  <2> DEFINE l == x.count - x.number
  <2>1. l \in Nat /\ l + 1 \in Int /\ 1 \in Int
    BY <1>1, <1>3, <1>10
  <2>2. x.expires = c.end + l * d
    BY <1>1, <1>3, <1>10 DEF groupExpiration
  <2>3. l * d \in Int /\ l * d >= 0 /\ (l + 1) * d = l * d + d
    BY <1>1, <2>1
  <2>4. at < c.end + l * d
    BY <1>1, <1>2, <2>2, <2>3 DEF After, Never
  <2>5. k * d < (l + 1) * d
    BY <1>1, <1>5, <1>8, <2>3, <2>4 DEF a
  <2>6. k < l + 1
    BY <1>1, <1>5, <2>1, <2>5, Multiples
  <2> QED BY <1>1, <1>5, <2>1, <2>6
<1> QED BY Zenon, <1>5, <1>6, <1>7, <1>9, <1>10 DEF c, d

\* A new period behind the others.
LEMMA Replaced ==
    ASSUME NEW x \in GroupRows, NEW start \in Nat
    PROVE  LET y == replaceGroupPeriodTx(x, start)
               n == Len(x.periods)
           IN  /\ y \in GroupRows
               /\ y.len = x.len /\ y.count = x.count /\ y.number = x.number /\ y.expires = x.expires
               /\ y.term = x.term
               /\ Len(y.periods) = n + 1 /\ n \in Nat
               /\ y.periods[n + 1].start = start /\ y.periods[n + 1].end = start + x.len
               /\ y.periods[n + 1].term = x.term
               /\ \A i \in 1..n : /\ y.periods[i].start = x.periods[i].start /\ y.periods[i].end = x.periods[i].end
                                  /\ y.periods[i].term = x.periods[i].term
<1> DEFINE ps == x.periods
<1> DEFINE n == Len(ps)
<1> DEFINE opened == [start |-> start, end |-> start + x.len, limit |-> x.limit, member |-> x.member,
                      used |-> 0, by |-> [u \in Users |-> 0], open |-> TRUE, term |-> x.term]
<1> DEFINE row(i) == IF i = n THEN [ps[i] EXCEPT !.open = FALSE] ELSE ps[i]
<1> DEFINE before == [i \in 1..n |-> row(i)]
<1> DEFINE qs == Append(before, opened)
<1>1. ps \in Seq(UsagePeriods) /\ n \in Nat /\ DOMAIN ps = 1..n /\ \A i \in 1..n : ps[i] \in UsagePeriods
  BY DEF GroupRows
<1>2. replaceGroupPeriodTx(x, start) = [x EXCEPT !.periods = qs]
  BY Zenon, <1>1 DEF replaceGroupPeriodTx
<1>3. opened \in UsagePeriods /\ opened.start = start /\ opened.end = start + x.len /\ opened.term = x.term
  BY DEF UsagePeriods, GroupRows
<1>4. ASSUME NEW i \in 1..n
      PROVE  row(i) \in UsagePeriods /\ row(i).start = ps[i].start /\ row(i).end = ps[i].end /\ row(i).term = ps[i].term
  BY Zenon, <1>1 DEF UsagePeriods
<1> HIDE DEF opened, row
<1>5. /\ before \in Seq(UsagePeriods) /\ Len(before) = n /\ \A i \in 1..n : before[i] = row(i)
  BY <1>1, <1>4
<1> HIDE DEF before
<1>6. /\ qs \in Seq(UsagePeriods) /\ Len(qs) = n + 1 /\ qs[n + 1] = opened /\ \A i \in 1..n : qs[i] = before[i]
  BY <1>1, <1>3, <1>5
<1> HIDE DEF qs
<1> DEFINE y == [x EXCEPT !.periods = qs]
<1>7. /\ y \in GroupRows /\ y.periods = qs
      /\ y.len = x.len /\ y.count = x.count /\ y.number = x.number /\ y.expires = x.expires
      /\ y.term = x.term
  BY <1>6 DEF GroupRows
<1> HIDE DEF y
<1>8. /\ Len(y.periods) = n + 1
      /\ y.periods[n + 1].start = start /\ y.periods[n + 1].end = start + x.len
      /\ y.periods[n + 1].term = x.term
  BY Zenon, <1>3, <1>6, <1>7
<1>9. \A i \in 1..n : /\ y.periods[i].start = ps[i].start /\ y.periods[i].end = ps[i].end
                      /\ y.periods[i].term = ps[i].term
  BY Zenon, <1>4, <1>5, <1>6, <1>7
<1>10. replaceGroupPeriodTx(x, start) = y
  BY Zenon, <1>2 DEF y
<1> QED BY Zenon, <1>1, <1>7, <1>8, <1>9, <1>10

\* Periods qs are ps with one more behind them, of a later term or further
\* along.
OneMore(ps, was, old, qs, len, term) ==
    LET n == Len(ps) IN
    /\ n \in Nat /\ Len(qs) = n + 1 /\ old \in Nat /\ term \in Nat /\ old <= term /\ len \in Nat \ {0}
    /\ OnOneGrid(ps, was, old) /\ (old = term => was = len)
    /\ \A i \in 1..n : ps[i].start \in Nat /\ ps[i].term \in Nat
    /\ \A i \in 1..n : qs[i].start = ps[i].start /\ qs[i].end = ps[i].end /\ qs[i].term = ps[i].term
    /\ qs[n + 1].start \in Nat /\ qs[n + 1].end = qs[n + 1].start + len /\ qs[n + 1].term = term
    /\ \A i \in 1..n : ps[i].term = term => Aligned(ps[i], qs[n + 1])

\* They are on one grid if ps are.
LEMMA OneMorePeriod ==
    ASSUME NEW ps, NEW was, NEW old, NEW qs, NEW len, NEW term, OneMore(ps, was, old, qs, len, term)
    PROVE  OnOneGrid(qs, len, term)
<1> DEFINE n == Len(ps)
<1>0. /\ n \in Nat /\ Len(qs) = n + 1 /\ old \in Nat /\ term \in Nat /\ old <= term /\ len \in Nat \ {0}
      /\ OnOneGrid(ps, was, old) /\ (old = term => was = len)
      /\ \A i \in 1..n : ps[i].start \in Nat /\ ps[i].term \in Nat
      /\ \A i \in 1..n : qs[i].start = ps[i].start /\ qs[i].end = ps[i].end /\ qs[i].term = ps[i].term
      /\ qs[n + 1].start \in Nat /\ qs[n + 1].end = qs[n + 1].start + len /\ qs[n + 1].term = term
      /\ \A i \in 1..n : ps[i].term = term => Aligned(ps[i], qs[n + 1])
  BY Zenon DEF OneMore
<1> HIDE DEF n
<1>1. \A i \in 1..(n + 1) : i \in 1..n \/ i = n + 1
  BY <1>0
<1>2. ASSUME NEW i \in 1..(n + 1)
      PROVE  /\ qs[i].end > qs[i].start /\ qs[i].term <= term
             /\ qs[i].term = term => qs[i].end = qs[i].start + len
  <2>1. CASE i = n + 1
    BY <1>0, <2>1
  <2>2. CASE i \in 1..n
    <3>1. /\ ps[i].end > ps[i].start /\ ps[i].term <= old
          /\ ps[i].term = old => ps[i].end = ps[i].start + was
      BY Zenon, <1>0, <2>2 DEF OnOneGrid, n
    <3>2. qs[i].start = ps[i].start /\ qs[i].end = ps[i].end /\ qs[i].term = ps[i].term /\ ps[i].term \in Nat
      BY Zenon, <1>0, <2>2
    <3> QED BY <1>0, <3>1, <3>2
  <2> QED BY ZenonT(30), <1>1, <2>1, <2>2
<1>3. ASSUME NEW i \in 1..(n + 1), NEW j \in 1..(n + 1), i < j, qs[i].term = qs[j].term
      PROVE  Aligned(qs[i], qs[j])
  <2>1. i \in 1..n
    BY <1>0, <1>3
  <2>2. qs[i].start = ps[i].start /\ qs[i].end = ps[i].end /\ qs[i].term = ps[i].term
    BY Zenon, <1>0, <2>1
  <2>3. CASE j = n + 1
    <3>1. Aligned(ps[i], qs[j])
      BY Zenon, <1>0, <1>3, <2>1, <2>2, <2>3
    <3> QED BY Zenon, <2>2, <3>1 DEF Aligned
  <2>4. CASE j \in 1..n
    <3>1. qs[j].start = ps[j].start /\ qs[j].term = ps[j].term
      BY Zenon, <1>0, <2>4
    <3>2. Aligned(ps[i], ps[j])
      BY Zenon, <1>0, <1>3, <2>1, <2>2, <2>4, <3>1 DEF OnOneGrid, n
    <3> QED BY Zenon, <2>2, <3>1, <3>2 DEF Aligned
  <2> QED BY ZenonT(30), <1>1, <2>3, <2>4
<1>4. \A i, j \in 1..(n + 1) : i < j /\ qs[i].term = qs[j].term => Aligned(qs[i], qs[j])
  BY Zenon, <1>3
<1> QED BY Zenon, <1>0, <1>2, <1>4 DEF OnOneGrid

\* A roll keeps a row sound, and never fails on one.
LEMMA RollSound ==
    ASSUME NEW x, GridSound(x), NEW at \in Nat
    PROVE  ~RollFails(x, at) /\ GridSound(rollGroupTx(x, at))
<1>1. CASE ~RollDue(x, at)
  BY Zenon, <1>1 DEF RollFails, rollGroupTx
<1>2. CASE RollDue(x, at)
  <2> DEFINE c == Cur(x)
  <2> DEFINE n == Len(x.periods)
  <2> DEFINE start == groupPeriodStart(c.start, at, x.len)
  <2>1. PICK k \in Nat \ {0} : /\ start = c.start + k * x.len
                               /\ RolledNumber(x, at) = x.number + k
                               /\ x.count > 0 => x.number + k <= x.count
    BY Zenon, <1>2, RollMoves
  <2>2. /\ x.len \in Nat \ {0} /\ x.number \in Nat \ {0} /\ x.count \in Nat /\ x.term \in Nat
        /\ x.periods \in Seq(UsagePeriods) /\ n \in Nat \ {0}
        /\ c \in UsagePeriods /\ c.start \in Nat /\ c.end = c.start + x.len
    BY Zenon, CurrentPeriod
  <2>3. ~RollFails(x, at)
    BY <2>1, <2>2 DEF RollFails
  <2> DEFINE w == [x EXCEPT !.number = x.number + k]
  <2>4. x.number + k \in Nat \ {0} /\ k * x.len \in Nat /\ start \in Nat
    <3>1. k * x.len \in Nat
      BY <2>2, WholeLengths
    <3>2. start = c.start + k * x.len /\ c.start \in Nat
      BY Zenon, <2>1, <2>2
    <3> HIDE DEF start, c
    <3>3. start \in Nat
      BY <3>1, <3>2
    <3>4. x.number + k \in Nat \ {0}
      BY <2>2
    <3> QED BY Zenon, <3>1, <3>3, <3>4
  <2>5. /\ w \in GroupRows /\ w.periods = x.periods /\ w.len = x.len /\ w.count = x.count
        /\ w.number = x.number + k /\ w.expires = x.expires /\ w.term = x.term
    BY Zenon, <2>4 DEF GridSound, GroupRows
  <2> DEFINE y == replaceGroupPeriodTx(w, start)
  <2>6. rollGroupTx(x, at) = y
    BY Zenon, <1>2, <2>1 DEF rollGroupTx
  <2> HIDE DEF w, start
  <2>7. /\ y \in GroupRows
        /\ y.len = x.len /\ y.count = x.count /\ y.number = x.number + k /\ y.expires = x.expires
        /\ y.term = x.term
        /\ Len(y.periods) = n + 1
        /\ y.periods[n + 1].start = start /\ y.periods[n + 1].end = start + x.len
        /\ y.periods[n + 1].term = x.term
        /\ \A i \in 1..n : /\ y.periods[i].start = x.periods[i].start /\ y.periods[i].end = x.periods[i].end
                           /\ y.periods[i].term = x.periods[i].term
    <3>1. /\ y \in GroupRows
          /\ y.len = w.len /\ y.count = w.count /\ y.number = w.number /\ y.expires = w.expires
          /\ y.term = w.term
          /\ Len(y.periods) = Len(w.periods) + 1 /\ Len(w.periods) \in Nat
          /\ y.periods[Len(w.periods) + 1].start = start /\ y.periods[Len(w.periods) + 1].end = start + w.len
          /\ y.periods[Len(w.periods) + 1].term = w.term
          /\ \A i \in 1..Len(w.periods) :
                  /\ y.periods[i].start = w.periods[i].start /\ y.periods[i].end = w.periods[i].end
                  /\ y.periods[i].term = w.periods[i].term
      BY Zenon, <2>4, <2>5, Replaced
    <3> HIDE DEF y
    <3> QED BY Zenon, <2>5, <3>1
  <2> HIDE DEF y
  <2>8. \A i \in 1..n : x.periods[i] \in UsagePeriods
    BY <2>2
  <2>9. \A i \in 1..n : x.periods[i].start \in Nat /\ x.periods[i].end \in Nat /\ x.periods[i].term \in Nat
    BY Zenon, <2>8 DEF UsagePeriods
  <2>10. ASSUME NEW i \in 1..n, x.periods[i].term = x.term PROVE Aligned(x.periods[i], y.periods[n + 1])
    <3> DEFINE p == x.periods[i]
    <3>1. p.end = p.start + x.len /\ p.start \in Nat
      BY Zenon, <2>9, <2>10 DEF GridSound, OnOneGrid
    <3>2. p.end - p.start = x.len
      BY <2>2, <3>1
    <3>3. CASE i = n
      <4>1. p.start = c.start
        BY Zenon, <3>3 DEF Cur
      <4> QED BY Zenon, <2>1, <2>7, <3>2, <4>1 DEF Aligned
    <3>4. CASE i # n
      <4>1. i < n /\ n \in 1..n
        BY <2>2, <3>4
      <4>2. Aligned(p, c)
        BY Zenon, <2>10, <4>1 DEF GridSound, OnOneGrid, Cur
      <4>3. PICK l \in Nat \ {0} : c.start = p.start + l * x.len
        BY ZenonT(30), <3>2, <4>2 DEF Aligned
      <4>4. l + k \in Nat \ {0} /\ start = p.start + (l + k) * x.len
        <5>1. (l + k) * x.len = l * x.len + k * x.len /\ l * x.len \in Int /\ k * x.len \in Int
          BY <2>2, Multiples
        <5>2. start = c.start + k * x.len /\ c.start = p.start + l * x.len /\ p.start \in Nat
          BY Zenon, <2>1, <3>1, <4>3
        <5>3. l + k \in Nat \ {0}
          OBVIOUS
        <5> HIDE DEF p, c, start
        <5>4. start = p.start + (l * x.len + k * x.len)
          BY <5>1, <5>2
        <5> QED BY Zenon, <5>1, <5>3, <5>4
      <4> QED BY Zenon, <2>7, <3>2, <4>4 DEF Aligned
    <3> QED BY Zenon, <3>3, <3>4
  <2>11. OnOneGrid(y.periods, x.len, x.term)
    <3>1. /\ n \in Nat /\ x.term <= x.term /\ y.periods[n + 1].start \in Nat
          /\ y.periods[n + 1].end = y.periods[n + 1].start + x.len
      BY <2>2, <2>4, <2>7
    <3>2. OnOneGrid(x.periods, x.len, x.term)
      BY Zenon DEF GridSound
    <3>3. OneMore(x.periods, x.len, x.term, y.periods, x.len, x.term)
      BY Zenon, <2>2, <2>7, <2>9, <2>10, <3>1, <3>2 DEF OneMore
    <3> QED BY ZenonT(30), <3>3, OneMorePeriod
  <2>12. Counted(y)
    <3>1. Cur(y).end = c.end + k * x.len
      <4>1. Cur(y).end = start + x.len
        BY Zenon, <2>7 DEF Cur
      <4> QED BY <2>1, <2>2, <2>4, <4>1
    <3>2. x.expires = groupExpiration(c.end, x.len, x.count, x.number)
      BY Zenon DEF GridSound, Counted
    <3>3. ASSUME x.count # 0
          PROVE  c.end + (x.count - x.number) * x.len = (c.end + k * x.len) + (x.count - (x.number + k)) * x.len
      <4> DEFINE l == x.count - (x.number + k)
      <4>1. l \in Int /\ l + k = x.count - x.number
        BY <2>1, <2>2
      <4> HIDE DEF l
      <4>2. (l + k) * x.len = l * x.len + k * x.len /\ l * x.len \in Int
        BY <2>2, <4>1, Multiples
      <4>3. c.end + (l + k) * x.len = (c.end + k * x.len) + l * x.len
        BY <2>2, <2>4, <4>2
      <4> QED BY Zenon, <4>1, <4>3 DEF l
    <3>4. y.expires = groupExpiration(Cur(y).end, y.len, y.count, y.number)
      BY ZenonT(30), <2>7, <3>1, <3>2, <3>3 DEF groupExpiration
    <3> QED BY Zenon, <2>1, <2>7, <3>4 DEF Counted
  <2>13. Len(y.periods) > 0 /\ Cur(y).term = y.term
    BY <2>2, <2>7 DEF Cur
  <2> QED BY Zenon, <2>3, <2>6, <2>7, <2>11, <2>12, <2>13 DEF GridSound
<1> QED BY Zenon, <1>1, <1>2

-----------------------------------------------------------------------------
(* Edits.                                                                  *)

\* Whether periods are on one grid depends on starts, ends and terms only.
LEMMA SameSlots ==
    ASSUME NEW ps, NEW qs, NEW len, NEW term, OnOneGrid(ps, len, term), Len(qs) = Len(ps),
           \A i \in 1..Len(ps) : qs[i].start = ps[i].start /\ qs[i].end = ps[i].end /\ qs[i].term = ps[i].term
    PROVE  OnOneGrid(qs, len, term)
<1>1. \A i \in 1..Len(qs) : /\ qs[i].end > qs[i].start /\ qs[i].term <= term
                            /\ qs[i].term = term => qs[i].end = qs[i].start + len
  BY Zenon DEF OnOneGrid
<1>2. ASSUME NEW i \in 1..Len(qs), NEW j \in 1..Len(qs), i < j, qs[i].term = qs[j].term
      PROVE  Aligned(qs[i], qs[j])
  <2>1. /\ qs[i].start = ps[i].start /\ qs[i].end = ps[i].end /\ qs[j].start = ps[j].start
        /\ ps[i].term = ps[j].term
    BY Zenon, <1>2
  <2>2. Aligned(ps[i], ps[j])
    BY Zenon, <1>2, <2>1 DEF OnOneGrid
  <2> QED BY Zenon, <2>1, <2>2 DEF Aligned
<1>3. \A i, j \in 1..Len(qs) : i < j /\ qs[i].term = qs[j].term => Aligned(qs[i], qs[j])
  BY Zenon, <1>2
<1> QED BY Zenon, <1>1, <1>3 DEF OnOneGrid

\* An edit that leaves starts, ends and terms alone.
LEMMA SameGrid ==
    ASSUME NEW x, GridSound(x), NEW y \in GroupRows, y.len = x.len, y.term = x.term, Len(y.periods) = Len(x.periods),
           \A i \in 1..Len(x.periods) :
                /\ y.periods[i].start = x.periods[i].start /\ y.periods[i].end = x.periods[i].end
                /\ y.periods[i].term = x.periods[i].term,
           y.expires = groupExpiration(Cur(x).end, y.len, y.count, y.number), y.count > 0 => y.number <= y.count
    PROVE  GridSound(y)
<1>1. Len(x.periods) \in 1..Len(x.periods) /\ Len(x.periods) > 0
  BY CurrentPeriod
<1>2. Cur(y).end = Cur(x).end /\ Cur(y).term = Cur(x).term
  BY Zenon, <1>1 DEF Cur
<1>3. OnOneGrid(y.periods, x.len, x.term)
  <2>1. OnOneGrid(x.periods, x.len, x.term)
    BY Zenon DEF GridSound
  <2> QED BY Zenon, <2>1, SameSlots
<1> QED BY ZenonT(30), <1>1, <1>2, <1>3 DEF GridSound, Counted

\* A new term: its first period is aligned with nothing.
LEMMA Restarted ==
    ASSUME NEW x \in GroupRows, OnOneGrid(x.periods, x.len, x.term), NEW w \in GroupRows, NEW first \in Nat,
           w.periods = x.periods, w.term = x.term + 1, w.number = 1,
           w.expires = groupExpiration(first + w.len, w.len, w.count, 1)
    PROVE  GridSound(replaceGroupPeriodTx(w, first))
<1> DEFINE y == replaceGroupPeriodTx(w, first)
<1> DEFINE n == Len(x.periods)
<1>1. /\ y \in GroupRows
      /\ y.len = w.len /\ y.count = w.count /\ y.number = 1 /\ y.expires = w.expires
      /\ y.term = x.term + 1
      /\ Len(y.periods) = n + 1 /\ n \in Nat
      /\ y.periods[n + 1].start = first /\ y.periods[n + 1].end = first + w.len
      /\ y.periods[n + 1].term = x.term + 1
      /\ \A i \in 1..n : /\ y.periods[i].start = x.periods[i].start /\ y.periods[i].end = x.periods[i].end
                         /\ y.periods[i].term = x.periods[i].term
  <2>1. /\ y \in GroupRows
        /\ y.len = w.len /\ y.count = w.count /\ y.number = w.number /\ y.expires = w.expires
        /\ y.term = w.term
        /\ Len(y.periods) = Len(w.periods) + 1 /\ Len(w.periods) \in Nat
        /\ y.periods[Len(w.periods) + 1].start = first /\ y.periods[Len(w.periods) + 1].end = first + w.len
        /\ y.periods[Len(w.periods) + 1].term = w.term
        /\ \A i \in 1..Len(w.periods) :
              /\ y.periods[i].start = w.periods[i].start /\ y.periods[i].end = w.periods[i].end
              /\ y.periods[i].term = w.periods[i].term
    BY Zenon, Replaced
  <2> HIDE DEF y
  <2> QED BY Zenon, <2>1
<1> HIDE DEF y
<1>2. /\ x.len \in Nat \ {0} /\ w.len \in Nat \ {0} /\ x.term \in Nat /\ x.periods \in Seq(UsagePeriods)
      /\ w.count \in Nat
  BY Zenon DEF GroupRows
<1>3. \A i \in 1..n : x.periods[i] \in UsagePeriods
  BY <1>2
<1>4. \A i \in 1..n : x.periods[i].start \in Nat /\ x.periods[i].term \in Nat
  BY Zenon, <1>3 DEF UsagePeriods
<1>5. \A i \in 1..n : x.periods[i].term # x.term + 1
  <2>1. \A i \in 1..n : x.periods[i].term <= x.term
    BY Zenon DEF OnOneGrid
  <2> QED BY <1>2, <1>4, <2>1
<1>6. OnOneGrid(y.periods, w.len, x.term + 1)
  <2>1. /\ x.term + 1 \in Nat /\ x.term <= x.term + 1 /\ x.term # x.term + 1 /\ y.periods[n + 1].start \in Nat
        /\ y.periods[n + 1].end = y.periods[n + 1].start + w.len
    BY <1>1, <1>2
  <2>2. OneMore(x.periods, x.len, x.term, y.periods, w.len, x.term + 1)
    BY Zenon, <1>1, <1>2, <1>4, <1>5, <2>1 DEF OneMore
  <2> QED BY ZenonT(30), <2>2, OneMorePeriod
<1>7. Len(y.periods) > 0 /\ Cur(y).term = y.term /\ Cur(y).end = first + w.len
  BY <1>1, <1>2 DEF Cur
<1>8. y.count > 0 => 1 <= y.count
  BY <1>1, <1>2
<1> QED BY Zenon, <1>1, <1>6, <1>7, <1>8 DEF GridSound, Counted, y

\* A change of the current period that leaves start, end and term alone.
LEMMA CurrentEdited ==
    ASSUME NEW ps \in Seq(UsagePeriods), Len(ps) \in Nat \ {0}, NEW q \in UsagePeriods,
           q.start = ps[Len(ps)].start, q.end = ps[Len(ps)].end, q.term = ps[Len(ps)].term
    PROVE  LET qs == [ps EXCEPT ![Len(ps)] = q]
           IN  /\ qs \in Seq(UsagePeriods) /\ Len(qs) = Len(ps)
               /\ \A i \in 1..Len(ps) : /\ qs[i].start = ps[i].start /\ qs[i].end = ps[i].end
                                        /\ qs[i].term = ps[i].term
<1> DEFINE n == Len(ps)
<1> DEFINE qs == [ps EXCEPT ![n] = q]
<1>1. /\ qs \in Seq(UsagePeriods) /\ Len(qs) = n /\ \A i \in 1..n : qs[i] = IF i = n THEN q ELSE ps[i]
  OBVIOUS
<1> HIDE DEF qs
<1>2. \A i \in 1..n : qs[i].start = ps[i].start /\ qs[i].end = ps[i].end /\ qs[i].term = ps[i].term
  BY Zenon, <1>1
<1> QED BY Zenon, <1>1, <1>2 DEF qs

\* PutGroup without a restart: the limits, the count and the expiry change.
LEMMA LimitedSound ==
    ASSUME NEW x, GridSound(x), NEW t \in GroupTerms, t.len = x.len, t.count # 0 => t.count >= x.number
    PROVE  LET edited == [x EXCEPT !.limit = t.limit, !.member = t.member, !.len = t.len, !.anchor = x.anchor,
                                   !.count = t.count, !.number = x.number,
                                   !.expires = groupExpiration(Cur(x).end, t.len, t.count, x.number)]
           IN  GridSound([edited EXCEPT !.periods[Len(edited.periods)] =
                                           [@ EXCEPT !.limit = t.limit, !.member = t.member]])
<1> DEFINE ex == groupExpiration(Cur(x).end, t.len, t.count, x.number)
<1> DEFINE edited == [x EXCEPT !.limit = t.limit, !.member = t.member, !.len = t.len, !.anchor = x.anchor,
                               !.count = t.count, !.number = x.number, !.expires = ex]
<1> DEFINE n == Len(x.periods)
<1> DEFINE c == x.periods[n]
<1> DEFINE q == [c EXCEPT !.limit = t.limit, !.member = t.member]
<1> DEFINE qs == [x.periods EXCEPT ![n] = q]
<1> DEFINE y == [edited EXCEPT !.periods = qs]
<1>1. /\ x.len \in Nat \ {0} /\ x.number \in Nat \ {0} /\ x.periods \in Seq(UsagePeriods) /\ n \in Nat \ {0}
      /\ c \in UsagePeriods /\ Cur(x).start \in Nat /\ Cur(x).end = Cur(x).start + x.len
  BY Zenon, CurrentPeriod DEF Cur
<1>2. t.limit \in Nat /\ t.member \in Nat \cup {NoLimit} /\ t.len \in Nat \ {0} /\ t.count \in Nat
  BY GroupsAssumption
<1>3. q \in UsagePeriods /\ q.start = c.start /\ q.end = c.end /\ q.term = c.term
  BY Zenon, <1>1, <1>2 DEF UsagePeriods
<1>4. ex \in Nat \cup {Never}
  <2>1. CASE t.count = 0
    BY Zenon, <2>1 DEF groupExpiration
  <2>2. CASE t.count # 0
    <3>1. t.count - x.number \in Nat
      BY <1>1, <1>2, <2>2
    <3>2. (t.count - x.number) * t.len \in Nat
      BY Zenon, <1>2, <3>1, WholeLengths
    <3>3. ex = Cur(x).end + (t.count - x.number) * t.len
      BY Zenon, <2>2 DEF groupExpiration
    <3>4. Cur(x).end \in Nat
      BY <1>1
    <3> HIDE DEF ex
    <3> QED BY <3>2, <3>3, <3>4
  <2> QED BY Zenon, <2>1, <2>2
<1> HIDE DEF c, q, ex
<1>5. /\ qs \in Seq(UsagePeriods) /\ Len(qs) = n
      /\ \A i \in 1..n : /\ qs[i].start = x.periods[i].start /\ qs[i].end = x.periods[i].end
                         /\ qs[i].term = x.periods[i].term
  BY Zenon, <1>1, <1>3, CurrentEdited DEF c
<1> HIDE DEF qs
<1>6. x \in GroupRows
  BY Zenon DEF GridSound
<1>7. /\ y \in GroupRows /\ y.len = x.len /\ y.term = x.term /\ y.periods = qs
      /\ y.count = t.count /\ y.number = x.number /\ y.expires = ex
  BY Zenon, <1>2, <1>4, <1>5, <1>6 DEF GroupRows
<1>8. edited.periods = x.periods
  BY <1>6 DEF GroupRows
<1>9. [edited EXCEPT !.periods[Len(edited.periods)] = [@ EXCEPT !.limit = t.limit, !.member = t.member]] = y
  <2> HIDE DEF edited
  <2> QED BY <1>8 DEF qs, q, c
<1> HIDE DEF y
<1>10. y.expires = groupExpiration(Cur(x).end, y.len, y.count, y.number) /\ (y.count > 0 => y.number <= y.count)
  <2>1. y.count > 0 => y.number <= y.count
    BY <1>1, <1>2, <1>7
  <2> QED BY Zenon, <1>7, <2>1 DEF ex
<1>11. GridSound(y)
  BY Zenon, <1>5, <1>7, <1>10, SameGrid
<1> QED BY Zenon, <1>9, <1>11 DEF ex

\* ArchiveGroup closes the current period.
LEMMA ArchivedSound ==
    ASSUME NEW x, GridSound(x)
    PROVE  GridSound([x EXCEPT !.archived = TRUE, !.periods[Len(x.periods)].open = FALSE])
<1> DEFINE n == Len(x.periods)
<1> DEFINE c == x.periods[n]
<1> DEFINE q == [c EXCEPT !.open = FALSE]
<1> DEFINE qs == [x.periods EXCEPT ![n] = q]
<1> DEFINE y == [x EXCEPT !.archived = TRUE, !.periods = qs]
<1>1. x.periods \in Seq(UsagePeriods) /\ n \in Nat \ {0} /\ c \in UsagePeriods
  BY Zenon, CurrentPeriod DEF Cur
<1>2. q \in UsagePeriods /\ q.start = c.start /\ q.end = c.end /\ q.term = c.term
  BY Zenon, <1>1 DEF UsagePeriods
<1>3. [x EXCEPT !.archived = TRUE, !.periods[Len(x.periods)].open = FALSE] = y
  <2>1. x \in GroupRows
    BY Zenon DEF GridSound
  <2> QED BY <2>1 DEF GroupRows
<1> HIDE DEF c, q
<1>4. /\ qs \in Seq(UsagePeriods) /\ Len(qs) = n
      /\ \A i \in 1..n : /\ qs[i].start = x.periods[i].start /\ qs[i].end = x.periods[i].end
                         /\ qs[i].term = x.periods[i].term
  BY Zenon, <1>1, <1>2, CurrentEdited DEF c
<1> HIDE DEF qs
<1>5. /\ y \in GroupRows /\ y.len = x.len /\ y.term = x.term /\ y.periods = qs
      /\ y.count = x.count /\ y.number = x.number /\ y.expires = x.expires
  <2>1. x \in GroupRows
    BY Zenon DEF GridSound
  <2> QED BY Zenon, <1>4, <2>1 DEF GroupRows
<1> HIDE DEF y
<1>6. y.expires = groupExpiration(Cur(x).end, y.len, y.count, y.number) /\ (y.count > 0 => y.number <= y.count)
  BY Zenon, <1>5 DEF GridSound, Counted
<1>7. GridSound(y)
  BY Zenon, <1>4, <1>5, <1>6, SameGrid
<1> QED BY Zenon, <1>3, <1>7

\* PutGroup with a restart: the next term, with period 1.
LEMMA RestartSound ==
    ASSUME NEW x \in GroupRows, OnOneGrid(x.periods, x.len, x.term), NEW t \in GroupTerms,
           NEW anchor \in Nat, NEW at \in Nat
    PROVE  LET first == groupPeriodStart(anchor, at, t.len)
               edited == [x EXCEPT !.limit = t.limit, !.member = t.member, !.len = t.len, !.anchor = anchor,
                                   !.count = t.count, !.number = 1,
                                   !.expires = groupExpiration(first + t.len, t.len, t.count, 1)]
           IN  GridSound(replaceGroupPeriodTx([edited EXCEPT !.term = @ + 1], first))
<1> DEFINE first == groupPeriodStart(anchor, at, t.len)
<1> DEFINE ex == groupExpiration(first + t.len, t.len, t.count, 1)
<1> DEFINE edited == [x EXCEPT !.limit = t.limit, !.member = t.member, !.len = t.len, !.anchor = anchor,
                               !.count = t.count, !.number = 1, !.expires = ex]
<1> DEFINE w == [edited EXCEPT !.term = @ + 1]
<1>1. t.limit \in Nat /\ t.member \in Nat \cup {NoLimit} /\ t.len \in Nat \ {0} /\ t.count \in Nat
  BY GroupsAssumption
<1>2. first \in Nat
  <2>1. CASE at < anchor
    BY Zenon, <2>1 DEF groupPeriodStart
  <2>2. CASE ~(at < anchor)
    <3> DEFINE k == (at - anchor) \div t.len
    <3>1. at - anchor \in Nat
      BY <2>2
    <3>2. k \in Nat
      BY <1>1, <3>1, Lengths
    <3> HIDE DEF k
    <3>3. k * t.len \in Nat
      BY <1>1, <3>2, WholeLengths
    <3>4. first = anchor + k * t.len
      BY Zenon, <2>2 DEF groupPeriodStart, k
    <3> HIDE DEF first
    <3> QED BY <3>3, <3>4
  <2> QED BY Zenon, <2>1, <2>2
<1> HIDE DEF first
<1>3. ex \in Nat \cup {Never}
  <2>1. CASE t.count = 0
    BY Zenon, <2>1 DEF groupExpiration
  <2>2. CASE t.count # 0
    <3>1. t.count - 1 \in Nat /\ first + t.len \in Nat
      BY <1>1, <1>2, <2>2
    <3>2. (t.count - 1) * t.len \in Nat
      BY Zenon, <1>1, <3>1, WholeLengths
    <3>3. ex = (first + t.len) + (t.count - 1) * t.len
      BY Zenon, <2>2 DEF groupExpiration
    <3> HIDE DEF ex
    <3> QED BY <3>1, <3>2, <3>3
  <2> QED BY Zenon, <2>1, <2>2
<1> HIDE DEF ex
<1>4. /\ w \in GroupRows /\ w.periods = x.periods /\ w.term = x.term + 1 /\ w.number = 1
      /\ w.len = t.len /\ w.count = t.count /\ w.expires = ex
  <2>1. /\ edited \in GroupRows /\ edited.periods = x.periods /\ edited.term = x.term /\ edited.number = 1
        /\ edited.len = t.len /\ edited.count = t.count /\ edited.expires = ex
    <3>1. /\ edited.periods = x.periods /\ edited.term = x.term /\ edited.number = 1
          /\ edited.len = t.len /\ edited.count = t.count /\ edited.expires = ex
      BY DEF GroupRows
    <3>2. edited \in GroupRows
      <4> DEFINE z == [x EXCEPT !.limit = t.limit, !.member = t.member, !.len = t.len, !.anchor = anchor]
      <4>1. z \in GroupRows
        BY Zenon, <1>1 DEF GroupRows
      <4>2. edited = [z EXCEPT !.count = t.count, !.number = 1, !.expires = ex]
        BY Zenon
      <4> HIDE DEF z, edited
      <4> DEFINE one == 1
      <4>3. one \in Nat \ {0}
        OBVIOUS
      <4>4. edited = [z EXCEPT !.count = t.count, !.number = one, !.expires = ex]
        BY Zenon, <4>2
      <4> HIDE DEF one
      <4> QED BY Zenon, <1>1, <1>3, <4>1, <4>3, <4>4 DEF GroupRows
    <3> QED BY Zenon, <3>1, <3>2
  <2> HIDE DEF edited
  <2>2. edited.term + 1 \in Nat
    BY <2>1 DEF GroupRows
  <2> DEFINE m == edited.term + 1
  <2>3. w = [edited EXCEPT !.term = m]
    BY Zenon
  <2> HIDE DEF m, w
  <2>4. /\ w \in GroupRows /\ w.periods = edited.periods /\ w.term = m /\ w.number = edited.number
        /\ w.len = edited.len /\ w.count = edited.count /\ w.expires = edited.expires
    BY Zenon, <2>1, <2>2, <2>3 DEF GroupRows, m
  <2> QED BY Zenon, <2>1, <2>4 DEF m
<1> HIDE DEF w
<1>5. w.expires = groupExpiration(first + w.len, w.len, w.count, 1)
  BY Zenon, <1>4 DEF ex
<1>6. GridSound(replaceGroupPeriodTx(w, first))
  BY Zenon, <1>2, <1>4, <1>5, Restarted
<1> QED BY Zenon, <1>6 DEF first, ex, w, edited

-----------------------------------------------------------------------------
(* Steps.                                                                  *)

\* A step whose rows stay or are sound.
LEMMA RowsSound ==
    ASSUME GroupsInvariant, now' \in Nat, DOMAIN group' = Groups,
           \A h \in Groups : group'[h] = group[h] \/ GridSound(group'[h]),
           clearing' = clearing \/ clearing' = NoClearing \/ clearing'.at \in Nat
    PROVE  GroupsInvariant'
<1>1. ASSUME NEW h \in Groups, group'[h] # NoGroupRow PROVE GridSound(group'[h])
  BY Zenon, <1>1 DEF GroupsInvariant, Present
<1>2. clearing' # NoClearing => clearing'.at \in Nat
  BY Zenon DEF GroupsInvariant
<1> QED BY Zenon, <1>1, <1>2 DEF GroupsInvariant, Present

\* A step that writes one row.
LEMMA RowWritten ==
    ASSUME GroupsInvariant, NEW g, NEW y, g \in Groups => GridSound(y), group' = [group EXCEPT ![g] = y],
           now' = now, clearing' = clearing \/ clearing' = NoClearing
    PROVE  GroupsInvariant'
<1>1. now' \in Nat /\ DOMAIN group = Groups
  BY Zenon DEF GroupsInvariant
<1>2. DOMAIN group' = Groups /\ \A h \in Groups : group'[h] = IF h = g THEN y ELSE group[h]
  BY <1>1
<1>3. \A h \in Groups : group'[h] = group[h] \/ GridSound(group'[h])
  BY Zenon, <1>2
<1> QED BY Zenon, <1>1, <1>2, <1>3, RowsSound

\* Creating or editing a group.
LEMMA PutGroupStep ==
    ASSUME GroupsInvariant, NEW g \in Groups, NEW t \in GroupTerms, NEW start \in {NoStart} \cup 0..Horizon,
           NEW at \in Nat, PutGroup(g, t, start, at)
    PROVE  GroupsInvariant'
<1> DEFINE blank == [limit |-> t.limit, member |-> t.member, len |-> t.len, anchor |-> at, count |-> 1,
                     number |-> 1, expires |-> Never, archived |-> FALSE, periods |-> <<>>, term |-> 0]
<1> DEFINE x == IF ~Present(g) THEN blank ELSE rollGroupTx(group[g], at)
<1> DEFINE reset == ~Present(g) \/ x.len # t.len \/ (start # NoStart /\ start # x.anchor)
<1> DEFINE anchor == IF ~reset THEN x.anchor ELSE IF start # NoStart THEN start ELSE at
<1> DEFINE first == groupPeriodStart(anchor, at, t.len)
<1> DEFINE number == IF reset THEN 1 ELSE x.number
<1> DEFINE end == IF reset THEN first + t.len ELSE Cur(x).end
<1> DEFINE edited == [x EXCEPT !.limit = t.limit, !.member = t.member, !.len = t.len, !.anchor = anchor,
                               !.count = t.count, !.number = number,
                               !.expires = groupExpiration(end, t.len, t.count, number)]
<1> DEFINE limited == [edited EXCEPT !.periods[Len(edited.periods)] =
                                        [@ EXCEPT !.limit = t.limit, !.member = t.member]]
<1> DEFINE y == IF reset THEN replaceGroupPeriodTx([edited EXCEPT !.term = @ + 1], first)
                ELSE rollGroupTx(limited, at)
<1>1. /\ t.count # 0 => t.count >= number
      /\ group' = [group EXCEPT ![g] = y]
      /\ now' = now /\ clearing' = clearing
  BY Zenon DEF PutGroup
<1>2. Present(g) => GridSound(x)
  BY Zenon, RollSound DEF GroupsInvariant
<1>3. x \in GroupRows /\ OnOneGrid(x.periods, x.len, x.term)
  <2>1. CASE Present(g)
    BY Zenon, <1>2, <2>1 DEF GridSound
  <2>2. CASE ~Present(g)
    <3>1. t.limit \in Nat /\ t.member \in Nat \cup {NoLimit} /\ t.len \in Nat \ {0} /\ t.count \in Nat
      BY GroupsAssumption
    <3>2. blank \in GroupRows /\ blank.periods = <<>>
      BY <3>1 DEF GroupRows
    <3>3. OnOneGrid(<<>>, blank.len, blank.term)
      BY DEF OnOneGrid
    <3> QED BY Zenon, <2>2, <3>2, <3>3
  <2> QED BY Zenon, <2>1, <2>2
<1> HIDE DEF x
<1>4. CASE reset
  <2>1. anchor \in Nat
    <3>1. start # NoStart => start \in Nat
      BY ClockAssumption
    <3> QED BY Zenon, <1>4, <3>1
  <2> HIDE DEF anchor
  <2>2. number = 1 /\ end = first + t.len
    BY Zenon, <1>4
  <2>3. GridSound(replaceGroupPeriodTx([edited EXCEPT !.term = @ + 1], first))
    <3> HIDE DEF reset
    <3> HIDE DEF number, end
    <3> DEFINE other == [x EXCEPT !.limit = t.limit, !.member = t.member, !.len = t.len, !.anchor = anchor,
                                  !.count = t.count, !.number = 1,
                                  !.expires = groupExpiration(first + t.len, t.len, t.count, 1)]
    <3>1. edited = other
      BY Zenon, <2>2
    <3>2. GridSound(replaceGroupPeriodTx([other EXCEPT !.term = @ + 1], first))
      BY Zenon, <1>3, <2>1, RestartSound
    <3> HIDE DEF edited, other
    <3> QED BY Zenon, <3>1, <3>2
  <2>4. GridSound(y)
    <3> HIDE DEF edited, first, reset
    <3> QED BY Zenon, <1>4, <2>3
  <2> HIDE DEF y
  <2> QED BY Zenon, <1>1, <2>4, RowWritten
<1>5. CASE ~reset
  <2>1. GridSound(x) /\ t.len = x.len
    BY Zenon, <1>2, <1>5
  <2>2. anchor = x.anchor /\ number = x.number /\ end = Cur(x).end
    BY Zenon, <1>5
  <2> HIDE DEF reset, anchor, number, end
  <2> DEFINE other == [x EXCEPT !.limit = t.limit, !.member = t.member, !.len = t.len, !.anchor = x.anchor,
                                !.count = t.count, !.number = x.number,
                                !.expires = groupExpiration(Cur(x).end, t.len, t.count, x.number)]
  <2>3. edited = other
    BY Zenon, <2>2
  <2>4. GridSound([other EXCEPT !.periods[Len(other.periods)] = [@ EXCEPT !.limit = t.limit, !.member = t.member]])
    BY Zenon, <1>1, <2>1, <2>2, LimitedSound
  <2> HIDE DEF edited, other
  <2>5. GridSound(limited)
    BY Zenon, <2>3, <2>4
  <2> HIDE DEF limited
  <2>6. GridSound(y)
    BY Zenon, <1>5, <2>5, RollSound
  <2> HIDE DEF y
  <2> QED BY Zenon, <1>1, <2>6, RowWritten
<1> QED BY Zenon, <1>4, <1>5

\* Every step keeps the invariant.
LEMMA GroupsStep ==
    ASSUME GroupsInvariant, GroupsNext \/ UNCHANGED <<now, groupVars>>
    PROVE  GroupsInvariant'
<1>1. now \in Nat /\ DOMAIN group = Groups
  BY Zenon DEF GroupsInvariant
<1>2. \A at \in Instants : at \in Nat
  BY DEF Instants
<1>3. ASSUME NEW g, NEW at \in Nat, Present(g), group' = [group EXCEPT ![g] = rollGroupTx(@, at)], now' = now,
             clearing' = clearing \/ clearing' = NoClearing
      PROVE  GroupsInvariant'
  <2>1. g \in Groups => GridSound(rollGroupTx(group[g], at))
    BY Zenon, <1>3, RollSound DEF GroupsInvariant
  <2>2. group' = [group EXCEPT ![g] = rollGroupTx(group[g], at)]
    BY Zenon, <1>3
  <2> QED BY Zenon, <1>3, <2>1, <2>2, RowWritten
<1>4. ASSUME NEW g \in Groups, NEW at \in Instants, ArchiveGroup(g, at) PROVE GroupsInvariant'
  <2> DEFINE x == rollGroupTx(group[g], at)
  <2>1. /\ Present(g) /\ now' = now /\ clearing' = clearing
        /\ group' = [group EXCEPT ![g] = [x EXCEPT !.archived = TRUE, !.periods[Len(x.periods)].open = FALSE]]
    BY Zenon, <1>4 DEF ArchiveGroup
  <2>2. GridSound(x)
    BY Zenon, <1>2, <2>1, RollSound DEF GroupsInvariant
  <2> HIDE DEF x
  <2>3. GridSound([x EXCEPT !.archived = TRUE, !.periods[Len(x.periods)].open = FALSE])
    BY Zenon, <2>2, ArchivedSound
  <2> DEFINE y == [x EXCEPT !.archived = TRUE, !.periods[Len(x.periods)].open = FALSE]
  <2> HIDE DEF y
  <2> QED BY Zenon, <2>1, <2>3, RowWritten DEF y
<1>5. ASSUME group' = group, now' \in Nat, clearing' = clearing \/ clearing' = NoClearing \/ clearing'.at \in Nat
      PROVE  GroupsInvariant'
  BY Zenon, <1>1, <1>5, RowsSound
<1>6. ASSUME NEW g \in Groups, NEW t \in GroupTerms, NEW start \in {NoStart} \cup 0..Horizon, NEW at \in Instants,
             PutGroup(g, t, start, at)
      PROVE  GroupsInvariant'
  BY Zenon, <1>2, <1>6, PutGroupStep
<1>7. ASSUME NEW g \in Groups, NEW us, NEW at \in Instants, AddMembers(g, us, at) \/ RemoveMembers(g, us, at)
      PROVE  GroupsInvariant'
  <2>1. Present(g) /\ group' = [group EXCEPT ![g] = rollGroupTx(@, at)] /\ now' = now /\ clearing' = clearing
    BY Zenon, <1>7 DEF AddMembers, RemoveMembers, RollForWrite
  <2> QED BY Zenon, <1>2, <1>3, <2>1
<1>8. ASSUME NEW g \in Groups, NEW at \in Instants, ListAllMembers(g, at) PROVE GroupsInvariant'
  <2>1. group' = group /\ now' = now /\ clearing'.at = at
    BY <1>8 DEF ListAllMembers
  <2> QED BY Zenon, <1>1, <1>2, <1>5, <2>1
<1>9. ASSUME NEW g, NEW u, NEW p, SetGroupMembershipPriority(g, u, p) PROVE GroupsInvariant'
  BY Zenon, <1>1, <1>5, <1>9 DEF SetGroupMembershipPriority
<1>10. CASE RemoveAllMembers
  <2>1. /\ Present(clearing.group) /\ clearing.at \in Nat
        /\ group' = [group EXCEPT ![clearing.group] = rollGroupTx(@, clearing.at)]
        /\ now' = now /\ clearing' = NoClearing
    BY Zenon, <1>10 DEF RemoveAllMembers, RollForWrite, GroupsInvariant
  <2> QED BY Zenon, <1>3, <2>1
<1>11. CASE RemoveAllRefused
  BY Zenon, <1>1, <1>5, <1>11 DEF RemoveAllRefused
<1>12. ASSUME NEW u, NEW at \in Instants, RollForMember(u, at) PROVE GroupsInvariant'
  <2>1. /\ \A g \in FundingGroups(u) : Present(g)
        /\ group' = [g \in Groups |-> IF g \in FundingGroups(u) THEN rollGroupTx(group[g], at) ELSE group[g]]
        /\ now' = now /\ clearing' = clearing
    BY Zenon, <1>12 DEF RollForMember, FundingRollSucceeds, FundingRolled
  <2>2. \A h \in Groups : group'[h] = group[h] \/ GridSound(group'[h])
    BY Zenon, <1>2, <2>1, RollSound DEF GroupsInvariant
  <2>3. DOMAIN group' = Groups
    BY Zenon, <2>1
  <2> QED BY Zenon, <1>1, <2>1, <2>2, <2>3, RowsSound
<1>13. ASSUME NEW g \in Groups, GetGroup(g) PROVE GroupsInvariant'
  <2>1. Present(g) /\ group' = [group EXCEPT ![g] = rollGroupTx(@, now)] /\ now' = now /\ clearing' = clearing
    BY Zenon, <1>13 DEF GetGroup
  <2> QED BY Zenon, <1>1, <1>3, <2>1
<1>14. CASE GroupsTick
  <2>1. now' \in Nat
    BY <1>1, <1>14 DEF GroupsTick, Advance
  <2> QED BY Zenon, <1>5, <1>14, <2>1 DEF GroupsTick, groupVars
<1>15. CASE UNCHANGED <<now, groupVars>>
  BY Zenon, <1>1, <1>5, <1>15 DEF groupVars
<1>16. CASE GroupWrite
  BY Zenon, <1>4, <1>6, <1>7, <1>8, <1>9, <1>16 DEF GroupWrite
<1> QED BY Zenon, <1>10, <1>11, <1>12, <1>13, <1>14, <1>15, <1>16 DEF GroupsNext

\* A sound row stays on the grid and can be rolled at any instant.
LEMMA GridFollows ==
    ASSUME GroupsInvariant
    PROVE  RollsStayOnGrid
<1>1. ASSUME NEW g \in Groups, Present(g),
             NEW i \in DOMAIN group[g].periods, NEW j \in DOMAIN group[g].periods,
             i < j, group[g].periods[i].term = group[g].periods[j].term
      PROVE  /\ group[g].periods[i].end <= group[g].periods[j].start
             /\ (group[g].periods[j].start - group[g].periods[i].start)
                  % (group[g].periods[i].end - group[g].periods[i].start) = 0
  <2> DEFINE ps == group[g].periods
  <2> DEFINE p == ps[i]
  <2> DEFINE q == ps[j]
  <2> DEFINE d == p.end - p.start
  <2>1. GridSound(group[g])
    BY Zenon, <1>1 DEF GroupsInvariant
  <2>2. ps \in Seq(UsagePeriods) /\ OnOneGrid(ps, group[g].len, group[g].term)
    BY ZenonT(30), <2>1, CurrentPeriod DEF GridSound
  <2> HIDE DEF ps
  <2>3. i \in 1..Len(ps) /\ j \in 1..Len(ps) /\ p \in UsagePeriods
    BY <1>1, <2>2 DEF ps
  <2>4. p.end > p.start /\ Aligned(p, q)
    BY Zenon, <1>1, <2>2, <2>3 DEF OnOneGrid, ps
  <2>5. p.start \in Nat /\ p.end \in Nat
    BY Zenon, <2>3 DEF UsagePeriods
  <2> HIDE DEF p, q
  <2>6. d \in Nat \ {0} /\ p.end = p.start + d
    BY <2>4, <2>5
  <2>7. PICK k \in Nat \ {0} : q.start = p.start + k * d
    BY Zenon, <2>4 DEF Aligned
  <2> HIDE DEF d
  <2>8. k * d \in Nat /\ (k * d) % d = 0
    BY Zenon, <2>6, WholeLengths
  <2>9. k * d >= d
    BY <2>6
  <2>10. q.start - p.start = k * d /\ p.end <= q.start
    BY <2>5, <2>6, <2>7, <2>8, <2>9
  <2> QED BY Zenon, <2>8, <2>10 DEF d, p, q, ps
<1>2. ASSUME NEW g \in Groups, Present(g), NEW at \in 0..Horizon PROVE ~RollFails(group[g], at)
  <2>1. at \in Nat
    BY ClockAssumption
  <2> QED BY Zenon, <1>2, <2>1, RollSound DEF GroupsInvariant
<1> QED BY Zenon, <1>1, <1>2 DEF RollsStayOnGrid

\* Within a term the periods of a group lie on one grid, each slot opened at
\* most once, and rollGroupTx never fails with "group period exceeds its
\* configured count", at any instant: for any number of groups and users, any
\* terms, any lag and any number of writes.
THEOREM RollsStayOnGridHolds == GroupsSpec => []RollsStayOnGrid
<1>1. GroupsInit => GroupsInvariant
  <2> SUFFICES ASSUME GroupsInit PROVE GroupsInvariant
    OBVIOUS
  <2>1. now \in Nat /\ DOMAIN group = Groups /\ clearing = NoClearing
    BY DEF GroupsInit
  <2>2. \A g \in Groups : ~Present(g)
    BY Zenon DEF GroupsInit, Present
  <2> QED BY Zenon, <2>1, <2>2 DEF GroupsInvariant
<1>2. GroupsInvariant /\ [GroupsNext]_<<now, groupVars>> => GroupsInvariant'
  BY Zenon, GroupsStep
<1>3. GroupsInvariant => RollsStayOnGrid
  BY Zenon, GridFollows
<1> QED BY <1>1, <1>2, <1>3, PTL DEF GroupsSpec

-----------------------------------------------------------------------------
(* Sessions.                                                               *)

Hashes == [epoch : Int, enc : Int]

Proofs ==
    [kind : {"password"}, epoch : Nat, hash : Int]
      \cup [kind : {"passkey"}, epoch : Nat, key : Passkeys, count : Nat]
      \cup [kind : {"recovery"}, epoch : Nat, code : Int]
      \cup [kind : {"external"}, epoch : Nat]

Rows == [proof : Proofs, source : Nat, idle : Int, absolute : Int, verified : Int, by : Nat, revoked : BOOLEAN]

Attempts ==
    {Idle} \cup [op : {"password"}, hash : Hashes]
      \cup [op : {"assertion", "proved"}, key : Passkeys, count : Nat]
      \cup [op : {"recovery"}, code : Int]
      \cup [op : {"external"}, binding : Nat, at : Nat]

SessionsTypeOK ==
    /\ now \in Nat /\ epoch \in Nat /\ keeper \in Nat /\ binding \in Nat /\ bindings \in Nat
    /\ password \in Hashes
    /\ counter \in [Passkeys -> Int]
    /\ session \in Seq(Rows)
    /\ attempt \in [Clients -> Attempts]

-----------------------------------------------------------------------------
(* Rows                                                                    *)

\* Revoking changes only whether the named sessions are revoked.
LEMMA RevokedRows ==
    ASSUME NEW ss \in Seq(Rows), NEW ids
    PROVE  /\ Revoked(ss, ids) \in Seq(Rows) /\ Len(Revoked(ss, ids)) = Len(ss)
           /\ DOMAIN Revoked(ss, ids) = DOMAIN ss
           /\ \A i \in DOMAIN ss :
                /\ i \in ids => Revoked(ss, ids)[i] = [ss[i] EXCEPT !.revoked = TRUE]
                /\ i \notin ids => Revoked(ss, ids)[i] = ss[i]
<1> DEFINE row(i) == IF i \in ids THEN [ss[i] EXCEPT !.revoked = TRUE] ELSE ss[i]
<1>1. DOMAIN ss = 1..Len(ss) /\ Len(ss) \in Nat /\ \A i \in DOMAIN ss : ss[i] \in Rows
  OBVIOUS
<1>2. \A i \in 1..Len(ss) : row(i) \in Rows
  BY Zenon, <1>1 DEF Rows
<1>3. Revoked(ss, ids) = [i \in 1..Len(ss) |-> row(i)]
  BY <1>1 DEF Revoked
<1> HIDE DEF row
<1>4. Revoked(ss, ids) \in Seq(Rows) /\ Len(Revoked(ss, ids)) = Len(ss) /\ DOMAIN Revoked(ss, ids) = 1..Len(ss)
  BY <1>1, <1>2, <1>3
<1>5. \A i \in DOMAIN ss : Revoked(ss, ids)[i] = row(i)
  BY <1>1, <1>3
<1> QED BY <1>1, <1>4, <1>5 DEF row

\* A revoked row is revoked and the same row otherwise.
LEMMA RevokedRow ==
    ASSUME NEW s \in Rows
    PROVE  /\ [s EXCEPT !.revoked = TRUE].revoked
           /\ [s EXCEPT !.revoked = TRUE].proof = s.proof
BY DEF Rows

\* A row without a recent proof of identity.
LEMMA ClearedRow ==
    ASSUME NEW s \in Rows, NEW e, e = [s EXCEPT !.verified = Never, !.by = 0]
    PROVE  e \in Rows /\ e.proof = s.proof /\ e.source = s.source /\ e.by = 0
<1>1. Never \in Int /\ 0 \in Nat
  BY DEF Never
<1> QED BY <1>1, Zenon DEF Rows

\* Replacing one row by another row.
LEMMA ReplacedRow ==
    ASSUME NEW ss \in Seq(Rows), NEW i \in DOMAIN ss, NEW s \in Rows
    PROVE  /\ [ss EXCEPT ![i] = s] \in Seq(Rows) /\ DOMAIN [ss EXCEPT ![i] = s] = DOMAIN ss
           /\ [ss EXCEPT ![i] = s][i] = s
           /\ \A j \in DOMAIN ss : j # i => [ss EXCEPT ![i] = s][j] = ss[j]
OBVIOUS

\* A row appended at the end.
LEMMA AppendedRow ==
    ASSUME NEW ss \in Seq(Rows), NEW s \in Rows
    PROVE  /\ Append(ss, s) \in Seq(Rows)
           /\ DOMAIN Append(ss, s) = DOMAIN ss \cup {Len(ss) + 1}
           /\ Append(ss, s)[Len(ss) + 1] = s
           /\ \A i \in DOMAIN ss : Append(ss, s)[i] = ss[i]
           /\ Len(ss) + 1 \notin DOMAIN ss
OBVIOUS

\* What an attempt under way has read.
LEMMA AttemptRead ==
    ASSUME SessionsTypeOK, NEW c \in Clients
    PROVE  /\ attempt[c].op = "password" => attempt[c].hash \in Hashes
           /\ attempt[c].op \in {"assertion", "proved"} => attempt[c].key \in Passkeys /\ attempt[c].count \in Nat
           /\ attempt[c].op = "recovery" => attempt[c].code \in Int
           /\ attempt[c].op = "external" => attempt[c].binding \in Nat /\ attempt[c].at \in Nat
<1>1. attempt[c] \in Attempts
  BY DEF SessionsTypeOK
<1> QED BY <1>1 DEF Attempts, Idle

-----------------------------------------------------------------------------
(* Withdrawn credentials                                                   *)

\* What WithdrawnLeavesNothing asks of one row.
Current(i, s) ==
    ~s.revoked =>
        /\ i # keeper => /\ s.proof.epoch = epoch
                         /\ s.proof.kind = "password" => s.proof.hash = password.epoch
        /\ s.source \in {0, binding} /\ s.by \in {0, binding}

SessionsInvariant == SessionsTypeOK /\ \A i \in DOMAIN session : Current(i, session[i])

\* The second conjunct is the property.
LEMMA CurrentRows == (\A i \in DOMAIN session : Current(i, session[i])) <=> WithdrawnLeavesNothing
BY DEF Current, WithdrawnLeavesNothing, OnlyCurrentCredentials, NothingLeftOfUnlinked

\* A row that keeps its proof and its source, and whose proof of identity is
\* local or from the linked identity, stays current.
LEMMA RowChanged ==
    ASSUME SessionsInvariant, NEW i \in DOMAIN session, NEW s \in Rows,
           s.proof = session[i].proof, s.source = session[i].source, s.by \in {0, binding, session[i].by},
           s.revoked = session[i].revoked,
           session' = [session EXCEPT ![i] = s],
           attempt' \in [Clients -> Attempts],
           UNCHANGED <<now, accountVars>>
    PROVE  SessionsInvariant'
<1>1. session \in Seq(Rows)
  BY DEF SessionsInvariant, SessionsTypeOK
<1>2. SessionsTypeOK'
  BY <1>1, ReplacedRow DEF SessionsInvariant, SessionsTypeOK, accountVars
<1>3. Current(i, s)
  BY DEF SessionsInvariant, Current
<1>4. \A j \in DOMAIN session' : Current(j, session'[j])
  BY <1>1, <1>3, ReplacedRow DEF SessionsInvariant
<1>5. (\A j \in DOMAIN session : Current(j, session[j]))'
  BY <1>4 DEF Current, accountVars
<1> QED BY <1>2, <1>5 DEF SessionsInvariant

\* A new session that is current leaves the others so.
LEMMA RowAdded ==
    ASSUME SessionsInvariant, NEW s \in Rows, session' = Append(session, s),
           Current(Len(session) + 1, s),
           attempt' \in [Clients -> Attempts], password' \in Hashes, password'.epoch = password.epoch,
           UNCHANGED <<now, epoch, keeper, counter, binding, bindings>>
    PROVE  SessionsInvariant'
<1>1. session \in Seq(Rows)
  BY DEF SessionsInvariant, SessionsTypeOK
<1>2. SessionsTypeOK'
  BY <1>1, AppendedRow DEF SessionsInvariant, SessionsTypeOK
<1>3. \A j \in DOMAIN session' : Current(j, session'[j])
  BY <1>1, AppendedRow DEF SessionsInvariant
<1>4. (\A j \in DOMAIN session : Current(j, session[j]))'
  BY <1>3 DEF Current
<1> QED BY <1>2, <1>4 DEF SessionsInvariant

\* A step that leaves the sessions and the credentials alone, or adds a
\* credential, keeps the invariant.
LEMMA RowsKept ==
    ASSUME SessionsInvariant, attempt' \in [Clients -> Attempts], counter' \in [Passkeys -> Int], now' \in Nat,
           bindings' \in Nat, binding' \in Nat, binding' = binding \/ binding = 0,
           UNCHANGED <<password, epoch, keeper, session>>
    PROVE  SessionsInvariant'
<1>1. SessionsTypeOK'
  BY DEF SessionsInvariant, SessionsTypeOK
<1>2. (\A j \in DOMAIN session : Current(j, session[j]))'
  BY DEF SessionsInvariant, Current
<1> QED BY <1>1, <1>2 DEF SessionsInvariant

\* An attempt begins, goes on or ends.
LEMMA AttemptsKept ==
    ASSUME SessionsInvariant, NEW c \in Clients, NEW a \in Attempts
    PROVE  /\ Start(c, a) => attempt' \in [Clients -> Attempts]
           /\ attempt' = [attempt EXCEPT ![c] = a] => attempt' \in [Clients -> Attempts]
           /\ Finish(c) => attempt' \in [Clients -> Attempts]
BY DEF SessionsInvariant, SessionsTypeOK, Start, Finish, Attempts

\* An instant that was read.
LEMMA InstantRead ==
    ASSUME SessionsInvariant, NEW at \in Instants
    PROVE  at \in Nat
BY DEF SessionsInvariant, SessionsTypeOK, Instants

\* The steps of a client that insert a session.
LEMMA LoginStep ==
    ASSUME SessionsInvariant, NEW c \in Clients, UNCHANGED now,
           \/ \E at \in Instants, rehash \in BOOLEAN : CompletePasswordLogin(c, rehash, at)
           \/ \E at \in Instants : FinishLogin(c, at)
           \/ CompleteExternalLogin(c)
    PROVE  SessionsInvariant'
<1> DEFINE n == Len(session) + 1
<1>0. SessionsTypeOK
  BY Zenon DEF SessionsInvariant
<1>1. ASSUME NEW at \in Instants, NEW rehash \in BOOLEAN, CompletePasswordLogin(c, rehash, at)
      PROVE  SessionsInvariant'
  <2> DEFINE p == [kind |-> "password", epoch |-> epoch, hash |-> attempt[c].hash.epoch]
  <2> DEFINE s == insertSession(p, 0, Never, 0, at)
  <2>1. attempt[c].hash = password /\ password \in Hashes /\ at \in Nat /\ epoch \in Nat
    BY <1>0, <1>1, InstantRead DEF CompletePasswordLogin, ComparePasswordHash, SessionsTypeOK
  <2>2. p \in Proofs /\ p.epoch = epoch /\ p.hash = password.epoch
    BY <2>1 DEF Proofs, Hashes
  <2>3. s \in Rows /\ s.proof = p /\ s.source = 0 /\ s.by = 0
    <3> HIDE DEF p
    <3> QED BY <2>1, <2>2, SessionsAssumption DEF insertSession, Rows, Never
  <2>4. Current(n, s)
    <3> HIDE DEF p, s
    <3> QED BY <2>2, <2>3 DEF Current
  <2>5. password' \in Hashes /\ password'.epoch = password.epoch
    BY <1>1, <2>1 DEF CompletePasswordLogin, Hashes
  <2>6. session' = Append(session, s) /\ Finish(c) /\ UNCHANGED <<epoch, keeper, counter, binding, bindings>>
    BY Zenon, <1>1 DEF CompletePasswordLogin
  <2> HIDE DEF s
  <2> QED BY Zenon, <2>3, <2>4, <2>5, <2>6, RowAdded, AttemptsKept DEF Attempts
<1>2. ASSUME NEW at \in Instants, FinishLogin(c, at)
      PROVE  SessionsInvariant'
  <2> DEFINE p == [kind |-> "passkey", epoch |-> epoch, key |-> attempt[c].key, count |-> attempt[c].count]
  <2> DEFINE s == insertSession(p, 0, Never, 0, at)
  <2>1. at \in Nat /\ epoch \in Nat /\ attempt[c].key \in Passkeys /\ attempt[c].count \in Nat
    BY <1>0, <1>2, InstantRead, AttemptRead DEF FinishLogin, SessionsTypeOK
  <2>2. p \in Proofs /\ p.epoch = epoch /\ p.kind = "passkey"
    BY <2>1 DEF Proofs
  <2>3. s \in Rows /\ s.proof = p /\ s.source = 0 /\ s.by = 0
    <3> HIDE DEF p
    <3> QED BY <2>1, <2>2, SessionsAssumption DEF insertSession, Rows, Never
  <2>4. Current(n, s)
    <3> HIDE DEF p, s
    <3> QED BY <2>2, <2>3 DEF Current
  <2>5. session' = Append(session, s) /\ Finish(c) /\ UNCHANGED accountVars
    BY Zenon, <1>2 DEF FinishLogin
  <2> HIDE DEF s
  <2> QED BY Zenon, <1>0, <2>3, <2>4, <2>5, RowAdded, AttemptsKept DEF Attempts, accountVars, SessionsTypeOK
<1>3. ASSUME CompleteExternalLogin(c)
      PROVE  SessionsInvariant'
  <2> DEFINE p == [kind |-> "external", epoch |-> epoch]
  <2> DEFINE s == insertSession(p, attempt[c].binding, attempt[c].at, attempt[c].binding, now)
  <2>1. now \in Nat /\ epoch \in Nat /\ attempt[c].binding = binding /\ binding \in Nat /\ attempt[c].at \in Nat
    BY <1>0, <1>3, AttemptRead DEF CompleteExternalLogin, BindingHeld, SessionsTypeOK
  <2>2. p \in Proofs /\ p.epoch = epoch /\ p.kind = "external"
    BY <2>1 DEF Proofs
  <2>3. s \in Rows /\ s.proof = p /\ s.source = binding /\ s.by = binding
    <3> HIDE DEF p
    <3> QED BY <2>1, <2>2, SessionsAssumption DEF insertSession, Rows
  <2>4. Current(n, s)
    <3> HIDE DEF p, s
    <3> QED BY <2>2, <2>3 DEF Current
  <2>5. session' = Append(session, s) /\ Finish(c) /\ UNCHANGED accountVars
    BY <1>3 DEF CompleteExternalLogin
  <2> HIDE DEF s
  <2> QED BY Zenon, <1>0, <2>3, <2>4, <2>5, RowAdded, AttemptsKept DEF Attempts, accountVars, SessionsTypeOK
<1> QED BY <1>1, <1>2, <1>3

\* The steps that give a session a new proof of identity, take it away, or
\* extend the session.
LEMMA VerificationStep ==
    ASSUME SessionsInvariant, NEW i \in DOMAIN session, UNCHANGED now,
           \/ \E c \in Clients, at \in Instants : VerifyPasswordSession(c, i, at) \/ FinishReauthentication(c, i, at)
           \/ \E c \in Clients : CompleteExternalReauthentication(c, i)
           \/ \E at \in Instants : TouchSession(i, at)
           \/ \E t \in 0..now : ClearSessionVerificationIfCurrent(i, t)
    PROVE  SessionsInvariant'
<1>0. SessionsTypeOK /\ session \in Seq(Rows) /\ session[i] \in Rows
  BY DEF SessionsInvariant, SessionsTypeOK
<1> DEFINE proved(at, by) == [session[i] EXCEPT !.verified = at, !.by = by]
<1>1. ASSUME NEW at \in Int, NEW by \in Nat
      PROVE  /\ proved(at, by) \in Rows /\ proved(at, by).proof = session[i].proof
             /\ proved(at, by).source = session[i].source /\ proved(at, by).by = by
             /\ proved(at, by).revoked = session[i].revoked
             /\ [session EXCEPT ![i].verified = at, ![i].by = by] = [session EXCEPT ![i] = proved(at, by)]
  BY Zenon, <1>0 DEF Rows
<1> HIDE DEF proved
<1>2. ASSUME NEW c \in Clients, NEW at \in Instants, VerifyPasswordSession(c, i, at) \/ FinishReauthentication(c, i, at)
      PROVE  SessionsInvariant'
  <2>1. session' = [session EXCEPT ![i].verified = at, ![i].by = 0] /\ Finish(c) /\ UNCHANGED accountVars
    BY Zenon, <1>2 DEF VerifyPasswordSession, FinishReauthentication
  <2>2. at \in Int /\ 0 \in Nat
    BY InstantRead
  <2> DEFINE s == proved(at, 0)
  <2>3. /\ s \in Rows /\ s.proof = session[i].proof /\ s.source = session[i].source /\ s.by = 0
        /\ s.revoked = session[i].revoked /\ session' = [session EXCEPT ![i] = s]
    BY Zenon, <1>1, <2>1, <2>2
  <2> HIDE DEF s
  <2> QED BY Zenon, <2>1, <2>3, RowChanged, AttemptsKept DEF Attempts
<1>3. ASSUME NEW c \in Clients, CompleteExternalReauthentication(c, i)
      PROVE  SessionsInvariant'
  <2>0. attempt[c].binding = binding /\ binding \in Nat /\ attempt[c].at \in Nat
    BY Zenon, <1>0, <1>3, AttemptRead DEF CompleteExternalReauthentication, BindingHeld, SessionsTypeOK
  <2>1. binding \in Nat /\ attempt[c].at \in Int
    BY <2>0
  <2>2. session' = [session EXCEPT ![i].verified = attempt[c].at, ![i].by = binding] /\ Finish(c) /\ UNCHANGED accountVars
    BY Zenon, <1>3, <2>0 DEF CompleteExternalReauthentication
  <2> DEFINE s == proved(attempt[c].at, binding)
  <2>3. /\ s \in Rows /\ s.proof = session[i].proof /\ s.source = session[i].source /\ s.by = binding
        /\ s.revoked = session[i].revoked /\ session' = [session EXCEPT ![i] = s]
    BY Zenon, <1>1, <2>1, <2>2
  <2> HIDE DEF s
  <2> QED BY Zenon, <2>2, <2>3, RowChanged, AttemptsKept DEF Attempts
<1>4. ASSUME NEW t \in 0..now, ClearSessionVerificationIfCurrent(i, t)
      PROVE  SessionsInvariant'
  <2>1. session' = [session EXCEPT ![i].verified = Never, ![i].by = 0] /\ UNCHANGED <<accountVars, attempt>>
    BY <1>4 DEF ClearSessionVerificationIfCurrent
  <2> DEFINE s == proved(Never, 0)
  <2>2. /\ s \in Rows /\ s.proof = session[i].proof /\ s.source = session[i].source /\ s.by = 0
        /\ s.revoked = session[i].revoked /\ session' = [session EXCEPT ![i] = s]
    <3>1. Never \in Int /\ 0 \in Nat
      BY DEF Never
    <3> QED BY Zenon, <1>1, <2>1, <3>1
  <2> HIDE DEF s
  <2> QED BY Zenon, <1>0, <2>1, <2>2, RowChanged DEF SessionsTypeOK
<1>5. ASSUME NEW at \in Instants, TouchSession(i, at)
      PROVE  SessionsInvariant'
  <2>1. session' = [session EXCEPT ![i] = Touched(session[i], at)] /\ UNCHANGED <<accountVars, attempt>>
    BY <1>0, <1>5 DEF TouchSession
  <2>2. /\ Touched(session[i], at) \in Rows /\ Touched(session[i], at).proof = session[i].proof
        /\ Touched(session[i], at).source = session[i].source /\ Touched(session[i], at).by = session[i].by
        /\ Touched(session[i], at).revoked = session[i].revoked
    <3>1. at + IdleTTL \in Int /\ session[i].absolute \in Int
      BY <1>0, InstantRead, SessionsAssumption DEF Rows
    <3>2. Min({session[i].absolute, at + IdleTTL}) \in Int
      <4> DEFINE S == {session[i].absolute, at + IdleTTL}
      <4>1. \E x \in S : \A y \in S : x <= y
        BY <3>1
      <4>2. Min(S) = CHOOSE x \in S : \A y \in S : x <= y
        BY DEF Min
      <4> QED BY <3>1, <4>1, <4>2
    <3> QED BY Zenon, <1>0, <3>2 DEF Touched, Rows
  <2> QED BY Zenon, <1>0, <2>1, <2>2, RowChanged DEF SessionsTypeOK
<1> QED BY <1>2, <1>3, <1>4, <1>5

\* Sessions end, and at most the one that stays or begins is not revoked.
LEMMA RowsRevoked ==
    ASSUME SessionsInvariant, NEW ids, session' = Revoked(session, ids),
           attempt' \in [Clients -> Attempts], UNCHANGED <<now, counter, binding, bindings>>,
           \/ UNCHANGED <<password, epoch, keeper>>
           \/ /\ password' \in Hashes /\ epoch' \in Nat /\ keeper' \in DOMAIN session
              /\ DOMAIN session \ {keeper'} \subseteq ids
    PROVE  SessionsInvariant'
<1>1. session \in Seq(Rows) /\ \A i \in DOMAIN session : session[i] \in Rows
  BY DEF SessionsInvariant, SessionsTypeOK
<1>2. SessionsTypeOK'
  <2>1. session' \in Seq(Rows) /\ DOMAIN session \subseteq Nat
    BY <1>1, RevokedRows
  <2> QED BY <2>1 DEF SessionsInvariant, SessionsTypeOK
<1>4. /\ DOMAIN session' = DOMAIN session
      /\ \A j \in DOMAIN session : /\ j \in ids => session'[j] = [session[j] EXCEPT !.revoked = TRUE]
                                   /\ j \notin ids => session'[j] = session[j]
  BY <1>1, RevokedRows
<1>3. ASSUME NEW i \in DOMAIN session'
      PROVE  Current(i, session[i])'
  <2>1. i \in DOMAIN session
    BY <1>3, <1>4
  <2>2. CASE i \in ids
    <3>1. session'[i] = [session[i] EXCEPT !.revoked = TRUE]
      BY <1>4, <2>1, <2>2
    <3>2. session'[i].revoked
      BY Zenon, <1>1, <2>1, <3>1, RevokedRow
    <3> QED BY <3>2 DEF Current
  <2>3. CASE i \notin ids
    <3>1. session'[i] = session[i]
      BY <1>4, <2>1, <2>3
    <3>2. (i # keeper)' => i # keeper /\ UNCHANGED <<password, epoch, keeper>>
      BY <2>1, <2>3
    <3>3. Current(i, session[i])
      BY <2>1 DEF SessionsInvariant
    <3> QED BY <3>1, <3>2, <3>3 DEF Current
  <2> QED BY <2>2, <2>3
<1> QED BY <1>2, <1>3 DEF SessionsInvariant

\* A revocation and a new password.
LEMMA RevocationStep ==
    ASSUME SessionsInvariant, NEW i \in DOMAIN session, UNCHANGED now,
           RevokeSession(i) \/ \E at \in Instants : SetPassword(i, at)
    PROVE  SessionsInvariant'
<1>1. attempt \in [Clients -> Attempts] /\ epoch \in Nat /\ epoch + 1 \in Nat
  BY DEF SessionsInvariant, SessionsTypeOK
<1>2. CASE RevokeSession(i)
  BY Zenon, <1>1, <1>2, RowsRevoked DEF RevokeSession, accountVars
<1>3. ASSUME NEW at \in Instants, SetPassword(i, at)
      PROVE  SessionsInvariant'
  <2>1. password' \in Hashes /\ epoch' \in Nat /\ keeper' = i
    BY <1>1, <1>3 DEF SetPassword, Hashes
  <2> QED BY <1>1, <1>3, <2>1, RowsRevoked DEF SetPassword
<1> QED BY <1>2, <1>3

\* A recovery ends every session and begins one of its own.
LEMMA RecoveryStep ==
    ASSUME SessionsInvariant, NEW c \in Clients, NEW key \in Passkeys \cup {PasswordKey}, NEW at \in Instants,
           CompleteAccountRecovery(c, key, at), UNCHANGED now
    PROVE  SessionsInvariant'
<1> DEFINE p == [kind |-> "recovery", epoch |-> epoch + 1, code |-> attempt[c].code]
<1> DEFINE s == insertSession(p, 0, at, 0, at)
<1> DEFINE ended == Revoked(session, DOMAIN session)
<1>1. SessionsTypeOK /\ session \in Seq(Rows) /\ (\A i \in DOMAIN session : session[i] \in Rows) /\ Len(session) \in Nat
  BY DEF SessionsInvariant, SessionsTypeOK
<1>2. at \in Nat /\ epoch + 1 \in Nat /\ attempt[c].code \in Int
  <2>1. at \in Nat
    BY Zenon, <1>1, InstantRead
  <2>2. epoch \in Nat
    BY Zenon, <1>1 DEF SessionsTypeOK
  <2>3. epoch + 1 \in Nat
    BY <2>2
  <2>4. attempt[c].op = "recovery"
    BY Zenon DEF CompleteAccountRecovery
  <2>5. attempt[c].code \in Int
    BY Zenon, <1>1, <2>4, AttemptRead
  <2> QED BY Zenon, <2>1, <2>3, <2>5
<1>3. p \in Proofs
  BY Zenon, <1>2 DEF Proofs
<1>4. s \in Rows /\ s.source = 0 /\ s.by = 0
  <2> HIDE DEF p
  <2> QED BY <1>2, <1>3, SessionsAssumption DEF insertSession, Rows
<1>5. session' = Append(ended, s) /\ keeper' = Len(session) + 1 /\ Finish(c) /\ UNCHANGED <<binding, bindings>>
  BY DEF CompleteAccountRecovery
<1> HIDE DEF s
<1>6. /\ ended \in Seq(Rows) /\ Len(ended) = Len(session) /\ DOMAIN ended = DOMAIN session
      /\ \A i \in DOMAIN ended : ended[i].revoked
  <2>1. \A i \in DOMAIN session : ended[i] = [session[i] EXCEPT !.revoked = TRUE]
    BY <1>1, RevokedRows
  <2>2. \A i \in DOMAIN session : ended[i].revoked
    BY ZenonT(30), <1>1, <2>1, RevokedRow
  <2> QED BY <1>1, <2>2, RevokedRows
<1> HIDE DEF ended
<1>7. /\ session' \in Seq(Rows) /\ DOMAIN session' = DOMAIN ended \cup {keeper'} /\ session'[keeper'] = s
      /\ \A i \in DOMAIN ended : session'[i] = ended[i]
  <2>1. keeper' = Len(ended) + 1
    BY Zenon, <1>5, <1>6
  <2>2. Extended(session', ended, keeper', s, Rows)
    BY Zenon, <1>4, <1>5, <1>6, <2>1, RowInserted
  <2> QED BY Zenon, <2>2 DEF Extended
<1>8. password' \in Hashes /\ counter' \in [Passkeys -> Int] /\ epoch' \in Nat /\ keeper' \in Nat
  BY <1>1, <1>2, <1>5 DEF CompleteAccountRecovery, SessionsTypeOK, Hashes
<1>9. SessionsTypeOK'
  BY Zenon, <1>1, <1>5, <1>7, <1>8, AttemptsKept DEF SessionsTypeOK, Attempts
<1>10. ASSUME NEW i \in DOMAIN session'
       PROVE  Current(i, session[i])'
  <2>1. CASE i = keeper'
    BY <1>4, <1>7, <2>1 DEF Current
  <2>2. CASE i \in DOMAIN ended
    BY <1>6, <1>7, <2>2 DEF Current
  <2> QED BY Zenon, <1>7, <2>1, <2>2
<1> QED BY <1>9, <1>10 DEF SessionsInvariant

\* Unlinking ends the sessions of the identity and clears the proofs of the
\* others.
LEMMA UnlinkStep ==
    ASSUME SessionsInvariant, NEW i \in DOMAIN session, UnlinkExternalIdentity(i), UNCHANGED now
    PROVE  SessionsInvariant'
<1> DEFINE ids == {j \in DOMAIN session : session[j].source = binding}
<1> DEFINE ss == Revoked(session, ids)
<1> DEFINE cleared(j) == IF ss[j].revoked THEN ss[j] ELSE [ss[j] EXCEPT !.verified = Never, !.by = 0]
<1>1. SessionsTypeOK /\ session \in Seq(Rows) /\ \A j \in DOMAIN session : session[j] \in Rows
  BY DEF SessionsInvariant, SessionsTypeOK
<1>2. session' = [j \in DOMAIN ss |-> cleared(j)] /\ binding' = 0 /\ UNCHANGED <<password, epoch, keeper, counter, bindings, attempt>>
  BY Zenon DEF UnlinkExternalIdentity
<1>3. /\ ss \in Seq(Rows) /\ DOMAIN ss = DOMAIN session
      /\ \A j \in DOMAIN session : /\ j \in ids => ss[j] = [session[j] EXCEPT !.revoked = TRUE]
                                   /\ j \notin ids => ss[j] = session[j]
  <2> HIDE DEF ids
  <2> QED BY <1>1, RevokedRows
<1>4. \A j \in DOMAIN session : ss[j] \in Rows /\ (j \in ids => ss[j].revoked)
  <2> HIDE DEF ids, ss
  <2>1. \A j \in DOMAIN session : ss[j] \in Rows
    BY <1>3
  <2>2. ASSUME NEW j \in DOMAIN session, j \in ids
        PROVE  ss[j].revoked
    <3>1. ss[j] = [session[j] EXCEPT !.revoked = TRUE] /\ session[j] \in Rows
      BY <1>1, <1>3, <2>2
    <3> QED BY <3>1, RevokedRow
  <2> QED BY <2>1, <2>2
<1> HIDE DEF ss
<1>5. ASSUME NEW j \in DOMAIN session
      PROVE  /\ cleared(j) \in Rows
             /\ ~cleared(j).revoked => /\ ~ss[j].revoked
                                       /\ cleared(j).proof = ss[j].proof /\ cleared(j).source = ss[j].source
                                       /\ cleared(j).by = 0
  <2>1. ss[j] \in Rows
    BY <1>4
  <2>2. CASE ss[j].revoked
    BY <2>1, <2>2
  <2>3. CASE ~ss[j].revoked
    <3>1. cleared(j) = [ss[j] EXCEPT !.verified = Never, !.by = 0]
      BY <2>3
    <3> HIDE DEF cleared
    <3>2. /\ cleared(j) \in Rows /\ cleared(j).proof = ss[j].proof
          /\ cleared(j).source = ss[j].source /\ cleared(j).by = 0
      BY Zenon, <2>1, <3>1, ClearedRow
    <3> QED BY <2>3, <3>2
  <2> QED BY <2>2, <2>3
<1> HIDE DEF cleared
<1>6. session' \in Seq(Rows) /\ DOMAIN session' = DOMAIN session /\ \A j \in DOMAIN session : session'[j] = cleared(j)
  <2>1. DOMAIN session = 1..Len(session) /\ Len(session) \in Nat
    BY <1>1
  <2> QED BY <1>2, <1>3, <1>5, <2>1
<1>7. SessionsTypeOK'
  BY ZenonT(30), <1>1, <1>2, <1>6 DEF SessionsTypeOK
<1>8. ASSUME NEW j \in DOMAIN session', ~session'[j].revoked
      PROVE  /\ (j # keeper)' => /\ session'[j].proof.epoch = epoch
                                 /\ session'[j].proof.kind = "password" => session'[j].proof.hash = password.epoch
             /\ session'[j].source = 0 /\ session'[j].by = 0
  <2>1. j \in DOMAIN session /\ session'[j] = cleared(j)
    BY ZenonT(30), <1>6, <1>8
  <2>2. ~ss[j].revoked /\ cleared(j).proof = ss[j].proof /\ cleared(j).source = ss[j].source /\ cleared(j).by = 0
    BY <1>5, <1>8, <2>1
  <2>3. j \notin ids /\ ss[j] = session[j]
    <3> HIDE DEF ids
    <3> QED BY Zenon, <1>3, <1>4, <2>1, <2>2
  <2>4. session[j].source # binding /\ Current(j, session[j]) /\ ~session[j].revoked
    BY Zenon, <2>1, <2>2, <2>3 DEF SessionsInvariant
  <2> QED BY <1>2, <2>1, <2>2, <2>3, <2>4 DEF Current
<1>9. (\A j \in DOMAIN session : Current(j, session[j]))'
  BY <1>2, <1>8 DEF Current
<1> QED BY <1>7, <1>9 DEF SessionsInvariant


\* Every step keeps the invariant.
LEMMA SessionsStep ==
    ASSUME SessionsInvariant, [SessionsNext]_<<now, sessionVars>>
    PROVE  SessionsInvariant'
<1>0. SessionsTypeOK
  BY DEF SessionsInvariant
<1>1. ASSUME NEW c \in Clients, ClientStep(c), UNCHANGED now
      PROVE  SessionsInvariant'
  <2>1. ASSUME NEW a \in Attempts, Start(c, a)
        PROVE  SessionsInvariant'
    <3>1. attempt' \in [Clients -> Attempts]
      BY <2>1, AttemptsKept
    <3> QED BY <1>0, <1>1, <2>1, <3>1, RowsKept DEF Start, accountVars, SessionsTypeOK
  <2>2. CASE ReadPassword(c)
    <3>1. [op |-> "password", hash |-> password] \in Attempts
      BY <1>0 DEF SessionsTypeOK, Attempts
    <3> QED BY <2>1, <2>2, <3>1 DEF ReadPassword
  <2>3. ASSUME NEW k \in Passkeys, NEW n \in 0..MaxSignCount, AssertPasskey(c, k, n)
        PROVE  SessionsInvariant'
    <3>1. [op |-> "assertion", key |-> k, count |-> n] \in Attempts
      BY DEF Attempts
    <3> QED BY Zenon, <2>1, <2>3, <3>1 DEF AssertPasskey
  <2>4. CASE PersistCredentialUse(c)
    <3>1. attempt[c].key \in Passkeys /\ attempt[c].count \in Nat
      BY Zenon, <1>0, <2>4, AttemptRead DEF PersistCredentialUse
    <3>2. [op |-> "proved", key |-> attempt[c].key, count |-> attempt[c].count] \in Attempts
      BY Zenon, <3>1 DEF Attempts
    <3>3. attempt' \in [Clients -> Attempts] /\ counter' \in [Passkeys -> Int]
      BY <1>0, <2>4, <3>1, <3>2, AttemptsKept DEF PersistCredentialUse, SessionsTypeOK
    <3> QED BY Zenon, <1>0, <1>1, <2>4, <3>3, RowsKept DEF PersistCredentialUse, SessionsTypeOK
  <2>5. ASSUME NEW code \in 0..MaxEpoch, BeginRecovery(c, code)
        PROVE  SessionsInvariant'
    <3>1. [op |-> "recovery", code |-> code] \in Attempts
      BY DEF Attempts
    <3> QED BY <2>1, <2>5, <3>1 DEF BeginRecovery
  <2>6. CASE BeginInvitedRecovery(c)
    <3>1. [op |-> "recovery", code |-> Ticket] \in Attempts
      BY DEF Attempts, Ticket
    <3> QED BY Zenon, <2>1, <2>6, <3>1 DEF BeginInvitedRecovery
  <2>7. CASE ProveExternally(c)
    <3>1. [op |-> "external", binding |-> binding, at |-> now] \in Attempts
      BY <1>0 DEF Attempts, SessionsTypeOK
    <3> QED BY <2>1, <2>7, <3>1 DEF ProveExternally
  <2>8. CASE Abandon(c)
    <3>1. attempt' \in [Clients -> Attempts]
      BY <2>8, AttemptsKept DEF Abandon, Attempts
    <3> QED BY ZenonT(30), <1>0, <1>1, <2>8, <3>1, RowsKept DEF Abandon, accountVars, SessionsTypeOK
  <2> QED BY <1>1, <2>2, <2>3, <2>4, <2>5, <2>6, <2>7, <2>8, LoginStep, VerificationStep, RecoveryStep, ZenonT(30)
          DEF ClientStep
<1>2. ASSUME NEW i \in DOMAIN session, SessionStep(i), UNCHANGED now
      PROVE  SessionsInvariant'
  <2>1. ASSUME NEW at \in Instants, NEW k \in Passkeys, NEW n \in 0..MaxSignCount, FinishAddCredential(i, k, n, at)
        PROVE  SessionsInvariant'
    BY <1>0, <1>2, <2>1, RowsKept DEF FinishAddCredential, SessionsTypeOK
  <2>2. CASE LinkExternalIdentity(i)
    BY <1>0, <1>2, <2>2, RowsKept DEF LinkExternalIdentity, SessionsTypeOK
  <2> QED BY <1>2, <2>1, <2>2, VerificationStep, RevocationStep, UnlinkStep, Zenon DEF SessionStep
<1>3. CASE RevokeRecovery /\ UNCHANGED now
  BY <1>0, <1>3, RowsKept DEF RevokeRecovery, SessionsTypeOK
<1>4. CASE SessionsTick
  BY <1>0, <1>4, RowsKept DEF SessionsTick, Advance, sessionVars, SessionsTypeOK
<1>5. CASE UNCHANGED <<now, sessionVars>>
  BY Zenon, <1>0, <1>5, RowsKept DEF sessionVars, SessionsTypeOK
<1> QED BY <1>1, <1>2, <1>3, <1>4, <1>5 DEF SessionsNext

\* The invariant holds at the start: there are no sessions.
LEMMA SessionsStart == now = 0 /\ SessionsInit => SessionsInvariant
<1> SUFFICES ASSUME now = 0, SessionsInit PROVE SessionsInvariant
  OBVIOUS
<1>1. password \in Hashes /\ counter \in [Passkeys -> Int] /\ bindings \in Nat
  BY DEF SessionsInit, NoHash, Hashes
<1>2. session \in Seq(Rows) /\ DOMAIN session = {}
  BY DEF SessionsInit
<1>3. attempt \in [Clients -> Attempts]
  BY DEF SessionsInit, Attempts
<1> QED BY <1>1, <1>2, <1>3 DEF SessionsInvariant, SessionsTypeOK, SessionsInit

\* A password change, a recovery and an unlink leave nothing of what was
\* withdrawn: no session of an older password or epoch but the one that made
\* the change, none of an unlinked identity, and no proof it gave, whatever
\* logins were being checked at the time.
THEOREM WithdrawnHolds == SessionsSpec => []WithdrawnLeavesNothing
<1>1. SessionsInvariant => WithdrawnLeavesNothing
  BY CurrentRows DEF SessionsInvariant
<1> QED BY <1>1, SessionsStart, SessionsStep, PTL DEF SessionsSpec

-----------------------------------------------------------------------------
(* Pending accounts and pending applications.                              *)

InvitationFields == {"kind", "max", "approval", "expires", "revoked", "used"}
ApplicationRows == [code : Codes, user : Invitees \cup {Nobody}, status : {"pending", "approved", "deleted"}]

KindOf(c) == invitation[c].kind

CodeRow(c) ==
    \/ invitation[c] = NoInvitation
    \/ /\ DOMAIN invitation[c] = InvitationFields /\ KindOf(c) \in {"member", "group", "owner_bootstrap"}
       /\ invitation[c].approval \in BOOLEAN
       /\ KindOf(c) = "owner_bootstrap" => invitation[c].approval = FALSE

\* An application and its applicant agree.
ApplicationRow(i) ==
    /\ KindOf(application[i].code) \in {"member", "group"}
    /\ application[i].status = "pending" =>
        /\ application[i].user # Nobody
        /\ IF KindOf(application[i].code) = "group" THEN ActiveUser(application[i].user)
           ELSE person[application[i].user] = "pending"

\* i is the one application of u.
OnlyApplication(u, i) ==
    /\ i \in DOMAIN application /\ application[i].user = u /\ application[i].status = "pending"
    /\ KindOf(application[i].code) = "member"
    /\ \A j \in DOMAIN application : application[j].user = u /\ application[j].status # "deleted" => j = i

PersonRow(u) ==
    /\ person[u] = "none" => \A i \in DOMAIN application : application[i].user = u => application[i].status = "deleted"
    /\ registering[u] # NoCode =>
        /\ person[u] = "none" /\ registering[u] \in Codes
        /\ KindOf(registering[u]) \in {"member", "owner_bootstrap"}
    /\ person[u] = "pending" => \E i \in DOMAIN application : OnlyApplication(u, i)

ReviewRow(r) ==
    \/ review[r] = NoReview
    \/ /\ review[r].ids \subseteq DOMAIN application
       /\ \A i \in review[r].ids : application[i].code = review[r].code

InvitationTypes ==
    /\ DOMAIN person = Invitees /\ DOMAIN registering = Invitees /\ DOMAIN invitation = Codes
    /\ DOMAIN review = Reviews /\ application \in Seq(ApplicationRows)

InvitationInvariant ==
    /\ InvitationTypes
    /\ \A c \in Codes : CodeRow(c)
    /\ \A i \in DOMAIN application : ApplicationRow(i)
    /\ \A u \in Invitees : PersonRow(u)
    /\ \A r \in Reviews : ReviewRow(r)

-----------------------------------------------------------------------------
\* The applications are rows.
LEMMA ApplicationType ==
    ASSUME InvitationTypes
    PROVE  /\ DOMAIN application = 1..Len(application) /\ Len(application) \in Nat
           /\ \A i \in DOMAIN application : application[i] \in ApplicationRows
BY Zenon, RowsOfTable DEF InvitationTypes

\* An invitation that exists keeps its kind, and the rows stay well formed.
KindsKept ==
    /\ DOMAIN invitation' = Codes
    /\ \A c \in Codes : CodeRow(c)' /\ (KindOf(c) # "none" => KindOf(c)' = KindOf(c))

\* Invitations that are left alone keep their kind.
LEMMA SameInvitations ==
    ASSUME InvitationInvariant, UNCHANGED invitation
    PROVE  KindsKept
BY Zenon DEF KindsKept, InvitationInvariant, InvitationTypes, CodeRow, KindOf

\* Reviews under way still name applications of their invitation.
LEMMA ReviewsStay ==
    ASSUME InvitationInvariant, DOMAIN application \subseteq DOMAIN application',
           \A i \in DOMAIN application : application'[i].code = application[i].code,
           NEW r \in Reviews, review'[r] \in {review[r], NoReview}
    PROVE  ReviewRow(r)'
BY Zenon DEF InvitationInvariant, ReviewRow

\* A registration under way is given up or goes on.
Goes(u) == registering'[u] \in {registering[u], NoCode}

\* Steps that change neither accounts nor applications.
LEMMA AccountsStay ==
    ASSUME InvitationInvariant, UNCHANGED <<person, application>>, KindsKept,
           DOMAIN registering' = Invitees, DOMAIN review' = Reviews,
           \A u \in Invitees : \/ Goes(u)
                               \/ /\ person[u] = "none" /\ registering'[u] \in Codes
                                  /\ KindOf(registering'[u]) \in {"member", "owner_bootstrap"},
           \A r \in Reviews : ReviewRow(r)'
    PROVE  InvitationInvariant'
<1>0. \A i \in DOMAIN application : application[i].code \in Codes
  BY Zenon, ApplicationType DEF InvitationInvariant, ApplicationRows
<1>1. ASSUME NEW i \in DOMAIN application PROVE ApplicationRow(i)'
  <2>1. ApplicationRow(i) /\ application[i].code \in Codes
    BY Zenon, <1>0 DEF InvitationInvariant
  <2>2. KindOf(application[i].code)' = KindOf(application[i].code)
    BY Zenon, <2>1 DEF ApplicationRow, KindsKept, KindOf
  <2> QED BY Zenon, <2>1, <2>2 DEF ApplicationRow, ActiveUser, KindOf
<1>2. ASSUME NEW u \in Invitees PROVE PersonRow(u)'
  <2>1. PersonRow(u)
    BY Zenon DEF InvitationInvariant
  <2>2. ASSUME NEW i \in DOMAIN application, OnlyApplication(u, i) PROVE OnlyApplication(u, i)'
    BY Zenon, <1>0, <2>2 DEF OnlyApplication, KindsKept, KindOf
  <2>3. registering'[u] # NoCode =>
          /\ person'[u] = "none" /\ registering'[u] \in Codes
          /\ KindOf(registering[u])' \in {"member", "owner_bootstrap"}
    BY ZenonT(30), <2>1 DEF PersonRow, Goes, KindsKept, KindOf
  <2> QED BY Zenon, <2>1, <2>2, <2>3 DEF PersonRow
<1> QED BY Zenon, <1>1, <1>2 DEF InvitationInvariant, InvitationTypes, KindsKept

\* A step that only rewrites invitations and keeps their kind.
LEMMA QuietStep ==
    ASSUME InvitationInvariant, UNCHANGED <<person, application, registering, review>>, KindsKept
    PROVE  InvitationInvariant'
<1>1. \A r \in Reviews : ReviewRow(r)'
  BY Zenon, ReviewsStay
<1> QED BY Zenon, <1>1, AccountsStay DEF InvitationInvariant, InvitationTypes, Goes

\* An invitation is created or revoked.
LEMMA CreateStep ==
    ASSUME InvitationInvariant, NEW c \in Codes, NEW t \in InviteTerms, NEW at, CreateInvitation(c, t, at)
    PROVE  InvitationInvariant'
<1> DEFINE new == [kind |-> t.kind, max |-> t.max, approval |-> t.approval,
                   expires |-> at + t.life, revoked |-> FALSE, used |-> FALSE]
<1>1. invitation[c] = NoInvitation /\ invitation' = [invitation EXCEPT ![c] = new]
  BY Zenon DEF CreateInvitation
<1>2. /\ DOMAIN new = InvitationFields /\ new.kind \in {"member", "group", "owner_bootstrap"}
      /\ new.approval \in BOOLEAN /\ (new.kind = "owner_bootstrap" => new.approval = FALSE)
  BY InvitationsAssumption DEF InvitationFields
<1> HIDE DEF new
<1>3. NoInvitation.kind = "none"
  BY ZenonT(30) DEF NoInvitation
<1>4. KindsKept
  BY Zenon, <1>1, <1>2, <1>3 DEF KindsKept, InvitationInvariant, InvitationTypes, CodeRow, KindOf
<1> QED BY Zenon, <1>4, QuietStep DEF CreateInvitation

\* A field of an invitation other than kind and approval is set.
LEMMA FieldSet ==
    ASSUME InvitationInvariant, NEW c \in Codes, NEW f \in {"revoked", "used"}, invitation[c] # NoInvitation,
           invitation' = [invitation EXCEPT ![c] = [@ EXCEPT ![f] = TRUE]]
    PROVE  KindsKept
<1> DEFINE new == [invitation[c] EXCEPT ![f] = TRUE]
<1>1. invitation' = [invitation EXCEPT ![c] = new] /\ CodeRow(c)
  BY DEF InvitationInvariant, InvitationTypes
<1>2. DOMAIN new = InvitationFields /\ new.kind = invitation[c].kind /\ new.approval = invitation[c].approval
  BY Zenon, <1>1 DEF CodeRow, InvitationFields
<1> HIDE DEF new
<1> QED BY ZenonT(30), <1>1, <1>2 DEF KindsKept, InvitationInvariant, InvitationTypes, CodeRow, KindOf

\* RevokeInvitation keeps the kind of the invitation.
LEMMA RevokeStep ==
    ASSUME InvitationInvariant, NEW c \in Codes, RevokeInvitation(c)
    PROVE  InvitationInvariant'
<1>1. invitation[c] # NoInvitation /\ invitation' = [invitation EXCEPT ![c] = [@ EXCEPT !["revoked"] = TRUE]]
  BY Zenon DEF RevokeInvitation, InvitationInvariant, InvitationTypes
<1>2. KindsKept
  BY Zenon, <1>1, FieldSet
<1> QED BY <1>2, QuietStep DEF RevokeInvitation

\* A registration begins, or ends without an account.
LEMMA RegistrationStep ==
    ASSUME InvitationInvariant, NEW u \in Invitees,
           RegistrationFails(u) \/ \E c \in Codes, at \in Instants : BeginInvitationRegistration(u, c, at)
    PROVE  InvitationInvariant'
<1>0. UNCHANGED <<person, application, review, invitation>> /\ KindsKept
  BY Zenon, SameInvitations DEF RegistrationFails, BeginInvitationRegistration
<1>1. \A r \in Reviews : ReviewRow(r)'
  BY Zenon, <1>0, ReviewsStay
<1>2. DOMAIN registering = Invitees /\ DOMAIN review = Reviews
  BY Zenon DEF InvitationInvariant, InvitationTypes
<1>3. CASE RegistrationFails(u)
  <2>1. DOMAIN registering' = Invitees /\ \A v \in Invitees : Goes(v)
    BY ZenonT(30), <1>2, <1>3 DEF RegistrationFails, Goes
  <2> QED BY Zenon, <1>0, <1>1, <1>2, <2>1, AccountsStay
<1>4. CASE \E c \in Codes, at \in Instants : BeginInvitationRegistration(u, c, at)
  <2>1. PICK c \in Codes : /\ person[u] = "none" /\ registering' = [registering EXCEPT ![u] = c]
                           /\ KindOf(c) \in {"member", "owner_bootstrap"}
    BY Zenon, <1>4 DEF BeginInvitationRegistration, KindOf
  <2>2. DOMAIN registering' = Invitees
        /\ \A v \in Invitees : \/ Goes(v)
                               \/ /\ person[v] = "none" /\ registering'[v] \in Codes
                                  /\ KindOf(registering'[v]) \in {"member", "owner_bootstrap"}
    BY <1>2, <2>1 DEF Goes
  <2> QED BY ZenonT(30), <1>0, <1>1, <1>2, <2>2, AccountsStay
<1> QED BY Zenon, <1>3, <1>4

\* An Owner's review reads its applicants, or ends without an effect.
LEMMA ReadReviewStep ==
    ASSUME InvitationInvariant, NEW r \in Reviews,
           \/ ReviewFails(r)
           \/ \E c \in Codes : \E ids \in SUBSET Applications(c), d \in {"approve", "reject"} :
                ReadReviewIdentities(r, c, ids, d)
    PROVE  InvitationInvariant'
<1>0. UNCHANGED <<person, application, registering, invitation>> /\ KindsKept
  BY ZenonT(30), SameInvitations DEF ReviewFails, ReadReviewIdentities
<1>1. DOMAIN registering = Invitees /\ DOMAIN review = Reviews
  BY Zenon DEF InvitationInvariant, InvitationTypes
<1>2. \A u \in Invitees : Goes(u)
  BY Zenon, <1>0 DEF Goes
<1>3. CASE ReviewFails(r)
  <2>1. DOMAIN review' = Reviews /\ \A s \in Reviews : review'[s] \in {review[s], NoReview}
    BY <1>1, <1>3 DEF ReviewFails
  <2>2. \A s \in Reviews : ReviewRow(s)'
    BY Zenon, <1>0, <2>1, ReviewsStay
  <2> QED BY Zenon, <1>0, <1>1, <1>2, <2>1, <2>2, AccountsStay
<1>4. ASSUME NEW c \in Codes, NEW ids \in SUBSET Applications(c), NEW d \in {"approve", "reject"},
             ReadReviewIdentities(r, c, ids, d)
      PROVE  InvitationInvariant'
  <2> DEFINE new == [code |-> c, ids |-> ids, decision |-> d,
                     users |-> {application[i].user : i \in ids} \ {Nobody}]
  <2>1. review' = [review EXCEPT ![r] = new]
    BY Zenon, <1>4 DEF ReadReviewIdentities
  <2>2. new.code = c /\ new.ids = ids
    BY Zenon
  <2> HIDE DEF new
  <2>3. ids \subseteq DOMAIN application /\ \A i \in ids : application[i].code = c
    BY DEF Applications
  <2>4. DOMAIN review' = Reviews /\ review'[r] = new /\ \A s \in Reviews : s # r => review'[s] = review[s]
    BY Zenon, <1>1, <2>1
  <2>5. ReviewRow(r)'
    BY ZenonT(30), <1>0, <2>2, <2>3, <2>4 DEF ReviewRow
  <2>6. \A s \in Reviews : s # r => ReviewRow(s)'
    BY Zenon, <1>0, <2>4, ReviewsStay
  <2> QED BY Zenon, <1>0, <1>1, <1>2, <2>4, <2>5, <2>6, AccountsStay
<1> QED BY Zenon, <1>3, <1>4

-----------------------------------------------------------------------------
\* An application is added; nobody is pending but perhaps its applicant.
LEMMA NewApplication ==
    ASSUME InvitationInvariant, NEW u \in Invitees, NEW c \in Codes, KindOf(c) \in {"member", "group"},
           insertInvitationApplicationTx(c, u), KindsKept,
           DOMAIN person' = Invitees, DOMAIN registering' = Invitees, UNCHANGED review,
           \A v \in Invitees : v # u => person'[v] = person[v] /\ registering'[v] = registering[v],
           person[u] # "pending", person'[u] # "none", registering'[u] = NoCode,
           ActiveUser(u) => person'[u] = person[u],
           person'[u] = "pending" <=> (KindOf(c) = "member" /\ invitation[c].approval),
           KindOf(c) = "member" => person[u] = "none",
           KindOf(c) = "group" => ActiveUser(u)
    PROVE  InvitationInvariant'
<1> DEFINE new == [code |-> c, user |-> u, status |-> IF invitation[c].approval THEN "pending" ELSE "approved"]
<1>0. PICK n : n = Len(application) + 1
  OBVIOUS
<1>1. new \in ApplicationRows /\ new.code = c /\ new.user = u
      /\ (new.status = "pending" <=> invitation[c].approval) /\ new.status # "deleted"
  BY ZenonT(30) DEF ApplicationRows
<1>2. application \in Seq(ApplicationRows) /\ application' = Append(application, new)
  BY ZenonT(30) DEF insertInvitationApplicationTx, InvitationInvariant, InvitationTypes
<1> HIDE DEF new
<1>3. /\ application' \in Seq(ApplicationRows) /\ DOMAIN application' = DOMAIN application \cup {n}
      /\ n \notin DOMAIN application /\ application'[n] = new
      /\ \A i \in DOMAIN application : application'[i] = application[i]
  <2>1. Extended(application', application, n, new, ApplicationRows)
    BY Zenon, <1>0, <1>1, <1>2, RowInserted
  <2> QED BY Zenon, <2>1 DEF Extended
<1>4. \A i \in DOMAIN application : application[i].code \in Codes /\ application[i].user \in Invitees \cup {Nobody}
  BY Zenon, ApplicationType DEF InvitationInvariant, ApplicationRows
<1>5. KindOf(c)' = KindOf(c)
  BY Zenon DEF KindsKept
<1>6. ASSUME NEW i \in DOMAIN application PROVE ApplicationRow(i)'
  <2>1. ApplicationRow(i) /\ application[i].code \in Codes
    BY Zenon, <1>4 DEF InvitationInvariant
  <2>2. KindOf(application[i].code)' = KindOf(application[i].code)
    BY Zenon, <1>3, <2>1 DEF ApplicationRow, KindsKept, KindOf
  <2>3. application[i].status = "pending" => application[i].user \in Invitees
    BY Zenon, <1>4, <2>1 DEF ApplicationRow
  <2>4. CASE application[i].user = u
    <3>1. application[i].status = "pending" => ActiveUser(u) /\ KindOf(application[i].code) = "group"
      BY Zenon, <2>1, <2>4 DEF ApplicationRow
    <3> QED BY Zenon, <1>3, <2>1, <2>2, <2>4, <3>1 DEF ApplicationRow, ActiveUser, KindOf
  <2>5. CASE application[i].user # u
    BY Zenon, <1>3, <2>1, <2>2, <2>3, <2>5 DEF ApplicationRow, ActiveUser, KindOf
  <2> QED BY Zenon, <2>4, <2>5
<1>7. ApplicationRow(n)'
  <2>1. u # Nobody
    BY ZenonT(30), InvitationsAssumption
  <2>2. KindOf(application[n].code)' = KindOf(c)
    BY Zenon, <1>1, <1>3, <1>5 DEF KindOf
  <2> QED BY Zenon, <1>1, <1>3, <2>1, <2>2 DEF ApplicationRow, ActiveUser, KindOf
<1>8. ASSUME NEW v \in Invitees, v # u PROVE PersonRow(v)'
  <2>1. PersonRow(v) /\ person'[v] = person[v] /\ registering'[v] = registering[v]
    BY Zenon, <1>8 DEF InvitationInvariant
  <2>2. ASSUME NEW i \in DOMAIN application, OnlyApplication(v, i) PROVE OnlyApplication(v, i)'
    BY ZenonT(30), <1>1, <1>3, <1>4, <1>8, <2>2 DEF OnlyApplication, KindsKept, KindOf
  <2>3. person[v] = "none" => \A i \in DOMAIN application' : application'[i].user = v => application'[i].status = "deleted"
    <3>1. \A i \in DOMAIN application : person[v] = "none" /\ application[i].user = v => application[i].status = "deleted"
      BY <2>1 DEF PersonRow
    <3>2. application'[n].user # v
      BY <1>1, <1>3, <1>8
    <3> QED BY <1>3, <3>1, <3>2
  <2>4. registering'[v] # NoCode =>
          registering'[v] \in Codes /\ KindOf(registering[v])' \in {"member", "owner_bootstrap"}
    BY Zenon, <2>1 DEF PersonRow, KindsKept, KindOf
  <2> QED BY Zenon, <1>3, <2>1, <2>2, <2>3, <2>4 DEF PersonRow
<1>9. PersonRow(u)'
  <2>1. ASSUME person'[u] = "pending" PROVE OnlyApplication(u, n)'
    <3>1. \A j \in DOMAIN application : application[j].user = u => application[j].status = "deleted"
      BY Zenon, <2>1 DEF InvitationInvariant, PersonRow
    <3> QED BY <1>1, <1>3, <1>5, <2>1, <3>1 DEF OnlyApplication, KindOf
  <2> QED BY ZenonT(30), <1>3, <2>1 DEF PersonRow
<1>10. \A r \in Reviews : ReviewRow(r)'
  BY ZenonT(30), <1>3, ReviewsStay
<1> QED BY ZenonT(30), <1>3, <1>6, <1>7, <1>8, <1>9, <1>10 DEF InvitationInvariant, InvitationTypes, KindsKept

\* A registration completes.
LEMMA CompleteStep ==
    ASSUME InvitationInvariant, NEW u \in Invitees, NEW at, CompleteInvitationRegistration(u, at)
    PROVE  InvitationInvariant'
<1> DEFINE c == registering[u]
<1>1. /\ c \in Codes /\ person[u] = "none" /\ KindOf(c) \in {"member", "owner_bootstrap"}
      /\ DOMAIN person = Invitees /\ DOMAIN registering = Invitees /\ CodeRow(c)
  BY Zenon DEF CompleteInvitationRegistration, InvitationInvariant, InvitationTypes, PersonRow
<1>2. /\ person' = [person EXCEPT ![u] = RegisteredAs(c)] /\ registering' = [registering EXCEPT ![u] = NoCode]
      /\ recordRegistrationApplicationTx(c, u) /\ UNCHANGED review
  BY Zenon DEF CompleteInvitationRegistration
<1>3. /\ DOMAIN person' = Invitees /\ DOMAIN registering' = Invitees /\ registering'[u] = NoCode
      /\ person'[u] = RegisteredAs(c)
      /\ \A v \in Invitees : v # u => person'[v] = person[v] /\ registering'[v] = registering[v]
  BY ZenonT(30), <1>1, <1>2
<1>4. /\ invitation[c] # NoInvitation /\ invitation[c].approval \in BOOLEAN
      /\ KindOf(c) = "owner_bootstrap" => invitation[c].approval = FALSE
  BY <1>1 DEF CodeRow, NoInvitation, KindOf
<1>5. RegisteredAs(c) # "none" /\ (RegisteredAs(c) = "pending" <=> invitation[c].approval)
  BY DEF RegisteredAs
<1> HIDE DEF c
<1>6. CASE KindOf(c) = "member"
  <2>1. insertInvitationApplicationTx(c, u) /\ UNCHANGED invitation
    BY Zenon, <1>2, <1>6 DEF recordRegistrationApplicationTx, KindOf
  <2> QED BY Zenon, <1>1, <1>2, <1>3, <1>5, <1>6, <2>1, NewApplication, SameInvitations DEF ActiveUser
<1>7. CASE KindOf(c) = "owner_bootstrap"
  <2>1. invitation' = [invitation EXCEPT ![c] = [@ EXCEPT !["used"] = TRUE]] /\ UNCHANGED application
    BY <1>2, <1>7 DEF recordRegistrationApplicationTx, KindOf, InvitationInvariant, InvitationTypes
  <2>2. KindsKept
    BY ZenonT(30), <1>1, <1>4, <2>1, FieldSet
  <2>3. person'[u] \notin {"none", "pending"}
    BY Zenon, <1>3, <1>4, <1>5, <1>7
  <2>4. \A i \in DOMAIN application : application[i].code \in Codes
    BY Zenon, ApplicationType DEF InvitationInvariant, ApplicationRows
  <2>5. ASSUME NEW i \in DOMAIN application PROVE ApplicationRow(i)'
    <3>1. ApplicationRow(i) /\ application[i].code \in Codes
      BY Zenon, <2>4 DEF InvitationInvariant
    <3>2. KindOf(application[i].code)' = KindOf(application[i].code)
      BY ZenonT(30), <2>1, <2>2, <3>1 DEF ApplicationRow, KindsKept, KindOf
    <3>3. application[i].status = "pending" => application[i].user # u
      BY Zenon, <1>1, <3>1 DEF ApplicationRow, ActiveUser
    <3>4. application[i].status = "pending" => application[i].user \in Invitees
      BY Zenon, <3>1, ApplicationType DEF InvitationInvariant, ApplicationRows, ApplicationRow
    <3> QED BY Zenon, <1>3, <2>1, <3>1, <3>2, <3>3, <3>4 DEF ApplicationRow, ActiveUser, KindOf
  <2>6. ASSUME NEW v \in Invitees, v # u PROVE PersonRow(v)'
    <3>1. PersonRow(v) /\ person'[v] = person[v] /\ registering'[v] = registering[v]
      BY Zenon, <1>3, <2>6 DEF InvitationInvariant
    <3>2. ASSUME NEW i \in DOMAIN application, OnlyApplication(v, i) PROVE OnlyApplication(v, i)'
      BY <2>1, <2>2, <2>4, <3>2 DEF OnlyApplication, KindsKept, KindOf
    <3>3. registering'[v] # NoCode =>
            registering'[v] \in Codes /\ KindOf(registering[v])' \in {"member", "owner_bootstrap"}
      BY ZenonT(30), <2>2, <3>1 DEF PersonRow, KindsKept, KindOf
    <3> QED BY Zenon, <2>1, <3>1, <3>2, <3>3 DEF PersonRow
  <2>7. PersonRow(u)'
    BY Zenon, <1>3, <2>3 DEF PersonRow
  <2>8. \A r \in Reviews : ReviewRow(r)'
    BY ZenonT(30), <1>2, <2>1, ReviewsStay
  <2> QED BY <1>2, <1>3, <2>1, <2>2, <2>5, <2>6, <2>7, <2>8 DEF InvitationInvariant, InvitationTypes, KindsKept
<1> QED BY <1>1, <1>6, <1>7

\* A user joins the group.
LEMMA JoinStep ==
    ASSUME InvitationInvariant, NEW u \in Invitees, NEW c \in Codes, JoinInvitation(u, c)
    PROVE  InvitationInvariant'
<1>1. /\ ActiveUser(u) /\ KindOf(c) = "group" /\ insertInvitationApplicationTx(c, u)
      /\ UNCHANGED <<person, registering, invitation, review>>
  BY Zenon DEF JoinInvitation, KindOf
<1>2. person[u] \notin {"none", "pending"}
  BY <1>1 DEF ActiveUser
<1>3. registering[u] = NoCode /\ DOMAIN person = Invitees /\ DOMAIN registering = Invitees
  BY Zenon, <1>2 DEF InvitationInvariant, InvitationTypes, PersonRow
<1> QED BY <1>1, <1>2, <1>3, NewApplication, SameInvitations

-----------------------------------------------------------------------------
\* Steps that decide about applications, change accounts and register nobody.
LEMMA RowsDecided ==
    ASSUME InvitationInvariant, UNCHANGED <<invitation, registering>>, DOMAIN person' = Invitees,
           application' = [i \in DOMAIN application |-> application'[i]],
           \A i \in DOMAIN application : application'[i] \in ApplicationRows /\ application'[i].code = application[i].code,
           DOMAIN review' = Reviews, \A r \in Reviews : review'[r] \in {review[r], NoReview},
           \A i \in DOMAIN application : ApplicationRow(i)',
           \A u \in Invitees : person'[u] = "none" <=> person[u] = "none",
           \A i \in DOMAIN application : application[i].status = "deleted" => application'[i].status = "deleted",
           \A i \in DOMAIN application : application'[i].user \in {application[i].user, Nobody},
           \A u \in Invitees : person'[u] = "pending" => person[u] = "pending",
           \A u \in Invitees, i \in DOMAIN application :
                person'[u] = "pending" /\ application[i].user = u => application'[i] = application[i]
    PROVE  InvitationInvariant'
<1>0. DOMAIN application' = DOMAIN application
  OBVIOUS
<1>1. application' \in Seq(ApplicationRows)
  <2>1. Len(application) \in Nat /\ DOMAIN application = 1..Len(application)
    BY ApplicationType DEF InvitationInvariant
  <2>2. application' = [i \in 1..Len(application) |-> application'[i]]
    BY Zenon, <2>1
  <2>3. \A i \in 1..Len(application) : application'[i] \in ApplicationRows
    BY Zenon, <2>1
  <2> QED BY Zenon, <2>1, <2>2, <2>3, TableOfRows
<1>2. \A r \in Reviews : ReviewRow(r)'
  BY Zenon, <1>0, ReviewsStay
<1>3. Nobody \notin Invitees
  BY Zenon, InvitationsAssumption
<1>4. ASSUME NEW u \in Invitees PROVE PersonRow(u)'
  <2>1. PersonRow(u)
    BY Zenon DEF InvitationInvariant
  <2>2. ASSUME NEW i \in DOMAIN application, OnlyApplication(u, i), person'[u] = "pending" PROVE OnlyApplication(u, i)'
    BY <1>0, <1>3, <2>2 DEF OnlyApplication, KindOf
  <2>3. person'[u] = "none" => \A i \in DOMAIN application' : application'[i].user = u => application'[i].status = "deleted"
    BY <1>0, <1>3, <2>1 DEF PersonRow
  <2>4. registering'[u] # NoCode => /\ person'[u] = "none" /\ registering'[u] \in Codes
                                    /\ KindOf(registering[u])' \in {"member", "owner_bootstrap"}
    BY Zenon, <2>1 DEF PersonRow, KindOf
  <2> QED BY Zenon, <1>0, <2>1, <2>2, <2>3, <2>4 DEF PersonRow
<1>5. KindsKept
  BY SameInvitations
<1> QED BY Zenon, <1>0, <1>1, <1>2, <1>4, <1>5 DEF InvitationInvariant, InvitationTypes, KindsKept

\* The applications a decision is about, and their applicants.
LEMMA Decisions ==
    ASSUME InvitationInvariant, NEW ids \in SUBSET DOMAIN application, NEW status \in {"approved", "deleted"},
           Decided(ids, status)
    PROVE  /\ DOMAIN application' = DOMAIN application
           /\ \A i \in DOMAIN application :
                /\ application'[i] \in ApplicationRows /\ application'[i].code = application[i].code
                /\ application'[i].user = application[i].user
                /\ i \in ids => application'[i].status = status
                /\ i \notin ids => application'[i] = application[i]
<1>1. ASSUME NEW i \in DOMAIN application
      PROVE  /\ application'[i] \in ApplicationRows /\ application'[i].code = application[i].code
             /\ application'[i].user = application[i].user
             /\ i \in ids => application'[i].status = status
             /\ i \notin ids => application'[i] = application[i]
  <2>1. application[i] \in ApplicationRows
    BY ApplicationType DEF InvitationInvariant
  <2>2. application'[i] = IF i \in ids THEN [application[i] EXCEPT !.status = status] ELSE application[i]
    BY DEF Decided
  <2> QED BY <2>1, <2>2 DEF ApplicationRows
<1> QED BY <1>1 DEF Decided

\* A review decides.
LEMMA ReviewStep ==
    ASSUME InvitationInvariant, NEW r \in Reviews, ReviewInvitationApplications(r)
    PROVE  InvitationInvariant'
<1> DEFINE x == review[r]
<1> DEFINE ids == Reviewed(x)
<1> DEFINE us == Applicants(ids)
<1>1. /\ x # NoReview /\ Review(x, ids) /\ review' = [review EXCEPT ![r] = NoReview]
      /\ UNCHANGED <<invitation, registering>>
  BY Zenon DEF ReviewInvitationApplications
<1>2. ids \subseteq DOMAIN application /\ \A i \in ids : application[i].code = x.code /\ application[i].status # "deleted"
  BY Zenon, <1>1 DEF InvitationInvariant, ReviewRow, Reviewed, Stored
<1>3. DOMAIN review' = Reviews /\ \A s \in Reviews : review'[s] \in {review[s], NoReview}
  BY Zenon, <1>1 DEF InvitationInvariant, InvitationTypes
<1>4. ASSUME NEW i \in ids, application[i].status = "pending" PROVE application[i].user \in us
  BY Zenon, <1>4 DEF Applicants, Undecided
<1>5. ASSUME NEW u \in us
      PROVE  \E i \in ids : application[i].user = u /\ application[i].status = "pending"
  BY Zenon DEF Applicants, Undecided
<1>6. DOMAIN person = Invitees /\ \A i \in DOMAIN application : application[i] \in ApplicationRows /\ ApplicationRow(i)
  BY Zenon, ApplicationType DEF InvitationInvariant, InvitationTypes
<1>7. x.decision = "approve" => ApproveApplications(x, ids)
  BY ZenonT(30), <1>1 DEF Review
<1>8. x.decision # "approve" => RejectApplications(x, ids)
  BY <1>1 DEF Review
<1>9. ApproveApplications(x, ids) =>
        /\ Decided(ids, "approved")
        /\ \/ KindOf(x.code) = "group" /\ UNCHANGED person
           \/ /\ KindOf(x.code) # "group" /\ \A u \in us : person[u] = "pending"
              /\ person' = [u \in Invitees |-> IF u \in us THEN "member" ELSE person[u]]
  BY Zenon DEF ApproveApplications, KindOf
<1>10. RejectApplications(x, ids) =>
        /\ Decided(ids, "deleted") /\ \A i \in ids : application[i].status = "pending"
        /\ \/ KindOf(x.code) # "member" /\ UNCHANGED person
           \/ /\ KindOf(x.code) = "member" /\ \A u \in us : person[u] = "pending"
              /\ person' = [u \in Invitees |-> IF u \in us THEN "deleted" ELSE person[u]]
  BY ZenonT(30) DEF RejectApplications, KindOf, Undecided
<1> HIDE DEF ids, us, x
\* what both decisions have in common
<1>11. ASSUME NEW status \in {"approved", "deleted"}, Decided(ids, status),
              DOMAIN person' = Invitees,
              \A u \in Invitees : u \notin us => person'[u] = person[u],
              \A u \in us : person'[u] # person[u] => person[u] = "pending" /\ person'[u] \in {"member", "deleted"},
              (\E u \in us : person'[u] = "pending") => KindOf(x.code) # "member",
              KindOf(x.code) = "group" => UNCHANGED person
       PROVE  InvitationInvariant'
  <2>1. /\ DOMAIN application' = DOMAIN application
        /\ \A i \in DOMAIN application :
                /\ application'[i] \in ApplicationRows /\ application'[i].code = application[i].code
                /\ application'[i].user = application[i].user
                /\ i \in ids => application'[i].status = status
                /\ i \notin ids => application'[i] = application[i]
    BY Zenon, <1>2, <1>11, Decisions
  <2>2. ASSUME NEW u \in Invitees, person[u] = "pending"
        PROVE  \E i \in DOMAIN application : OnlyApplication(u, i)
    BY Zenon, <2>2 DEF InvitationInvariant, PersonRow
  \* a pending account that is decided about has its one application among the decided
  <2>3. ASSUME NEW u \in us, person[u] = "pending", NEW j \in DOMAIN application, application[j].user = u,
               application[j].status # "deleted", u \in Invitees
        PROVE  j \in ids /\ KindOf(x.code) = "member"
    <3>1. PICK i \in ids : application[i].user = u /\ application[i].status = "pending"
      BY Zenon, <1>5
    <3>2. PICK k \in DOMAIN application : OnlyApplication(u, k)
      BY ZenonT(30), <2>2, <2>3
    <3>3. i = k /\ j = k
      BY <1>2, <2>3, <3>1, <3>2 DEF OnlyApplication
    <3> QED BY Zenon, <1>2, <3>1, <3>2, <3>3 DEF OnlyApplication
  <2>4. ASSUME NEW i \in DOMAIN application PROVE ApplicationRow(i)'
    <3>1. ApplicationRow(i) /\ application[i] \in ApplicationRows
      BY Zenon, <1>6
    <3>2. KindOf(application[i].code)' = KindOf(application[i].code)
      BY Zenon, <1>1, <2>1 DEF KindOf
    <3>3. CASE i \in ids
      BY Zenon, <2>1, <3>1, <3>2, <3>3 DEF ApplicationRow, KindOf
    <3>4. CASE i \notin ids
      <4>1. application'[i] = application[i]
        BY Zenon, <2>1, <3>4
      <4>2. ASSUME application[i].status = "pending" PROVE person'[application[i].user] = person[application[i].user]
        <5>1. application[i].user \in Invitees
          BY Zenon, <3>1, <4>2 DEF ApplicationRow, ApplicationRows
        <5>2. ASSUME application[i].user \in us, person'[application[i].user] # person[application[i].user] PROVE FALSE
          BY ZenonT(30), <1>11, <2>3, <3>4, <4>2, <5>1, <5>2
        <5> QED BY Zenon, <1>11, <5>1, <5>2
      <4> QED BY ZenonT(30), <3>1, <3>2, <4>1, <4>2 DEF ApplicationRow, ActiveUser, KindOf
    <3> QED BY <3>3, <3>4
  <2>5. \A u \in Invitees : /\ person'[u] = "none" <=> person[u] = "none"
                            /\ person'[u] = "pending" => person[u] = "pending"
    BY <1>11
  <2>6. ASSUME NEW u \in Invitees, NEW i \in DOMAIN application, person'[u] = "pending", application[i].user = u
        PROVE  application'[i] = application[i]
    <3>1. person[u] = "pending"
      BY ZenonT(30), <2>5, <2>6
    <3>2. CASE i \in ids
      <4>1. PICK k \in DOMAIN application : OnlyApplication(u, k)
        BY Zenon, <2>2, <3>1
      <4>2. i = k
        BY Zenon, <1>2, <2>6, <3>2, <4>1 DEF OnlyApplication
      <4>3. u \in us /\ KindOf(x.code) = "member"
        BY Zenon, <1>2, <1>4, <3>2, <4>1, <4>2 DEF OnlyApplication
      <4> QED BY <1>11, <2>6, <4>3
    <3>3. CASE i \notin ids
      BY Zenon, <2>1, <3>3
    <3> QED BY Zenon, <3>2, <3>3
  <2>7. \A i \in DOMAIN application : application[i].status = "deleted" => application'[i].status = "deleted"
    BY <1>2, <2>1
  <2>8. application' = [i \in DOMAIN application |-> application'[i]]
    BY Zenon, <1>11 DEF Decided
  <2> QED BY Zenon, <1>1, <1>3, <1>11, <2>1, <2>4, <2>5, <2>6, <2>7, <2>8, RowsDecided
<1>12. CASE x.decision = "approve"
  <2>1. Decided(ids, "approved")
    BY Zenon, <1>7, <1>9, <1>12
  <2>2. CASE KindOf(x.code) = "group" /\ UNCHANGED person
    BY Zenon, <1>6, <1>11, <2>1, <2>2
  <2>3. CASE /\ KindOf(x.code) # "group" /\ \A u \in us : person[u] = "pending"
             /\ person' = [u \in Invitees |-> IF u \in us THEN "member" ELSE person[u]]
    <3>1. us \subseteq Invitees
      BY <1>2, <1>5, <1>6 DEF ApplicationRow, ApplicationRows
    <3> QED BY ZenonT(30), <1>11, <2>1, <2>3, <3>1
  <2> QED BY Zenon, <1>7, <1>9, <1>12, <2>2, <2>3
<1>13. CASE x.decision # "approve"
  <2>1. Decided(ids, "deleted")
    BY Zenon, <1>8, <1>10, <1>13
  <2>2. CASE KindOf(x.code) # "member" /\ UNCHANGED person
    BY Zenon, <1>6, <1>11, <2>1, <2>2
  <2>3. CASE /\ KindOf(x.code) = "member" /\ \A u \in us : person[u] = "pending"
             /\ person' = [u \in Invitees |-> IF u \in us THEN "deleted" ELSE person[u]]
    <3>1. us \subseteq Invitees
      BY <1>2, <1>5, <1>6 DEF ApplicationRow, ApplicationRows
    <3> QED BY ZenonT(30), <1>11, <2>1, <2>3, <3>1
  <2> QED BY Zenon, <1>8, <1>10, <1>13, <2>2, <2>3
<1> QED BY Zenon, <1>12, <1>13

\* Accounts without history are deleted.
LEMMA DeleteStep ==
    ASSUME InvitationInvariant, NEW o \in DeleteOps, NEW us \in SUBSET Invitees, DeleteInformationUsers(o, us)
    PROVE  InvitationInvariant'
<1>1. /\ \A u \in us : person[u] = "member"
      /\ person' = [u \in Invitees |-> IF u \in us THEN "deleted" ELSE person[u]]
      /\ UNCHANGED <<invitation, registering, review>>
      /\ application' = [i \in DOMAIN application |->
                         IF application[i].user \notin us THEN application[i]
                         ELSE IF application[i].status = "pending"
                              THEN [application[i] EXCEPT !.status = "deleted"]
                              ELSE [application[i] EXCEPT !.user = Nobody]]
  BY DEF DeleteInformationUsers, informationUserBlockers
<1>2. \A i \in DOMAIN application : application[i] \in ApplicationRows /\ ApplicationRow(i)
  BY ApplicationType DEF InvitationInvariant
<1>3. ASSUME NEW i \in DOMAIN application
      PROVE  /\ application'[i] \in ApplicationRows /\ application'[i].code = application[i].code
             /\ application'[i].user \in {application[i].user, Nobody}
             /\ application[i].user \notin us => application'[i] = application[i]
             /\ application[i].user \in us => application'[i].status # "pending"
             /\ application[i].status = "deleted" => application'[i].status = "deleted"
  <2>1. application[i] \in ApplicationRows
    BY <1>2
  <2>2. application'[i] = IF application[i].user \notin us THEN application[i]
                         ELSE IF application[i].status = "pending"
                              THEN [application[i] EXCEPT !.status = "deleted"]
                              ELSE [application[i] EXCEPT !.user = Nobody]
    BY <1>1
  <2> QED BY <2>1, <2>2 DEF ApplicationRows
<1>4. ASSUME NEW i \in DOMAIN application PROVE ApplicationRow(i)'
  <2>1. ApplicationRow(i) /\ KindOf(application[i].code)' = KindOf(application[i].code)
    BY Zenon, <1>1, <1>2, <1>3 DEF KindOf
  <2>2. CASE application[i].user \in us
    BY Zenon, <1>3, <2>1, <2>2 DEF ApplicationRow, KindOf
  <2>3. CASE application[i].user \notin us
    <3>1. application'[i] = application[i]
      BY <1>3, <2>3
    <3>2. application[i].status = "pending" => application[i].user \in Invitees
      BY Zenon, <1>2, <2>1 DEF ApplicationRow, ApplicationRows
    <3> QED BY ZenonT(30), <1>1, <2>1, <2>3, <3>1, <3>2 DEF ApplicationRow, ActiveUser, KindOf
  <2> QED BY <2>2, <2>3
<1>5. \A u \in Invitees : /\ person'[u] = "none" <=> person[u] = "none"
                          /\ person'[u] = "pending" => person[u] = "pending" /\ u \notin us
  BY <1>1
<1>6. DOMAIN person' = Invitees /\ DOMAIN application' = DOMAIN application /\ DOMAIN review' = Reviews
  BY <1>1 DEF InvitationInvariant, InvitationTypes
<1> QED BY <1>1, <1>3, <1>4, <1>5, <1>6, RowsDecided

\* Every step keeps the invariant.
LEMMA InvitationStep ==
    ASSUME InvitationInvariant, [InvitationsNext]_<<now, inviteVars>>
    PROVE  InvitationInvariant'
<1>1. ASSUME UNCHANGED <<person, application, registering, review, invitation>> PROVE InvitationInvariant'
  BY Zenon, <1>1, QuietStep, SameInvitations
<1>2. ASSUME NEW u \in Invitees, GainHistory(u) \/ RemoveMember(u) \/ JoinElsewhere(u)
      PROVE  UNCHANGED <<person, application, registering, review, invitation>>
  BY Zenon, <1>2 DEF GainHistory, RemoveMember, JoinElsewhere
<1>3. ASSUME ArchiveGroupOfInvitations \/ InvitationsTick \/ UNCHANGED inviteVars
      PROVE  UNCHANGED <<person, application, registering, review, invitation>>
  BY Zenon, <1>3 DEF ArchiveGroupOfInvitations, InvitationsTick, inviteVars
<1>4. ASSUME InvitationsStep PROVE InvitationInvariant'
  BY Zenon, <1>1, <1>2, <1>3, <1>4, CreateStep, RevokeStep, JoinStep, RegistrationStep, ReadReviewStep, CompleteStep,
     DeleteStep, ReviewStep DEF InvitationsStep
<1> QED BY <1>1, <1>3, <1>4 DEF InvitationsNext

\* Nobody is stuck between accounts and applications, for any members,
\* invitations and reviews under way.
THEOREM PendingCanBeDecidedHolds == InvitationsSpec => []PendingCanBeDecided
<1>1. InvitationsInit => InvitationInvariant
  <2> SUFFICES ASSUME InvitationsInit PROVE InvitationInvariant
    OBVIOUS
  <2>1. application = <<>> /\ application \in Seq(ApplicationRows) /\ DOMAIN application = {}
    BY DEF InvitationsInit
  <2>2. \A u \in Invitees : PersonRow(u)
    BY Zenon, <2>1 DEF InvitationsInit, PersonRow
  <2>3. (\A c \in Codes : CodeRow(c)) /\ (\A r \in Reviews : ReviewRow(r))
    BY ZenonT(30) DEF InvitationsInit, CodeRow, ReviewRow
  <2> QED BY <2>1, <2>2, <2>3 DEF InvitationsInit, InvitationInvariant, InvitationTypes
<1>2. InvitationInvariant => PendingCanBeDecided
  <2> SUFFICES ASSUME InvitationInvariant PROVE PendingCanBeDecided
    BY Zenon
  <2>1. ASSUME NEW u \in Invitees, person[u] = "pending"
        PROVE  \E i \in ApplicationsOf(u) : /\ application[i].status = "pending"
                                            /\ invitation[application[i].code].kind = "member"
                                            /\ ApplicationsOf(u) = {i}
    <3>1. PICK i \in DOMAIN application : OnlyApplication(u, i)
      BY Zenon, <2>1 DEF InvitationInvariant, PersonRow
    <3>2. ApplicationsOf(u) = {i}
      BY <3>1 DEF OnlyApplication, ApplicationsOf, Stored
    <3> QED BY Zenon, <3>1, <3>2 DEF OnlyApplication, KindOf
  <2>2. ASSUME NEW i \in DOMAIN application, application[i].status = "pending"
        PROVE  LET u == application[i].user IN
               /\ u # Nobody
               /\ IF invitation[application[i].code].kind = "group" THEN ActiveUser(u) ELSE person[u] = "pending"
    BY Zenon, <2>2 DEF InvitationInvariant, ApplicationRow, KindOf
  <2> QED BY <2>1, <2>2 DEF PendingCanBeDecided
<1> QED BY <1>1, <1>2, InvitationStep, PTL DEF InvitationsSpec

=============================================================================
