---------------------------- MODULE TokenProofs -----------------------------
(***************************************************************************)
(* A transaction of the account centre that was cancelled leaves nothing   *)
(* behind; the ceremonies of the identity service and the browser handoff  *)
(* codes of a key are one-time tokens; the use of a key is always recorded *)
(* and a stale code delivers nothing.  For any capacity, lifetime, age of  *)
(* the instants and number of browsers, transactions, ceremonies, keys,    *)
(* tabs and calls.                                                         *)
(***************************************************************************)
EXTENDS OIDCFlows, Ceremonies, APIKeys, TLAPS

\* The provers to try, and their time, for a leaf that names none.
USE SMTT(30), ZenonT(30), SMTT(60)

-----------------------------------------------------------------------------
(* Transactions of the account centre                                      *)

Moment == Nat \cup {Never}
FlowKinds == {"login", "link", "reauth", "register", "confirm"}
FlowSteps == {"open", "exchange", "exchanged", "confirm", "confirming", "done"}
FlowRows ==
    [kind : FlowKinds, step : FlowSteps, consumed : BOOLEAN, cancelled : BOOLEAN, present : BOOLEAN,
     began : Int, expires : Int, retain : Int, session : Int, until : Int, proved : Moment,
     asked : Int, issued : Nat, issues : Int, verified : Moment]
LoginRows == [live : BOOLEAN, verified : Moment, by : Nat]

\* What transaction f did to session s: it issued the session, or it gave the
\* proof the session still has.
EffectOf(f, s, verified) ==
    \/ f.issued = s
    \/ f.issued = 0 /\ f.verified # Never /\ f.session = s /\ verified = f.verified

\* A transaction has effects only once it is done, and it is done only once its
\* authorization state is used up, so it has them once.
OneEffect(f) ==
    /\ f.issued # 0 \/ f.verified # Never => f.step = "done"
    /\ ~f.consumed => f.step \in {"open", "confirm"}

NothingLeft(f, i, ls) ==
    f.cancelled => /\ f.issued # 0 => ~ls[f.issued].live
                   /\ \A s \in DOMAIN ls : ls[s].live => ls[s].by # i

\* Transactions fs and sessions ls that fit: what a live session owes to a
\* transaction is what clearOIDCEffects will find.
Fit(fs, ls) ==
    /\ fs \in Seq(FlowRows) /\ ls \in Seq(LoginRows)
    /\ \A i \in DOMAIN fs : /\ fs[i].issued \in 0..Len(ls)
                            /\ OneEffect(fs[i])
                            /\ NothingLeft(fs[i], i, ls)
    /\ \A s \in DOMAIN ls : /\ ls[s].by \in 0..Len(fs)
                            /\ ls[s].live /\ ls[s].by # 0 => EffectOf(fs[ls[s].by], s, ls[s].verified)

\* What the browser may hold, and what may be on the wire: sessions that were
\* made.
Held(ls) == [oidc : Int, session : {0} \cup DOMAIN ls]
Sent(ls) == [oidc : Int, session : {0, Keep} \cup DOMAIN ls]

OIDCInvariant ==
    /\ now \in Nat /\ jar \in Held(login) /\ wire \subseteq Sent(login)
    /\ Fit(flow, login)

-----------------------------------------------------------------------------
\* A new last row leaves the others alone.
LEMMA AppendRow ==
    ASSUME NEW T, NEW rows \in Seq(T), NEW row \in T
    PROVE  /\ Append(rows, row) \in Seq(T) /\ Len(Append(rows, row)) = Len(rows) + 1
           /\ DOMAIN Append(rows, row) = DOMAIN rows \cup {Len(rows) + 1}
           /\ \A i \in DOMAIN rows : Append(rows, row)[i] = rows[i]
           /\ Append(rows, row)[Len(rows) + 1] = row
           /\ DOMAIN rows = 1..Len(rows) /\ Len(rows) \in Nat
OBVIOUS

\* So does a change of one row, or of every row.
LEMMA ReplaceRow ==
    ASSUME NEW T, NEW rows \in Seq(T), NEW i \in DOMAIN rows, NEW row \in T,
           NEW new, new = [rows EXCEPT ![i] = row]
    PROVE  /\ new \in Seq(T) /\ Len(new) = Len(rows) /\ DOMAIN new = DOMAIN rows
           /\ \A j \in DOMAIN rows : new[j] = IF j = i THEN row ELSE rows[j]
OBVIOUS

\* Rewriting the rows of a sequence one by one.
LEMMA MapRows ==
    ASSUME NEW T, NEW rows \in Seq(T), NEW new, DOMAIN new = DOMAIN rows,
           new = [j \in DOMAIN rows |-> new[j]], \A j \in DOMAIN rows : new[j] \in T
    PROVE  new \in Seq(T) /\ Len(new) = Len(rows)
<1>1. DOMAIN rows = 1..Len(rows) /\ Len(rows) \in Nat
  OBVIOUS
<1> QED BY <1>1

\* The changes the handlers make to a transaction or a session keep its type.
LEMMA LoginRowChanges ==
    ASSUME NEW l \in LoginRows
    PROVE  /\ [l EXCEPT !.live = FALSE] \in LoginRows
           /\ [l EXCEPT !.live = FALSE].live = FALSE
           /\ [l EXCEPT !.live = FALSE].by = l.by /\ [l EXCEPT !.live = FALSE].verified = l.verified
           /\ l.by \in Nat /\ l.verified \in Moment /\ l.live \in BOOLEAN
BY Zenon DEF LoginRows

\* The columns of a flow.
LEMMA FlowRowFields ==
    ASSUME NEW f \in FlowRows
    PROVE  /\ f.kind \in FlowKinds /\ f.step \in FlowSteps /\ f.consumed \in BOOLEAN
           /\ f.cancelled \in BOOLEAN /\ f.present \in BOOLEAN
           /\ f.retain \in Int /\ f.session \in Int /\ f.proved \in Moment
           /\ f.issued \in Nat /\ f.issues \in Int /\ f.verified \in Moment
BY DEF FlowRows

\* The row a flow begins with.
LEMMA NewRow ==
    ASSUME NEW kind \in FlowKinds, NEW gone \in BOOLEAN, NEW began \in Int, NEW end \in Int,
           NEW session \in Int, NEW until \in Int, NEW zero \in Nat, NEW never \in Moment
    PROVE  [kind |-> kind, step |-> "open", consumed |-> FALSE, cancelled |-> gone, present |-> TRUE,
            began |-> began, expires |-> end, retain |-> end,
            session |-> session, until |-> until, proved |-> never, asked |-> zero,
            issued |-> zero, issues |-> zero, verified |-> never] \in FlowRows
BY DEF FlowRows, FlowSteps

-----------------------------------------------------------------------------
(* What the handlers do to the two stores, one change at a time.           *)

\* Cancelling transactions and clearing their effects.
LEMMA FitCancel ==
    ASSUME Fit(flow, login), NEW ids \in SUBSET DOMAIN flow
    PROVE  Fit(Cancelled(flow, ids), clearOIDCEffects(login, ids))
<1> PICK fs : fs = Cancelled(flow, ids)
  OBVIOUS
<1> PICK ls : ls = clearOIDCEffects(login, ids)
  OBVIOUS
<1>1. flow \in Seq(FlowRows) /\ login \in Seq(LoginRows)
  BY DEF Fit
<1>2. /\ \A i \in DOMAIN flow : flow[i] \in FlowRows
      /\ \A s \in DOMAIN login : login[s] \in LoginRows
      /\ DOMAIN login = 1..Len(login) /\ DOMAIN flow = 1..Len(flow)
      /\ Len(login) \in Nat /\ Len(flow) \in Nat
  BY <1>1
<1>3. DOMAIN fs = DOMAIN flow /\ DOMAIN ls = DOMAIN login
  BY Zenon DEF Cancelled, clearOIDCEffects
<1>4. \A i \in DOMAIN flow :
         /\ fs[i] \in FlowRows /\ fs[i].cancelled = (flow[i].cancelled \/ i \in ids)
         /\ fs[i].issued = flow[i].issued /\ fs[i].verified = flow[i].verified
         /\ fs[i].session = flow[i].session /\ fs[i].step = flow[i].step
         /\ fs[i].consumed = flow[i].consumed
  <2> TAKE i \in DOMAIN flow
  <2> PICK b \in BOOLEAN : b = (flow[i].cancelled \/ i \in ids)
    BY Zenon
  <2>1. fs[i] = [flow[i] EXCEPT !.cancelled = b]
    BY DEF Cancelled
  <2>2. flow[i] \in FlowRows
    BY Zenon, <1>2
  <2>3. /\ fs[i] \in FlowRows /\ fs[i].cancelled = b
        /\ fs[i].issued = flow[i].issued /\ fs[i].verified = flow[i].verified
        /\ fs[i].session = flow[i].session /\ fs[i].step = flow[i].step
        /\ fs[i].consumed = flow[i].consumed
    BY Zenon, <2>1, <2>2 DEF FlowRows
  <2> QED BY Zenon, <2>3
<1>5. ASSUME NEW s \in DOMAIN login
      PROVE  /\ ls[s] \in LoginRows
             /\ ls[s].live => login[s].live /\ \A i \in ids : flow[i].issued # s
             /\ ls[s].by = 0 \/ (ls[s].by = login[s].by /\ ls[s].verified = login[s].verified)
             /\ ls[s].live /\ ls[s].by # 0 =>
                   \A i \in ids : ~EffectOf(flow[i], s, login[s].verified)
  <2> DEFINE proofs == \E i \in ids : flow[i].issued = 0 /\ flow[i].verified # Never
                               /\ flow[i].session = s /\ login[s].verified = flow[i].verified
  <2>0. login[s] \in LoginRows
    BY <1>2
  <2>1. CASE \E i \in ids : flow[i].issued = s
    <3>1. ls[s] = [login[s] EXCEPT !.live = FALSE]
      BY Zenon, <2>1 DEF clearOIDCEffects
    <3>2. /\ ls[s] \in LoginRows /\ ls[s].live = FALSE
          /\ ls[s].by = login[s].by /\ ls[s].verified = login[s].verified
      BY <2>0, <3>1, LoginRowChanges
    <3> QED BY Zenon, <3>2
  <2>2. CASE ~(\E i \in ids : flow[i].issued = s) /\ proofs
    <3>1. ls[s] = [login[s] EXCEPT !.verified = Never, !.by = 0]
      BY Zenon, <2>2 DEF clearOIDCEffects
    <3>2. Never \in Moment /\ 0 \in Nat
      BY DEF Moment
    <3>3. ls[s] \in LoginRows /\ ls[s].live = login[s].live /\ ls[s].by = 0
      BY Zenon, <2>0, <3>1, <3>2 DEF LoginRows
    <3> QED BY Zenon, <2>2, <3>3
  <2>3. CASE ~(\E i \in ids : flow[i].issued = s) /\ ~proofs
    <3>1. ls[s] = login[s]
      BY Zenon, <2>3 DEF clearOIDCEffects
    <3> QED BY Zenon, <2>0, <2>3, <3>1 DEF EffectOf
  <2> QED BY Zenon, <2>1, <2>2, <2>3
<1>6. fs \in Seq(FlowRows) /\ Len(fs) = Len(flow)
  <2>1. fs = [j \in DOMAIN flow |-> fs[j]]
    BY DEF Cancelled
  <2>2. \A j \in DOMAIN flow : fs[j] \in FlowRows
    BY Zenon, <1>4
  <2> QED BY <1>1, <1>3, <2>1, <2>2, MapRows
<1>7. ls \in Seq(LoginRows) /\ Len(ls) = Len(login)
  <2>1. ls = [j \in DOMAIN login |-> ls[j]]
    BY Zenon DEF clearOIDCEffects
  <2>2. \A j \in DOMAIN login : ls[j] \in LoginRows
    BY Zenon, <1>5
  <2> QED BY <1>1, <1>3, <2>1, <2>2, MapRows
<1>8. ASSUME NEW i \in DOMAIN fs
      PROVE  fs[i].issued \in 0..Len(ls) /\ OneEffect(fs[i]) /\ NothingLeft(fs[i], i, ls)
  <2>1. fs[i].issued \in 0..Len(ls) /\ OneEffect(fs[i])
    BY ZenonT(30), <1>3, <1>4, <1>7 DEF Fit, OneEffect
  <2>2. fs[i].issued # 0 => fs[i].issued \in DOMAIN login
    BY <1>2, <1>7, <2>1
  <2>3. NothingLeft(flow[i], i, login)
    BY Zenon, <1>3 DEF Fit
  <2>4. fs[i].cancelled /\ fs[i].issued # 0 => ~ls[fs[i].issued].live
    BY Zenon, <1>3, <1>4, <1>5, <2>2, <2>3 DEF NothingLeft
  <2>5. ASSUME fs[i].cancelled, NEW s \in DOMAIN login, ls[s].live, ls[s].by = i
        PROVE  FALSE
    <3>1. i # 0
      BY <1>2, <1>3
    <3>2. login[s].live /\ login[s].by = i /\ i \notin ids
      BY Zenon, <1>5, <2>5, <3>1 DEF Fit
    <3> QED BY Zenon, <1>3, <1>4, <2>3, <2>5, <3>2 DEF NothingLeft
  <2> QED BY Zenon, <1>3, <2>1, <2>4, <2>5 DEF NothingLeft
<1>9. ASSUME NEW s \in DOMAIN ls
      PROVE  /\ ls[s].by \in 0..Len(fs)
             /\ ls[s].live /\ ls[s].by # 0 => EffectOf(fs[ls[s].by], s, ls[s].verified)
  <2>1. login[s].by \in 0..Len(flow) /\ 0 \in 0..Len(fs)
    BY <1>2, <1>3, <1>6 DEF Fit
  <2>2. ls[s].by \in 0..Len(fs)
    BY Zenon, <1>3, <1>5, <1>6, <2>1
  <2>3. ASSUME ls[s].live, ls[s].by # 0
        PROVE  EffectOf(fs[ls[s].by], s, ls[s].verified)
    <3>1. ls[s].by \in DOMAIN flow
      BY <1>2, <1>6, <2>2, <2>3
    <3>2. login[s].live /\ ls[s].by = login[s].by /\ ls[s].verified = login[s].verified
      BY Zenon, <1>3, <1>5, <2>3
    <3>3. EffectOf(flow[ls[s].by], s, ls[s].verified)
      BY Zenon, <1>3, <2>3, <3>2 DEF Fit
    <3> QED BY Zenon, <1>4, <3>1, <3>3 DEF EffectOf
  <2> QED BY Zenon, <2>2, <2>3
<1> QED BY Zenon, <1>6, <1>7, <1>8, <1>9 DEF Fit

\* Moving a transaction on, forgetting it or cancelling it before it has had an
\* effect.
LEMMA FitFlows ==
    ASSUME NEW fs, NEW gs, NEW ls, Fit(fs, ls),
           gs \in Seq(FlowRows), Len(gs) = Len(fs),
           \A i \in DOMAIN fs :
              /\ gs[i].issued = fs[i].issued /\ gs[i].verified = fs[i].verified
              /\ gs[i].session = fs[i].session
              /\ OneEffect(gs[i])
              /\ gs[i].cancelled => fs[i].cancelled \/ (fs[i].issued = 0 /\ fs[i].verified = Never)
    PROVE  Fit(gs, ls)
<1>1. fs \in Seq(FlowRows) /\ ls \in Seq(LoginRows)
  BY DEF Fit
<1>2. DOMAIN fs = 1..Len(fs) /\ DOMAIN gs = DOMAIN fs /\ Len(fs) \in Nat /\ DOMAIN ls = 1..Len(ls) /\ Len(ls) \in Nat
  BY <1>1
<1>3. ASSUME NEW s \in DOMAIN ls, ls[s].live, ls[s].by # 0
      PROVE  EffectOf(gs[ls[s].by], s, ls[s].verified)
  <2>1. ls[s].by \in DOMAIN fs
    BY <1>2, <1>3 DEF Fit
  <2> QED BY ZenonT(30), <1>3, <2>1 DEF Fit, EffectOf
<1>4. ASSUME NEW i \in DOMAIN fs
      PROVE  NothingLeft(gs[i], i, ls)
  <2>1. CASE fs[i].cancelled
    BY Zenon, <2>1 DEF Fit, NothingLeft
  <2>2. CASE fs[i].issued = 0 /\ fs[i].verified = Never
    <3>1. ASSUME NEW s \in DOMAIN ls, ls[s].live, ls[s].by = i
          PROVE  FALSE
      <4>1. i # 0 /\ s # 0
        BY <1>2
      <4> QED BY Zenon, <2>2, <3>1, <4>1 DEF Fit, EffectOf
    <3> QED BY Zenon, <2>2, <3>1 DEF NothingLeft
  <2>3. CASE ~gs[i].cancelled
    BY Zenon, <2>3 DEF NothingLeft
  <2> QED BY Zenon, <2>1, <2>2, <2>3
<1> QED BY Zenon, <1>1, <1>2, <1>3, <1>4 DEF Fit

\* Ending sessions, and replacing a proof by one that no transaction gave.
LEMMA FitLogins ==
    ASSUME NEW fs, NEW ls, NEW ms, Fit(fs, ls),
           ms \in Seq(LoginRows), Len(ms) = Len(ls),
           \A s \in DOMAIN ls :
              /\ ms[s].live => ls[s].live
              /\ ms[s].by = 0 \/ (ms[s].by = ls[s].by /\ ms[s].verified = ls[s].verified)
    PROVE  Fit(fs, ms)
<1>1. fs \in Seq(FlowRows) /\ ls \in Seq(LoginRows)
  BY DEF Fit
<1>2. /\ DOMAIN ls = 1..Len(ls) /\ DOMAIN ms = DOMAIN ls /\ Len(ls) \in Nat
      /\ DOMAIN fs = 1..Len(fs) /\ Len(fs) \in Nat
  BY <1>1
<1>3. ASSUME NEW s \in DOMAIN ls
      PROVE  /\ ms[s].by \in 0..Len(fs)
             /\ ms[s].live /\ ms[s].by # 0 => EffectOf(fs[ms[s].by], s, ms[s].verified)
  <2>1. 0 \in 0..Len(fs) /\ ls[s].by \in 0..Len(fs)
    BY <1>2 DEF Fit
  <2> QED BY Zenon, <2>1 DEF Fit
<1>4. ASSUME NEW i \in DOMAIN fs
      PROVE  NothingLeft(fs[i], i, ms)
  <2>1. fs[i].issued \in 0..Len(ls) /\ NothingLeft(fs[i], i, ls)
    BY Zenon DEF Fit
  <2>2. i # 0 /\ (fs[i].issued # 0 => fs[i].issued \in DOMAIN ls)
    BY <1>2, <2>1
  <2> QED BY Zenon, <1>2, <2>1, <2>2 DEF NothingLeft
<1> QED BY Zenon, <1>1, <1>2, <1>3, <1>4 DEF Fit

\* A new session that no transaction made.
LEMMA FitAppendLogin ==
    ASSUME NEW fs, NEW ls, Fit(fs, ls), NEW l \in LoginRows, l.by = 0
    PROVE  Fit(fs, Append(ls, l))
<1> PICK ms : ms = Append(ls, l)
  BY Zenon
<1>1. fs \in Seq(FlowRows) /\ ls \in Seq(LoginRows)
  BY DEF Fit
<1>2. /\ ms \in Seq(LoginRows) /\ Len(ms) = Len(ls) + 1
      /\ DOMAIN ms = DOMAIN ls \cup {Len(ls) + 1}
      /\ \A s \in DOMAIN ls : ms[s] = ls[s]
      /\ ms[Len(ls) + 1] = l
      /\ DOMAIN ls = 1..Len(ls) /\ Len(ls) \in Nat
  BY <1>1, AppendRow
<1>3. DOMAIN fs = 1..Len(fs) /\ Len(fs) \in Nat
  BY <1>1
<1>4. ASSUME NEW s \in DOMAIN ms
      PROVE  /\ ms[s].by \in 0..Len(fs)
             /\ ms[s].live /\ ms[s].by # 0 => EffectOf(fs[ms[s].by], s, ms[s].verified)
  <2>1. 0 \in 0..Len(fs)
    BY <1>3
  <2> QED BY Zenon, <1>2, <2>1 DEF Fit
<1>5. ASSUME NEW i \in DOMAIN fs
      PROVE  fs[i].issued \in 0..Len(ms) /\ NothingLeft(fs[i], i, ms)
  <2>1. fs[i].issued \in 0..Len(ls) /\ NothingLeft(fs[i], i, ls)
    BY Zenon DEF Fit
  <2>2. i # 0 /\ (fs[i].issued # 0 => fs[i].issued \in DOMAIN ls) /\ fs[i].issued \in 0..Len(ms)
    BY <1>2, <1>3, <2>1
  <2> QED BY Zenon, <1>2, <2>1, <2>2 DEF NothingLeft
<1> QED BY Zenon, <1>1, <1>2, <1>4, <1>5 DEF Fit

\* A new transaction.
LEMMA FitAppendFlow ==
    ASSUME NEW fs, NEW ls, Fit(fs, ls), NEW f \in FlowRows,
           f.issued = 0, f.verified = Never, f.step = "open"
    PROVE  Fit(Append(fs, f), ls)
<1> PICK gs : gs = Append(fs, f)
  BY Zenon
<1>1. fs \in Seq(FlowRows) /\ ls \in Seq(LoginRows)
  BY DEF Fit
<1>2. /\ gs \in Seq(FlowRows) /\ Len(gs) = Len(fs) + 1
      /\ DOMAIN gs = DOMAIN fs \cup {Len(fs) + 1}
      /\ \A i \in DOMAIN fs : gs[i] = fs[i]
      /\ gs[Len(fs) + 1] = f
      /\ DOMAIN fs = 1..Len(fs) /\ Len(fs) \in Nat
  BY <1>1, AppendRow
<1>3. DOMAIN ls = 1..Len(ls) /\ Len(ls) \in Nat
  BY <1>1
<1>4. ASSUME NEW s \in DOMAIN ls
      PROVE  /\ ls[s].by \in 0..Len(gs) /\ ls[s].by # Len(fs) + 1
             /\ ls[s].live /\ ls[s].by # 0 => EffectOf(gs[ls[s].by], s, ls[s].verified)
  <2>1. ls[s].by \in 0..Len(fs)
    BY Zenon DEF Fit
  <2>2. ls[s].by \in 0..Len(gs) /\ ls[s].by # Len(fs) + 1 /\ (ls[s].by # 0 => ls[s].by \in DOMAIN fs)
    BY <1>2, <2>1
  <2> QED BY Zenon, <1>2, <2>2 DEF Fit
<1>5. ASSUME NEW i \in DOMAIN gs
      PROVE  gs[i].issued \in 0..Len(ls) /\ OneEffect(gs[i]) /\ NothingLeft(gs[i], i, ls)
  <2>1. CASE i \in DOMAIN fs
    BY Zenon, <1>2, <2>1 DEF Fit
  <2>2. CASE i = Len(fs) + 1
    <3>1. gs[i] = f /\ 0 \in 0..Len(ls)
      BY <1>2, <1>3, <2>2
    <3> QED BY Zenon, <1>4, <2>2, <3>1 DEF OneEffect, NothingLeft
  <2> QED BY Zenon, <1>2, <2>1, <2>2
<1> QED BY Zenon, <1>1, <1>2, <1>4, <1>5 DEF Fit

\* A transaction under way has left no effect.
LEMMA NoEffectYet ==
    ASSUME NEW fs, NEW ls, Fit(fs, ls), NEW i \in DOMAIN fs, fs[i].step \in {"exchanged", "confirming"}
    PROVE  /\ fs[i].consumed /\ fs[i].issued = 0 /\ fs[i].verified = Never
           /\ \A s \in DOMAIN ls : ls[s].live => ls[s].by # i
<1>1. fs \in Seq(FlowRows) /\ ls \in Seq(LoginRows)
  BY DEF Fit
<1>2. i # 0 /\ \A s \in DOMAIN ls : s # 0
  BY <1>1
<1>3. OneEffect(fs[i])
  BY Zenon DEF Fit
<1>4. fs[i].consumed /\ fs[i].issued = 0 /\ fs[i].verified = Never
  BY <1>3 DEF OneEffect
<1>5. ASSUME NEW s \in DOMAIN ls, ls[s].live, ls[s].by = i
      PROVE  FALSE
  <2>1. EffectOf(fs[i], s, ls[s].verified)
    BY Zenon, <1>2, <1>5 DEF Fit
  <2> QED BY <1>2, <1>4, <2>1 DEF EffectOf
<1> QED BY Zenon, <1>4, <1>5

\* finishOIDCLogin: a session by the transaction, ended at once if it does not
\* reach the browser.
LEMMA FitIssue ==
    ASSUME NEW fs, NEW ls, Fit(fs, ls), NEW i \in DOMAIN fs, fs[i].step \in {"exchanged", "confirming"},
           NEW g \in FlowRows, NEW l \in LoginRows,
           g.issued = Len(ls) + 1, g.verified = Never, g.step = "done", g.consumed,
           g.cancelled => ~l.live, l.by = i,
           NEW gs, gs = [fs EXCEPT ![i] = g], NEW ms, ms = Append(ls, l)
    PROVE  Fit(gs, ms)
<1>1. fs \in Seq(FlowRows) /\ ls \in Seq(LoginRows)
  BY DEF Fit
<1>2. /\ ms \in Seq(LoginRows) /\ Len(ms) = Len(ls) + 1
      /\ DOMAIN ms = DOMAIN ls \cup {Len(ls) + 1}
      /\ \A s \in DOMAIN ls : ms[s] = ls[s]
      /\ ms[Len(ls) + 1] = l
      /\ DOMAIN ls = 1..Len(ls) /\ Len(ls) \in Nat
  BY <1>1, AppendRow
<1>3. /\ gs \in Seq(FlowRows) /\ Len(gs) = Len(fs) /\ DOMAIN gs = DOMAIN fs
      /\ \A j \in DOMAIN fs : gs[j] = IF j = i THEN g ELSE fs[j]
  BY <1>1, ReplaceRow
<1>4. DOMAIN fs = 1..Len(fs) /\ Len(fs) \in Nat
  BY <1>1
<1>5. \A s \in DOMAIN ls : ls[s].live => ls[s].by # i
  BY NoEffectYet
<1>6. ASSUME NEW s \in DOMAIN ms
      PROVE  /\ ms[s].by \in 0..Len(gs)
             /\ ms[s].live /\ ms[s].by # 0 => EffectOf(gs[ms[s].by], s, ms[s].verified)
  <2>1. CASE s = Len(ls) + 1
    <3>1. ms[s] = l /\ gs[i] = g /\ i \in 0..Len(gs)
      BY <1>2, <1>3, <1>4, <2>1
    <3> QED BY Zenon, <2>1, <3>1 DEF EffectOf
  <2>2. CASE s \in DOMAIN ls
    <3>1. ls[s].by \in 0..Len(fs)
      BY Zenon, <2>2 DEF Fit
    <3>2. ls[s].by # 0 => ls[s].by \in DOMAIN fs
      BY <1>4, <3>1
    <3> QED BY ZenonT(30), <1>2, <1>3, <1>5, <2>2, <3>1, <3>2 DEF Fit
  <2> QED BY Zenon, <1>2, <2>1, <2>2
<1>7. ASSUME NEW j \in DOMAIN fs
      PROVE  gs[j].issued \in 0..Len(ms) /\ OneEffect(gs[j]) /\ NothingLeft(gs[j], j, ms)
  <2>1. CASE j = i
    <3>1. gs[j] = g /\ g.issued \in 0..Len(ms) /\ OneEffect(g)
      BY <1>2, <1>3, <2>1 DEF OneEffect
    <3>2. ASSUME g.cancelled, NEW s \in DOMAIN ms, ms[s].live, ms[s].by = i
          PROVE  FALSE
      BY Zenon, <1>2, <1>5, <3>2
    <3> QED BY Zenon, <1>2, <2>1, <3>1, <3>2 DEF NothingLeft
  <2>2. CASE j # i
    <3>1. gs[j] = fs[j] /\ fs[j].issued \in 0..Len(ls) /\ NothingLeft(fs[j], j, ls) /\ OneEffect(fs[j])
      BY Zenon, <1>3, <2>2 DEF Fit
    <3>2. (fs[j].issued # 0 => fs[j].issued \in DOMAIN ls) /\ fs[j].issued \in 0..Len(ms)
      BY <1>2, <3>1
    <3>3. ASSUME fs[j].cancelled, NEW s \in DOMAIN ms, ms[s].live, ms[s].by = j
          PROVE  FALSE
      <4>1. s \in DOMAIN ls
        BY Zenon, <1>2, <2>2, <3>3
      <4> QED BY Zenon, <1>2, <3>1, <3>3, <4>1 DEF NothingLeft
    <3>4. fs[j].cancelled /\ fs[j].issued # 0 => ~ms[fs[j].issued].live
      BY Zenon, <1>2, <3>1, <3>2 DEF NothingLeft
    <3> QED BY Zenon, <3>1, <3>2, <3>3, <3>4 DEF NothingLeft
  <2> QED BY Zenon, <2>1, <2>2
<1> QED BY Zenon, <1>2, <1>3, <1>6, <1>7 DEF Fit

\* completeOIDCReauthentication: a proof by the transaction for its session,
\* withdrawn at once if the answer does not reach the browser.
LEMMA FitVerify ==
    ASSUME NEW fs, NEW ls, Fit(fs, ls), NEW i \in DOMAIN fs, fs[i].step \in {"exchanged", "confirming"},
           NEW g \in FlowRows, NEW ms \in Seq(LoginRows), Len(ms) = Len(ls),
           g.issued = 0, g.session = fs[i].session, g.step = "done", g.consumed,
           \A s \in DOMAIN ls :
              \/ ms[s] = ls[s]
              \/ ms[s].live = ls[s].live /\ ms[s].by = 0
              \/ ms[s].live = ls[s].live /\ ms[s].by = i /\ ~g.cancelled
                   /\ ms[s].verified = g.verified /\ s = g.session /\ g.verified # Never,
           NEW gs, gs = [fs EXCEPT ![i] = g]
    PROVE  Fit(gs, ms)
<1>1. fs \in Seq(FlowRows) /\ ls \in Seq(LoginRows)
  BY DEF Fit
<1>2. /\ DOMAIN ls = 1..Len(ls) /\ DOMAIN ms = DOMAIN ls /\ Len(ls) \in Nat
      /\ DOMAIN fs = 1..Len(fs) /\ Len(fs) \in Nat
  BY <1>1
<1>3. /\ gs \in Seq(FlowRows) /\ Len(gs) = Len(fs) /\ DOMAIN gs = DOMAIN fs
      /\ \A j \in DOMAIN fs : gs[j] = IF j = i THEN g ELSE fs[j]
  BY <1>1, ReplaceRow
<1>4. \A s \in DOMAIN ls : ls[s].live => ls[s].by # i
  BY NoEffectYet
<1>5. ASSUME NEW s \in DOMAIN ls
      PROVE  /\ ms[s].by \in 0..Len(gs)
             /\ ms[s].live /\ ms[s].by # 0 => EffectOf(gs[ms[s].by], s, ms[s].verified)
  <2>1. ls[s].by \in 0..Len(fs) /\ 0 \in 0..Len(gs) /\ i \in 0..Len(gs)
    BY <1>2, <1>3 DEF Fit
  <2>2. ls[s].by # 0 => ls[s].by \in DOMAIN fs
    BY <1>2, <2>1
  <2>3. CASE ms[s] = ls[s]
    BY Zenon, <1>3, <1>4, <2>1, <2>2, <2>3 DEF Fit
  <2>4. CASE ms[s].by = 0
    BY Zenon, <2>1, <2>4
  <2>5. CASE ms[s].by = i /\ ms[s].verified = g.verified /\ s = g.session /\ g.verified # Never
    BY Zenon, <1>3, <2>1, <2>5 DEF EffectOf
  <2> QED BY Zenon, <2>3, <2>4, <2>5
<1>6. ASSUME NEW j \in DOMAIN fs
      PROVE  gs[j].issued \in 0..Len(ms) /\ OneEffect(gs[j]) /\ NothingLeft(gs[j], j, ms)
  <2>1. CASE j = i
    <3>1. gs[j] = g /\ g.issued \in 0..Len(ms) /\ OneEffect(g) /\ j # 0
      BY <1>2, <1>3, <2>1 DEF OneEffect
    <3>2. ASSUME g.cancelled, NEW s \in DOMAIN ms, ms[s].live, ms[s].by = i
          PROVE  FALSE
      BY Zenon, <1>2, <1>4, <2>1, <3>1, <3>2
    <3> QED BY Zenon, <1>2, <2>1, <3>1, <3>2 DEF NothingLeft
  <2>2. CASE j # i
    <3>1. gs[j] = fs[j] /\ fs[j].issued \in 0..Len(ls) /\ NothingLeft(fs[j], j, ls) /\ OneEffect(fs[j])
      BY Zenon, <1>3, <2>2 DEF Fit
    <3>2. j # 0 /\ (fs[j].issued # 0 => fs[j].issued \in DOMAIN ls)
      BY <1>2, <3>1
    <3> QED BY Zenon, <1>2, <2>2, <3>1, <3>2 DEF NothingLeft
  <2> QED BY Zenon, <2>1, <2>2
<1> QED BY Zenon, <1>2, <1>3, <1>5, <1>6 DEF Fit

\* A step of a transaction that has had no effect.
LEMMA FitMove ==
    ASSUME Fit(flow, login), NEW i \in DOMAIN flow, ~flow[i].consumed \/ flow[i].step # "done",
           NEW g \in FlowRows,
           g.issued = flow[i].issued, g.verified = flow[i].verified, g.session = flow[i].session,
           g.consumed \/ g.step \in {"open", "confirm"}
    PROVE  Fit([flow EXCEPT ![i] = g], login)
<1> PICK gs : gs = [flow EXCEPT ![i] = g]
  BY Zenon
<1>1. flow \in Seq(FlowRows)
  BY DEF Fit
<1>2. /\ gs \in Seq(FlowRows) /\ Len(gs) = Len(flow)
      /\ \A j \in DOMAIN flow : gs[j] = IF j = i THEN g ELSE flow[j]
  BY <1>1, ReplaceRow
<1>3. OneEffect(flow[i])
  BY Zenon DEF Fit
<1>4. flow[i].issued = 0 /\ flow[i].verified = Never
  BY <1>3 DEF OneEffect
<1>5. OneEffect(g)
  BY <1>4 DEF OneEffect
<1>6. ASSUME NEW j \in DOMAIN flow
      PROVE  /\ gs[j].issued = flow[j].issued /\ gs[j].verified = flow[j].verified
             /\ gs[j].session = flow[j].session /\ OneEffect(gs[j])
             /\ gs[j].cancelled => flow[j].cancelled \/ (flow[j].issued = 0 /\ flow[j].verified = Never)
  <2>1. CASE j = i
    BY Zenon, <1>2, <1>4, <1>5, <2>1
  <2>2. CASE j # i
    BY Zenon, <1>2, <2>2 DEF Fit
  <2> QED BY Zenon, <2>1, <2>2
<1> QED BY Zenon, <1>2, <1>6, FitFlows

\* unlinkIdentity: no session made through the identity and no proof is left.
LEMMA FitUnlink ==
    ASSUME Fit(flow, login), unlinkIdentity
    PROVE  Fit(flow', login')
<1> PICK never \in Moment : never = Never
  BY Zenon DEF Moment
<1> PICK none \in Nat : none = 0
  OBVIOUS
<1>1. discardBrowser \in SUBSET DOMAIN flow /\ flow' = Cancelled(flow, discardBrowser)
  BY Zenon DEF discardBrowser, unlinkIdentity
<1>2. Fit(flow', clearOIDCEffects(login, discardBrowser))
  BY Zenon, <1>1, FitCancel
<1> PICK ls : ls = clearOIDCEffects(login, discardBrowser)
  OBVIOUS
<1>3. login \in Seq(LoginRows) /\ ls \in Seq(LoginRows)
  BY ZenonT(30), <1>2 DEF Fit
<1>4. DOMAIN ls = DOMAIN login /\ DOMAIN login' = DOMAIN login
  BY Zenon DEF clearOIDCEffects, unlinkIdentity
<1>5. ASSUME NEW s \in DOMAIN login
      PROVE  login'[s] \in LoginRows /\ login'[s].by = 0 /\ (login'[s].live => ls[s].live)
  <2> PICK on \in BOOLEAN : on = (login[s].live /\ ~\E i \in DOMAIN flow : flow[i].issued = s)
    BY Zenon
  <2>1. login'[s] = [login[s] EXCEPT !.live = on, !.verified = never, !.by = none]
    BY Zenon DEF unlinkIdentity
  <2>2. login[s] \in LoginRows
    BY <1>3
  <2>3. login'[s] \in LoginRows /\ login'[s].by = 0 /\ login'[s].live = on
    BY Zenon, <2>1, <2>2 DEF LoginRows
  <2>4. ASSUME on PROVE ls[s].live
    <3>1. ~\E i \in discardBrowser : flow[i].issued = s
      BY Zenon, <1>1, <2>4
    <3>2. ls[s] = login[s] \/ ls[s] = [login[s] EXCEPT !.verified = Never, !.by = 0]
      BY Zenon, <3>1 DEF clearOIDCEffects
    <3>3. ls[s].live = login[s].live
      BY Zenon, <2>2, <3>2 DEF LoginRows
    <3> QED BY Zenon, <2>4, <3>3
  <2> QED BY Zenon, <2>3, <2>4
<1>6. login' \in Seq(LoginRows) /\ Len(login') = Len(login)
  <2>1. login' = [j \in DOMAIN login |-> login'[j]]
    BY Zenon DEF unlinkIdentity
  <2>2. \A j \in DOMAIN login : login'[j] \in LoginRows
    BY Zenon, <1>5
  <2> QED BY <1>3, <1>4, <2>1, <2>2, MapRows
<1>7. Len(ls) = Len(login)
  BY <1>3, <1>4
<1> QED BY Zenon, <1>2, <1>4, <1>5, <1>6, <1>7, FitLogins

-----------------------------------------------------------------------------
(* The handlers.                                                           *)

\* The handlers that work on one flow.
LEMMA StepsOfFlow ==
    ASSUME OIDCInvariant, NEW i \in DOMAIN flow,
           completeOIDC(i) \/ Exchange(i) \/ takeConfirmation(i) \/ cancelConfirmation(i)
    PROVE  Fit(flow', login')
<1>0. Fit(flow, login) /\ flow[i] \in FlowRows /\ now \in Nat /\ login \in Seq(LoginRows)
  BY DEF OIDCInvariant, Fit
<1>1. jar.session \in Int /\ now \in Moment /\ OneEffect(flow[i])
  BY <1>0 DEF OIDCInvariant, Held, Moment, Fit
<1>2. CASE completeOIDC(i) \/ takeConfirmation(i)
  <2>1. login' = login /\ ~flow[i].consumed
    BY Zenon, <1>2 DEF completeOIDC, takeConfirmation, take
  <2>2. PICK step \in {"exchange", "done", "confirming"} :
           flow' = [flow EXCEPT ![i].consumed = TRUE, ![i].asked = jar.session, ![i].step = step]
    BY Zenon, <1>2 DEF completeOIDC, takeConfirmation
  <2> PICK g : g = [flow[i] EXCEPT !.consumed = TRUE, !.asked = jar.session, !.step = step]
    OBVIOUS
  <2>3. flow' = [flow EXCEPT ![i] = g]
    BY Zenon, <2>2
  <2>4. /\ g \in FlowRows /\ g.issued = flow[i].issued /\ g.verified = flow[i].verified
        /\ g.session = flow[i].session /\ g.consumed = TRUE
    BY Zenon, <1>0, <1>1 DEF FlowRows, FlowSteps
  <2> QED BY Zenon, <1>0, <2>1, <2>3, <2>4, FitMove
<1>3. CASE Exchange(i)
  <2>1. login' = login /\ flow[i].step = "exchange" /\ flow[i].consumed
    BY <1>1, <1>3 DEF Exchange, OneEffect
  <2>2. CASE flow' = [flow EXCEPT ![i].step = "exchanged", ![i].proved = now]
    <3> PICK g : g = [flow[i] EXCEPT !.step = "exchanged", !.proved = now]
      OBVIOUS
    <3>3. flow' = [flow EXCEPT ![i] = g]
      BY Zenon, <2>2
    <3>4. /\ g \in FlowRows /\ g.issued = flow[i].issued /\ g.verified = flow[i].verified
          /\ g.session = flow[i].session /\ g.consumed = flow[i].consumed
      BY Zenon, <1>0, <1>1 DEF FlowRows, FlowSteps
    <3> QED BY Zenon, <1>0, <2>1, <3>3, <3>4, FitMove
  <2>3. CASE flow' = [flow EXCEPT ![i].step = "done", ![i].asked = 0]
    <3> PICK none \in Int : none = 0
      OBVIOUS
    <3> PICK g : g = [flow[i] EXCEPT !.step = "done", !.asked = none]
      OBVIOUS
    <3>3. flow' = [flow EXCEPT ![i] = g]
      BY Zenon, <2>3
    <3>4. /\ g \in FlowRows /\ g.issued = flow[i].issued /\ g.verified = flow[i].verified
          /\ g.session = flow[i].session /\ g.consumed = flow[i].consumed
      BY Zenon, <1>0 DEF FlowRows, FlowSteps
    <3> QED BY Zenon, <1>0, <2>1, <3>3, <3>4, FitMove
  <2> QED BY Zenon, <1>3, <2>2, <2>3 DEF Exchange
<1>4. CASE cancelConfirmation(i)
  <2>1. login' = login /\ flow[i].step = "confirming" /\ flow[i].consumed
    BY <1>1, <1>4 DEF cancelConfirmation, OneEffect
  <2> PICK g : g = [flow[i] EXCEPT !.step = "done", !.cancelled = TRUE]
    OBVIOUS
  <2>3. flow' = [flow EXCEPT ![i] = g]
    BY Zenon, <1>4 DEF cancelConfirmation
  <2>4. /\ g \in FlowRows /\ g.issued = flow[i].issued /\ g.verified = flow[i].verified
        /\ g.session = flow[i].session /\ g.consumed = flow[i].consumed
    BY Zenon, <1>0 DEF FlowRows, FlowSteps
  <2> QED BY Zenon, <1>0, <2>1, <2>3, <2>4, FitMove
<1> QED BY Zenon, <1>2, <1>3, <1>4

\* An answer that is no longer wanted, and one that has to be confirmed.
LEMMA StepsBack ==
    ASSUME OIDCInvariant, NEW i \in DOMAIN flow, flow[i].step \in {"exchanged", "confirming"},
           login' = login,
           \/ Reject(i)
           \/ flow' = [flow EXCEPT ![i].step = "done"]
           \/ \E k \in FlowKinds : flow' = [flow EXCEPT ![i] = [confirmation(flow[i]) EXCEPT !.kind = k]]
    PROVE  Fit(flow', login')
<1>0. Fit(flow, login) /\ flow[i] \in FlowRows
  BY DEF OIDCInvariant, Fit
<1>1. OneEffect(flow[i])
  BY Zenon, <1>0 DEF Fit
<1>2. flow[i].consumed /\ flow[i].step # "done"
  BY <1>1 DEF OneEffect
<1> PICK none \in Int : none = 0
  OBVIOUS
<1> PICK never \in Moment : never = Never
  BY DEF Moment
<1>3. CASE Reject(i)
  <2> PICK g : g = [flow[i] EXCEPT !.step = "done", !.proved = never, !.asked = none]
    OBVIOUS
  <2>1. flow' = [flow EXCEPT ![i] = g]
    BY Zenon, <1>3 DEF Reject
  <2>2. /\ g \in FlowRows /\ g.issued = flow[i].issued /\ g.verified = flow[i].verified
        /\ g.session = flow[i].session /\ g.consumed = flow[i].consumed
    BY Zenon, <1>0 DEF FlowRows, FlowSteps
  <2> QED BY Zenon, <1>0, <1>2, <2>1, <2>2, FitMove
<1>4. CASE flow' = [flow EXCEPT ![i].step = "done"]
  <2> PICK g : g = [flow[i] EXCEPT !.step = "done"]
    BY Zenon
  <2>1. flow' = [flow EXCEPT ![i] = g]
    BY <1>4
  <2>2. /\ g \in FlowRows /\ g.issued = flow[i].issued /\ g.verified = flow[i].verified
        /\ g.session = flow[i].session /\ g.consumed = flow[i].consumed
    BY <1>0 DEF FlowRows, FlowSteps
  <2> QED BY Zenon, <1>0, <1>2, <2>1, <2>2, FitMove
<1>5. ASSUME NEW k \in FlowKinds, flow' = [flow EXCEPT ![i] = [confirmation(flow[i]) EXCEPT !.kind = k]]
      PROVE  Fit(flow', login')
  <2> PICK c : c = [flow[i] EXCEPT !.consumed = FALSE, !.step = "confirm", !.asked = none]
    OBVIOUS
  <2>1. c = confirmation(flow[i])
    BY Zenon DEF confirmation
  <2>2. /\ c \in FlowRows /\ c.issued = flow[i].issued /\ c.verified = flow[i].verified
        /\ c.session = flow[i].session /\ c.step = "confirm"
    BY Zenon, <1>0 DEF FlowRows, FlowSteps
  <2> PICK g : g = [c EXCEPT !.kind = k]
    OBVIOUS
  <2>3. flow' = [flow EXCEPT ![i] = g]
    BY Zenon, <1>5, <2>1
  <2>4. /\ g \in FlowRows /\ g.issued = c.issued /\ g.verified = c.verified
        /\ g.session = c.session /\ g.step = c.step
    BY ZenonT(30), <2>2 DEF FlowRows
  <2> QED BY ZenonT(30), <1>0, <1>2, <2>2, <2>3, <2>4, FitMove
<1> QED BY Zenon, <1>3, <1>4, <1>5

\* A transaction that signs in.
LEMMA StepsIn ==
    ASSUME OIDCInvariant, NEW i \in DOMAIN flow, flow[i].step \in {"exchanged", "confirming"},
           NEW arrived \in BOOLEAN, finishOIDCLogin(i, arrived)
    PROVE  Fit(flow', login')
<1>0. Fit(flow, login) /\ flow[i] \in FlowRows /\ login \in Seq(LoginRows) /\ flow \in Seq(FlowRows)
  BY DEF OIDCInvariant, Fit
<1>1. flow[i].consumed /\ flow[i].issued = 0 /\ flow[i].verified = Never
  BY <1>0, NoEffectYet
<1>2. i \in Nat /\ Len(login) + 1 \in Nat /\ flow[i].proved \in Moment /\ flow[i].issues \in Int
  BY <1>0, FlowRowFields
<1>3. \E g \in FlowRows, l \in LoginRows :
         /\ g.issued = Len(login) + 1 /\ g.verified = Never /\ g.step = "done" /\ g.consumed
         /\ g.cancelled => ~l.live
         /\ l.by = i
         /\ flow' = [flow EXCEPT ![i] = g] /\ login' = Append(login, l)
  <2> PICK none \in Int : none = 0
    OBVIOUS
  <2> PICK gone \in BOOLEAN : gone = ~arrived
    BY Zenon
  <2> PICK new \in Nat : new = Len(login) + 1
    BY <1>2
  <2> PICK issues \in Int : issues = flow[i].issues + 1
    BY <1>2
  <2> PICK g : g = [flow[i] EXCEPT !.issued = new, !.issues = issues, !.step = "done", !.cancelled = gone,
                                   !.asked = none]
    OBVIOUS
  <2> PICK l : l = [NewLogin(flow[i].proved, i) EXCEPT !.live = arrived]
    BY Zenon
  <2>1. flow' = [flow EXCEPT ![i] = g] /\ login' = Append(login, l)
    BY Zenon DEF finishOIDCLogin
  <2>2. /\ g \in FlowRows /\ g.issued = new /\ g.verified = flow[i].verified
        /\ g.step = "done" /\ g.consumed = flow[i].consumed /\ g.cancelled = gone
    BY ZenonT(30), <1>0 DEF FlowRows, FlowSteps
  <2>3. l \in LoginRows /\ l.live = arrived /\ l.by = i
    BY <1>2 DEF NewLogin, LoginRows
  <2>4. g.cancelled => ~l.live
    BY Zenon, <2>2, <2>3
  <2> QED BY Zenon, <1>1, <2>1, <2>2, <2>3, <2>4
<1>4. PICK g \in FlowRows, l \in LoginRows :
         /\ g.issued = Len(login) + 1 /\ g.verified = Never /\ g.step = "done" /\ g.consumed
         /\ g.cancelled => ~l.live
         /\ l.by = i
         /\ flow' = [flow EXCEPT ![i] = g] /\ login' = Append(login, l)
  BY Zenon, <1>3
<1> QED BY Zenon, <1>0, <1>4, FitIssue

\* A transaction that verifies its session again.
LEMMA StepsVerify ==
    ASSUME OIDCInvariant, NEW i \in DOMAIN flow, flow[i].step = "exchanged",
           NEW arrived \in BOOLEAN, completeOIDCReauthentication(i, arrived)
    PROVE  Fit(flow', login')
<1>0. /\ Fit(flow, login) /\ flow[i] \in FlowRows /\ login \in Seq(LoginRows) /\ flow \in Seq(FlowRows)
      /\ flow[i].step \in {"exchanged", "confirming"}
  BY DEF OIDCInvariant, Fit
<1>1. flow[i].consumed /\ flow[i].issued = 0 /\ flow[i].verified = Never
  BY <1>0, NoEffectYet
<1>2. i \in Nat /\ flow[i].proved \in Moment /\ flow[i].retain \in Int /\ flow[i].session \in Int
  BY <1>0, FlowRowFields
<1> PICK p \in Moment : p = flow[i].proved
  BY <1>2
<1> PICK s \in Int : s = flow[i].session
  BY <1>2
<1>3. \E g \in FlowRows :
         /\ g.issued = 0 /\ g.verified = p /\ g.session = s /\ g.step = "done" /\ g.consumed
         /\ g.cancelled => ~arrived
         /\ flow' = [flow EXCEPT ![i] = g]
  <2> PICK retain \in Int : retain = retainVerificationCancellation(flow[i])
    BY <1>2, OIDCFlowsAssumption DEF retainVerificationCancellation, Moment, Never
  <2> PICK none \in Int : none = 0
    OBVIOUS
  <2> PICK gone \in BOOLEAN : gone = ~arrived
    BY Zenon
  <2> PICK g : g = [flow[i] EXCEPT !.verified = p, !.step = "done", !.cancelled = gone,
                                   !.retain = retain, !.asked = none]
    OBVIOUS
  <2>1. flow' = [flow EXCEPT ![i] = g]
    BY Zenon DEF completeOIDCReauthentication
  <2>2. /\ g \in FlowRows /\ g.issued = flow[i].issued /\ g.verified = p /\ g.session = flow[i].session
        /\ g.step = "done" /\ g.consumed = flow[i].consumed /\ g.cancelled = gone
    BY ZenonT(30), <1>0 DEF FlowRows, FlowSteps
  <2> QED BY Zenon, <1>1, <2>1, <2>2
<1>4. /\ login' \in Seq(LoginRows) /\ Len(login') = Len(login)
      /\ \A r \in DOMAIN login :
            \/ login'[r] = login[r]
            \/ login'[r].live = login[r].live /\ login'[r].by = 0
            \/ login'[r].live = login[r].live /\ login'[r].by = i /\ arrived
                 /\ login'[r].verified = p /\ r = s /\ p # Never
  <2>0. login' = IF arrived THEN [login EXCEPT ![s].verified = p, ![s].by = i]
                 ELSE [login EXCEPT ![s].verified = Never, ![s].by = 0]
    BY DEF completeOIDCReauthentication
  <2>1. CASE s \in DOMAIN login
    <3>0. login[s] \in LoginRows
      BY <1>0, <2>1
    <3>1. login[s].verified \in Moment
      BY Zenon, <3>0, LoginRowChanges
    <3>2. p # Never
      <4>1. login[s].verified < p
        BY DEF completeOIDCReauthentication
      <4> QED BY <3>1, <4>1 DEF Moment, Never
    <3> PICK v \in Moment : v = IF arrived THEN p ELSE Never
      BY Zenon DEF Moment
    <3> PICK b \in Nat : b = IF arrived THEN i ELSE 0
      BY <1>2
    <3> PICK m : m = [login[s] EXCEPT !.verified = v, !.by = b]
      OBVIOUS
    <3>3. login' = [login EXCEPT ![s] = m]
      BY Zenon, <2>0
    <3>4. m \in LoginRows /\ m.live = login[s].live /\ m.verified = v /\ m.by = b
      BY Zenon, <3>0 DEF LoginRows
    <3>5. /\ login' \in Seq(LoginRows) /\ Len(login') = Len(login)
          /\ \A r \in DOMAIN login : login'[r] = IF r = s THEN m ELSE login[r]
      BY <1>0, <2>1, <3>3, <3>4, ReplaceRow
    <3>6. \/ m.live = login[s].live /\ m.by = 0
          \/ m.live = login[s].live /\ m.by = i /\ arrived /\ m.verified = p
      BY Zenon, <3>4
    <3> QED BY Zenon, <3>2, <3>5, <3>6
  <2>2. CASE s \notin DOMAIN login
    <3>1. login' = login
      BY <1>0, <2>0, <2>2
    <3> QED BY Zenon, <1>0, <3>1
  <2> QED BY Zenon, <2>1, <2>2
<1>5. PICK g \in FlowRows :
         /\ g.issued = 0 /\ g.verified = p /\ g.session = s /\ g.step = "done" /\ g.consumed
         /\ g.cancelled => ~arrived
         /\ flow' = [flow EXCEPT ![i] = g]
  BY Zenon, <1>3
<1>6. ASSUME NEW r \in DOMAIN login
      PROVE  \/ login'[r] = login[r]
             \/ login'[r].live = login[r].live /\ login'[r].by = 0
             \/ login'[r].live = login[r].live /\ login'[r].by = i /\ ~g.cancelled
                  /\ login'[r].verified = g.verified /\ r = g.session /\ g.verified # Never
  BY Zenon, <1>4, <1>5
<1> QED BY Zenon, <1>0, <1>4, <1>5, <1>6, FitVerify

\* The rest of a transaction.
LEMMA StepsFinish ==
    ASSUME OIDCInvariant, NEW i \in DOMAIN flow,
           FinishExchange(i) \/ registerOIDC(i) \/ confirmIdentityLink(i)
    PROVE  Fit(flow', login')
<1>0. flow[i] \in FlowRows
  BY DEF OIDCInvariant, Fit
<1>1. flow[i].step \in {"exchanged", "confirming"}
  BY DEF FinishExchange, registerOIDC, confirmIdentityLink
<1>2. CASE Reject(i)
  BY Zenon, <1>1, <1>2, StepsBack DEF Reject
<1>3. ASSUME NEW arrived \in BOOLEAN, finishOIDCLogin(i, arrived)
      PROVE  Fit(flow', login')
  BY Zenon, <1>1, <1>3, StepsIn
<1>4. CASE FinishExchange(i)
  <2>1. ASSUME NEW arrived \in BOOLEAN, completeOIDCReauthentication(i, arrived)
        PROVE  Fit(flow', login')
    BY Zenon, <1>4, <2>1, StepsVerify DEF FinishExchange
  <2>2. CASE /\ flow' = [flow EXCEPT ![i] = [confirmation(flow[i]) EXCEPT !.kind =
                                               IF flow[i].kind = "link" THEN "confirm" ELSE "register"]]
             /\ login' = login
    <3> PICK k \in FlowKinds : k = IF flow[i].kind = "link" THEN "confirm" ELSE "register"
      BY DEF FlowKinds
    <3>1. flow' = [flow EXCEPT ![i] = [confirmation(flow[i]) EXCEPT !.kind = k]]
      BY Zenon, <2>2
    <3> QED BY Zenon, <1>1, <2>2, <3>1, StepsBack
  <2> QED BY Zenon, <1>2, <1>3, <1>4, <2>1, <2>2 DEF FinishExchange
<1>5. CASE registerOIDC(i)
  <2>1. CASE flow' = [flow EXCEPT ![i] = confirmation(@)] /\ login' = login
    <3>1. flow[i].kind \in FlowKinds
      BY Zenon, <1>0, FlowRowFields
    <3>2. confirmation(flow[i]) = [confirmation(flow[i]) EXCEPT !.kind = flow[i].kind]
      BY Zenon, <1>0 DEF confirmation, FlowRows
    <3>3. flow' = [flow EXCEPT ![i] = confirmation(flow[i])]
      BY <2>1
    <3>4. flow' = [flow EXCEPT ![i] = [confirmation(flow[i]) EXCEPT !.kind = flow[i].kind]]
      BY Zenon, <3>2, <3>3
    <3> QED BY Zenon, <1>1, <2>1, <3>1, <3>4, StepsBack
  <2> QED BY Zenon, <1>2, <1>3, <1>5, <2>1 DEF registerOIDC
<1>6. CASE confirmIdentityLink(i)
  <2>1. CASE flow' = [flow EXCEPT ![i].step = "done"] /\ login' = login
    BY Zenon, <1>1, <2>1, StepsBack
  <2> QED BY Zenon, <1>2, <1>6, <2>1 DEF confirmIdentityLink
<1> QED BY Zenon, <1>4, <1>5, <1>6

\* Cancelling, signing in and out without the account centre.
LEMMA StepsAround ==
    ASSUME OIDCInvariant,
           LocalLogin \/ Logout \/ LocalVerification \/ unlinkIdentity \/ \E i \in DOMAIN flow : cancelOIDC(i)
    PROVE  Fit(flow', login')
<1>0. Fit(flow, login) /\ login \in Seq(LoginRows) /\ flow \in Seq(FlowRows) /\ now \in Nat
  BY DEF OIDCInvariant, Fit
<1>1. /\ discardBrowser \subseteq DOMAIN flow
      /\ \A s : SessionReauthentications(s) \subseteq DOMAIN flow
  BY DEF discardBrowser, SessionReauthentications
<1>2. ASSUME NEW i \in DOMAIN flow, cancelOIDC(i)
      PROVE  Fit(flow', login')
  <2>1. {i} \in SUBSET DOMAIN flow
    OBVIOUS
  <2>2. flow' = Cancelled(flow, {i}) /\ login' = clearOIDCEffects(login, {i})
    BY Zenon, <1>2 DEF cancelOIDC
  <2> QED BY Zenon, <1>0, <2>1, <2>2, FitCancel
<1>3. CASE LocalLogin
  <2>1. PICK ids \in SUBSET DOMAIN flow :
           /\ flow' = Cancelled(flow, ids)
           /\ login' = Append(clearOIDCEffects(login, ids), NewLogin(Never, 0))
    BY Zenon, <1>1, <1>3 DEF LocalLogin
  <2>2. Fit(flow', clearOIDCEffects(login, ids))
    BY Zenon, <1>0, <2>1, FitCancel
  <2>3. NewLogin(Never, 0) \in LoginRows /\ NewLogin(Never, 0).by = 0
    BY DEF NewLogin, LoginRows, Moment
  <2> QED BY Zenon, <2>1, <2>2, <2>3, FitAppendLogin
<1>4. CASE Logout
  <2>1. PICK ids \in SUBSET DOMAIN flow :
           /\ flow' = Cancelled(flow, ids)
           /\ login' = [clearOIDCEffects(login, ids) EXCEPT ![jar.session].live = FALSE]
    BY Zenon, <1>1, <1>4 DEF Logout
  <2> PICK ls : ls = clearOIDCEffects(login, ids)
    OBVIOUS
  <2>2. Fit(flow', ls) /\ login' = [ls EXCEPT ![jar.session].live = FALSE]
    BY Zenon, <1>0, <2>1, FitCancel
  <2>3. ls \in Seq(LoginRows)
    BY Zenon, <2>2 DEF Fit
  <2>4. CASE jar.session \in DOMAIN ls
    <3> PICK s \in DOMAIN ls : s = jar.session
      BY <2>4
    <3> PICK m : m = [ls[s] EXCEPT !.live = FALSE]
      BY Zenon
    <3>1. login' = [ls EXCEPT ![s] = m]
      BY <2>2
    <3>2. ls[s] \in LoginRows
      BY <2>3
    <3>3. m \in LoginRows /\ m.live = FALSE /\ m.by = ls[s].by /\ m.verified = ls[s].verified
      BY Zenon, <3>2 DEF LoginRows
    <3>4. /\ login' \in Seq(LoginRows) /\ Len(login') = Len(ls)
          /\ \A r \in DOMAIN ls : login'[r] = IF r = s THEN m ELSE ls[r]
      BY <2>3, <3>1, <3>3, ReplaceRow
    <3>5. \A r \in DOMAIN ls :
             /\ login'[r].live => ls[r].live
             /\ login'[r].by = 0 \/ (login'[r].by = ls[r].by /\ login'[r].verified = ls[r].verified)
      BY Zenon, <3>3, <3>4
    <3>6. Fit(flow', ls)
      BY Zenon, <2>2
    <3> QED BY <3>4, <3>5, <3>6, FitLogins
  <2>5. CASE jar.session \notin DOMAIN ls
    <3>1. login' = ls
      BY <2>2, <2>3, <2>5
    <3> QED BY Zenon, <2>2, <3>1
  <2> QED BY Zenon, <2>4, <2>5
<1>5. CASE LocalVerification
  <2>1. flow' = flow /\ login' = [login EXCEPT ![jar.session].verified = now, ![jar.session].by = 0]
    BY <1>5 DEF LocalVerification
  <2>4. CASE jar.session \in DOMAIN login
    <3> PICK s \in DOMAIN login : s = jar.session
      BY <2>4
    <3> PICK v \in Moment : v = now
      BY <1>0 DEF Moment
    <3> PICK b \in Nat : b = 0
      OBVIOUS
    <3> PICK m : m = [login[s] EXCEPT !.verified = v, !.by = b]
      OBVIOUS
    <3>1. login' = [login EXCEPT ![s] = m]
      BY Zenon, <2>1
    <3>2. login[s] \in LoginRows
      BY <1>0
    <3>3. m \in LoginRows /\ m.live = login[s].live /\ m.by = b
      BY Zenon, <3>2 DEF LoginRows
    <3>4. /\ login' \in Seq(LoginRows) /\ Len(login') = Len(login)
          /\ \A r \in DOMAIN login : login'[r] = IF r = s THEN m ELSE login[r]
      BY <1>0, <3>1, <3>3, ReplaceRow
    <3>5. \A r \in DOMAIN login :
             /\ login'[r].live => login[r].live
             /\ login'[r].by = 0 \/ (login'[r].by = login[r].by /\ login'[r].verified = login[r].verified)
      BY Zenon, <3>3, <3>4
    <3>6. Fit(flow, login')
      BY <1>0, <3>4, <3>5, FitLogins
    <3> QED BY Zenon, <2>1, <3>6
  <2>5. CASE jar.session \notin DOMAIN login
    <3>1. login' = login
      BY <1>0, <2>1, <2>5
    <3> QED BY Zenon, <1>0, <2>1, <3>1
  <2> QED BY Zenon, <2>4, <2>5
<1>6. CASE unlinkIdentity
  BY Zenon, <1>0, <1>6, FitUnlink
<1> QED BY Zenon, <1>2, <1>3, <1>4, <1>5, <1>6

\* Beginning a transaction.
LEMMA StepsBegin ==
    ASSUME OIDCInvariant, NEW available \in BOOLEAN,
           \/ beginOIDCLogin(available) \/ beginIdentityLink(available) \/ beginOIDCReauthentication(available)
    PROVE  Fit(flow', login')
<1>0. Fit(flow, login) /\ login \in Seq(LoginRows) /\ flow \in Seq(FlowRows) /\ now \in Nat
  BY DEF OIDCInvariant, Fit
<1>1. PICK kind \in FlowKinds, session \in Int, until \in Int : beginOIDC(NewFlow(kind, session, until), available)
  <2>1. CASE beginOIDCLogin(available)
    <3>1. "login" \in FlowKinds /\ 0 \in Int /\ Never \in Int
      BY DEF FlowKinds, Never
    <3> QED BY Zenon, <2>1, <3>1 DEF beginOIDCLogin
  <2>2. CASE beginIdentityLink(available)
    <3>1. jar.session \in DOMAIN login
      BY <2>2 DEF beginIdentityLink, LoggedIn, OIDCInvariant, Held
    <3>2. login[jar.session] \in LoginRows /\ jar.session \in Int
      BY <1>0, <3>1
    <3>3. login[jar.session].verified \in Moment
      BY Zenon, <3>2, LoginRowChanges
    <3>4. login[jar.session].verified + VerificationAge \in Int /\ "link" \in FlowKinds
      BY <3>3, OIDCFlowsAssumption DEF Moment, Never, FlowKinds
    <3> QED BY Zenon, <2>2, <3>2, <3>4 DEF beginIdentityLink
  <2>3. CASE beginOIDCReauthentication(available)
    <3>1. jar.session \in Int /\ Never \in Int /\ "reauth" \in FlowKinds
      BY <1>0 DEF OIDCInvariant, Held, Never, FlowKinds
    <3> QED BY Zenon, <2>3, <3>1 DEF beginOIDCReauthentication
  <2> QED BY Zenon, <2>1, <2>2, <2>3
<1>2. discardBrowser \in SUBSET DOMAIN flow
  BY DEF discardBrowser
<1> PICK before : before = Cancelled(flow, discardBrowser)
  OBVIOUS
<1> PICK fs : fs = Pruned(before)
  OBVIOUS
<1>3. Fit(before, login')
  <2>1. login' = clearOIDCEffects(login, discardBrowser)
    BY Zenon, <1>1 DEF beginOIDC
  <2> QED BY Zenon, <1>0, <1>2, <2>1, FitCancel
<1>4. before \in Seq(FlowRows) /\ \A i \in DOMAIN before : before[i] \in FlowRows /\ OneEffect(before[i])
  BY <1>3 DEF Fit
<1>5. ASSUME NEW i \in DOMAIN before
      PROVE  /\ fs[i] \in FlowRows /\ fs[i].cancelled = before[i].cancelled
             /\ fs[i].issued = before[i].issued /\ fs[i].verified = before[i].verified
             /\ fs[i].session = before[i].session /\ fs[i].step = before[i].step
             /\ fs[i].consumed = before[i].consumed
  <2> PICK b \in BOOLEAN : b = (before[i].present /\ before[i].retain > now)
    BY Zenon
  <2>1. fs[i] = [before[i] EXCEPT !.present = b]
    BY Zenon DEF Pruned
  <2>2. before[i] \in FlowRows
    BY Zenon, <1>4
  <2> QED BY ZenonT(30), <2>1, <2>2 DEF FlowRows
<1>6. DOMAIN fs = DOMAIN before
  BY DEF Pruned
<1>7. fs \in Seq(FlowRows) /\ Len(fs) = Len(before)
  <2>1. fs = [j \in DOMAIN before |-> fs[j]]
    BY DEF Pruned
  <2>2. \A j \in DOMAIN before : fs[j] \in FlowRows
    BY Zenon, <1>5
  <2> QED BY <1>4, <1>6, <2>1, <2>2, MapRows
<1>8. Fit(fs, login')
  <2>1. ASSUME NEW i \in DOMAIN before
        PROVE  /\ fs[i].issued = before[i].issued /\ fs[i].verified = before[i].verified
               /\ fs[i].session = before[i].session
               /\ OneEffect(fs[i])
               /\ fs[i].cancelled => before[i].cancelled \/ (before[i].issued = 0 /\ before[i].verified = Never)
    <3>1. OneEffect(before[i])
      BY Zenon, <1>4
    <3>2. OneEffect(fs[i])
      BY Zenon, <1>5, <3>1 DEF OneEffect
    <3> QED BY Zenon, <1>5, <3>2
  <2> QED BY <1>3, <1>7, <2>1, FitFlows
<1>9. CASE flow' = Pruned(before)
  BY Zenon, <1>8, <1>9
<1>10. CASE flow' = put(before, [NewFlow(kind, session, until) EXCEPT !.cancelled = ~available])
  <2> PICK gone \in BOOLEAN : gone = ~available
    BY Zenon
  <2> PICK end \in Int : end = now + FlowTTL
    BY <1>0, OIDCFlowsAssumption
  <2> PICK f : f = [NewFlow(kind, session, until) EXCEPT !.cancelled = gone]
    BY Zenon
  <2> PICK zero \in Nat : zero = 0
    OBVIOUS
  <2> PICK never \in Moment : never = Never
    BY DEF Moment
  <2>1. f = [kind |-> kind, step |-> "open", consumed |-> FALSE, cancelled |-> gone, present |-> TRUE,
             began |-> now, expires |-> end, retain |-> end,
             session |-> session, until |-> until, proved |-> never, asked |-> zero,
             issued |-> zero, issues |-> zero, verified |-> never]
    BY Zenon DEF NewFlow
  <2>2. f \in FlowRows
    <3>1. now \in Int
      BY <1>0
    <3>2. [kind |-> kind, step |-> "open", consumed |-> FALSE, cancelled |-> gone, present |-> TRUE,
           began |-> now, expires |-> end, retain |-> end,
           session |-> session, until |-> until, proved |-> never, asked |-> zero,
           issued |-> zero, issues |-> zero, verified |-> never] \in FlowRows
      BY ZenonT(30), <3>1, NewRow
    <3> QED BY Zenon, <2>1, <3>2
  <2>4. f.issued = 0 /\ f.verified = Never /\ f.step = "open"
    BY <2>1
  <2>3. flow' = Append(fs, f)
    BY Zenon, <1>10 DEF put
  <2> QED BY Zenon, <1>8, <2>2, <2>3, <2>4, FitAppendFlow
<1> QED BY Zenon, <1>1, <1>9, <1>10 DEF beginOIDC

\* A response that names a session names one that was made.
LEMMA CookiesStep ==
    ASSUME jar \in Held(login), wire \subseteq Sent(login), DOMAIN login \subseteq DOMAIN login',
           jar' = jar,
           wire' = wire \/ \E h \in Sent(login') : wire' = wire \cup {h}
    PROVE  jar' \in Held(login') /\ wire' \subseteq Sent(login')
<1>1. jar \in Held(login') /\ Sent(login) \subseteq Sent(login')
  BY DEF Held, Sent
<1> QED BY Zenon, <1>1

\* A browser that takes up a response holds what was sent to it.
LEMMA DeliverStep ==
    ASSUME jar \in Held(login), wire \subseteq Sent(login), NEW h \in wire, Deliver(h)
    PROVE  jar' \in Held(login) /\ wire' \subseteq Sent(login) /\ flow' = flow /\ login' = login
<1>1. h \in Sent(login)
  BY Zenon
<1>2. jar'.session \in {0} \cup DOMAIN login /\ jar' \in Held(login)
  BY <1>1 DEF Deliver, Headers, Held, Sent, Keep
<1> QED BY Zenon, <1>2 DEF Deliver

\* Every step keeps the invariant.
LEMMA OIDCStep ==
    ASSUME OIDCInvariant, [OIDCNext]_<<now, oidcVars>>
    PROVE  OIDCInvariant'
<1>0. /\ now \in Nat /\ jar \in Held(login) /\ wire \subseteq Sent(login)
      /\ login \in Seq(LoginRows) /\ flow \in Seq(FlowRows) /\ Fit(flow, login)
  BY Zenon DEF OIDCInvariant, Fit
<1>1. CASE FlowTick \/ UNCHANGED <<now, oidcVars>>
  <2>1. now' \in Nat /\ flow' = flow /\ login' = login /\ jar' = jar /\ wire' = wire
    BY <1>0, <1>1 DEF FlowTick, Advance, oidcVars
  <2> QED BY Zenon, <1>0, <2>1 DEF OIDCInvariant
<1>2. ASSUME NEW h \in wire, Deliver(h), UNCHANGED now
      PROVE  OIDCInvariant'
  BY Zenon, <1>0, <1>2, DeliverStep DEF OIDCInvariant
<1>3. ASSUME NEW fs, NEW ids
      PROVE  DOMAIN clearOIDCEffects(login, ids) = DOMAIN login
  BY DEF clearOIDCEffects
<1>4. /\ Headers(0, Keep) \in Sent(login') /\ Headers(0, 0) \in Sent(login')
      /\ Headers(Keep, 0) \in Sent(login')
      /\ Headers(Len(flow) + 1, Keep) \in Sent(login')
  BY <1>0 DEF Headers, Sent, Keep
<1>5. ASSUME NEW arrived \in BOOLEAN, NEW i \in DOMAIN flow, finishOIDCLogin(i, arrived), jar' = jar,
             Fit(flow', login'), UNCHANGED now
      PROVE  OIDCInvariant'
  <2>1. flow[i].proved \in Moment /\ i \in Nat
    BY <1>0, FlowRowFields
  <2> PICK l : l = [NewLogin(flow[i].proved, i) EXCEPT !.live = arrived]
    BY Zenon
  <2>2. l \in LoginRows
    BY <2>1 DEF NewLogin, LoginRows
  <2>3. login' = Append(login, l) /\ (wire' = wire \/ wire' = wire \cup {Headers(0, Len(login) + 1)})
    BY Zenon, <1>5 DEF finishOIDCLogin
  <2>4. DOMAIN login' = DOMAIN login \cup {Len(login) + 1}
    BY <1>0, <2>2, <2>3, AppendRow
  <2>5. Headers(0, Len(login) + 1) \in Sent(login')
    BY <2>4 DEF Headers, Sent
  <2>6. DOMAIN login \subseteq DOMAIN login'
    BY <2>4
  <2> QED BY Zenon, <1>0, <1>5, <2>3, <2>5, <2>6, CookiesStep DEF OIDCInvariant
<1>6. CASE LocalLogin /\ UNCHANGED now
  <2>1. PICK ids : /\ flow' = Cancelled(flow, ids) /\ ids \in SUBSET DOMAIN flow
                   /\ login' = Append(clearOIDCEffects(login, ids), NewLogin(Never, 0))
    BY Zenon, <1>6 DEF LocalLogin, discardBrowser, SessionReauthentications
  <2> PICK ls : ls = clearOIDCEffects(login, ids)
    OBVIOUS
  <2>2. Fit(flow', ls)
    BY Zenon, <1>0, <2>1, FitCancel
  <2>3. ls \in Seq(LoginRows) /\ DOMAIN ls = DOMAIN login
    BY Zenon, <1>3, <2>2 DEF Fit
  <2>4. Len(ls) = Len(login) /\ NewLogin(Never, 0) \in LoginRows
    BY <1>0, <2>3 DEF NewLogin, LoginRows, Moment
  <2>5. DOMAIN login' = DOMAIN login \cup {Len(login) + 1}
    BY <2>1, <2>3, <2>4, AppendRow
  <2>6. Headers(Keep, Len(login) + 1) \in Sent(login') /\ DOMAIN login \subseteq DOMAIN login'
    BY <2>5 DEF Headers, Sent, Keep
  <2>7. jar' = jar /\ wire' = wire \cup {Headers(Keep, Len(login) + 1)}
    BY Zenon, <1>6 DEF LocalLogin, Reply
  <2>8. Fit(flow', login')
    BY Zenon, <1>6, StepsAround
  <2> QED BY Zenon, <1>0, <1>6, <2>6, <2>7, <2>8, CookiesStep DEF OIDCInvariant
<1>7. ASSUME DOMAIN login' = DOMAIN login, jar' = jar, Fit(flow', login'), UNCHANGED now,
             \/ wire' = wire
             \/ wire' = wire \cup {Headers(0, Keep)} \/ wire' = wire \cup {Headers(0, 0)}
             \/ wire' = wire \cup {Headers(Keep, 0)} \/ wire' = wire \cup {Headers(Len(flow) + 1, Keep)}
      PROVE  OIDCInvariant'
  <2>1. DOMAIN login \subseteq DOMAIN login'
    BY Zenon, <1>7
  <2> QED BY Zenon, <1>0, <1>4, <1>7, <2>1, CookiesStep DEF OIDCInvariant
<1>8. CASE Logout /\ UNCHANGED now
  <2>1. DOMAIN login' = DOMAIN login /\ jar' = jar /\ wire' = wire \cup {Headers(Keep, 0)}
    BY Zenon, <1>3, <1>8 DEF Logout, Reply
  <2> QED BY Zenon, <1>7, <1>8, <2>1, StepsAround
<1>9. CASE LocalVerification /\ UNCHANGED now
  <2>1. DOMAIN login' = DOMAIN login /\ jar' = jar /\ wire' = wire
    BY Zenon, <1>9 DEF LocalVerification
  <2> QED BY Zenon, <1>7, <1>9, <2>1, StepsAround
<1>10. CASE unlinkIdentity /\ UNCHANGED now
  <2>1. DOMAIN login' = DOMAIN login /\ jar' = jar
    BY Zenon, <1>10 DEF unlinkIdentity
  <2>2. wire' = wire \cup {Headers(0, Keep)} \/ wire' = wire \cup {Headers(0, 0)}
    BY Zenon, <1>10 DEF unlinkIdentity, Reply
  <2> QED BY Zenon, <1>7, <1>10, <2>1, <2>2, StepsAround
<1>11. ASSUME NEW available \in BOOLEAN, UNCHANGED now,
              beginOIDCLogin(available) \/ beginIdentityLink(available) \/ beginOIDCReauthentication(available)
       PROVE  OIDCInvariant'
  <2>1. /\ DOMAIN login' = DOMAIN login /\ jar' = jar
        /\ wire' = wire \/ wire' = wire \cup {Headers(Len(flow) + 1, Keep)}
    BY Zenon, <1>3, <1>11 DEF beginOIDCLogin, beginIdentityLink, beginOIDCReauthentication, beginOIDC
  <2> QED BY Zenon, <1>7, <1>11, <2>1, StepsBegin
<1>12. ASSUME NEW i \in DOMAIN flow, UNCHANGED now, cancelOIDC(i)
       PROVE  OIDCInvariant'
  <2>1. DOMAIN login' = DOMAIN login /\ jar' = jar /\ wire' = wire
    BY Zenon, <1>3, <1>12 DEF cancelOIDC
  <2> QED BY Zenon, <1>7, <1>12, <2>1, StepsAround
<1>13. ASSUME NEW i \in DOMAIN flow, UNCHANGED now,
              completeOIDC(i) \/ Exchange(i) \/ takeConfirmation(i) \/ cancelConfirmation(i)
       PROVE  OIDCInvariant'
  <2>1. login' = login /\ jar' = jar /\ (wire' = wire \/ wire' = wire \cup {Headers(0, Keep)})
    BY Zenon, <1>13 DEF completeOIDC, Exchange, takeConfirmation, cancelConfirmation, Reply
  <2> QED BY Zenon, <1>7, <1>13, <2>1, StepsOfFlow
<1>14. ASSUME NEW i \in DOMAIN flow, UNCHANGED now,
              FinishExchange(i) \/ registerOIDC(i) \/ confirmIdentityLink(i)
       PROVE  OIDCInvariant'
  <2>1. Fit(flow', login') /\ jar' = jar
    BY Zenon, <1>14, StepsFinish DEF FinishExchange, registerOIDC, confirmIdentityLink, Reject
  <2>2. CASE login' = login /\ (wire' = wire \/ wire' = wire \cup {Headers(0, Keep)})
    BY Zenon, <1>7, <1>14, <2>1, <2>2
  <2>3. ASSUME NEW arrived \in BOOLEAN, completeOIDCReauthentication(i, arrived)
        PROVE  OIDCInvariant'
    <3>1. DOMAIN login' = DOMAIN login /\ (wire' = wire \/ wire' = wire \cup {Headers(0, Keep)})
      BY <2>3 DEF completeOIDCReauthentication
    <3> QED BY Zenon, <1>7, <1>14, <2>1, <3>1
  <2>4. \/ login' = login /\ (wire' = wire \/ wire' = wire \cup {Headers(0, Keep)})
        \/ \E arrived \in BOOLEAN : completeOIDCReauthentication(i, arrived) \/ finishOIDCLogin(i, arrived)
    BY Zenon, <1>14 DEF FinishExchange, registerOIDC, confirmIdentityLink, Reject, Reply
  <2> QED BY Zenon, <1>5, <1>14, <2>1, <2>2, <2>3, <2>4
<1> QED BY Zenon, <1>1, <1>2, <1>6, <1>8, <1>9, <1>10, <1>11, <1>12, <1>13, <1>14 DEF OIDCNext

\* A cancelled transaction leaves nothing: no live session it issued and no
\* proof it gave, whatever arrives after the cancellation.
THEOREM CancelledLeavesNothingHolds == OIDCSpec => []CancelledLeavesNothing
<1>1. now = 0 /\ OIDCInit => OIDCInvariant
  BY DEF OIDCInit, OIDCInvariant, Fit, Held, Sent, Headers
<1>2. OIDCInvariant => CancelledLeavesNothing
  BY Zenon DEF OIDCInvariant, Fit, NothingLeft, CancelledLeavesNothing
<1> QED BY <1>1, <1>2, OIDCStep, PTL DEF OIDCSpec

-----------------------------------------------------------------------------
(* Ceremonies                                                              *)

Kinds == CeremonyKinds \cup {"recovery"}

\* Entries of the store other than the two special ones.
Entries == [kind : Kinds, expires : Nat, code : BOOLEAN]

\* Identifiers that were not begun have left no trace; a client knows an
\* identifier only when nothing is attached to it any more; and what was
\* finished is no longer in the store.
CeremonyInvariant ==
    /\ now \in Nat /\ begun \in Nat /\ begun <= MaxCeremonies
    /\ ceremony \in [Flows -> Entries \cup {NoCeremony, ZeroCeremony}]
    /\ finished \in [Flows -> Entries \cup {NoCeremony}]
    /\ attaching \subseteq Flows /\ known \subseteq Flows
    /\ attaching \cap known = {}
    /\ \A f \in Flows : f > begun => ceremony[f] = NoCeremony /\ f \notin attaching /\ f \notin known
    /\ \A f \in attaching : ceremony[f] # ZeroCeremony
    /\ \A f \in Flows : finished[f] # NoCeremony => f \in known /\ ceremony[f] = NoCeremony

-----------------------------------------------------------------------------
\* The special entries are no entries.
LEMMA SpecialEntries ==
    /\ NoCeremony \notin Entries /\ ZeroCeremony \notin Entries /\ NoCeremony # ZeroCeremony
    /\ NoCeremony.expires = -1 /\ NoCeremony.kind = "none" /\ ZeroCeremony.kind = "zero"
    /\ ZeroCeremony.expires = 0
BY CeremonyAssumption DEF NoCeremony, ZeroCeremony, Entries, Kinds, Never

\* An instant that was read lies in the past, at most Lag ago.
LEMMA InstantsBehind ==
    ASSUME now \in Nat, NEW at \in Instants
    PROVE  at \in Nat /\ at <= now /\ now - at <= Lag
BY DEF Instants

\* A put keeps the invariant, apart from the lists that the caller extends.
LEMMA PutStep ==
    ASSUME CeremonyInvariant, NEW at \in Instants, NEW k \in Kinds, putCeremony(k, at)
    PROVE  /\ begun' \in Nat /\ begun' <= MaxCeremonies
           /\ begun' = begun \/ begun' = begun + 1
           /\ ceremony' \in [Flows -> Entries \cup {NoCeremony, ZeroCeremony}]
           /\ \A f \in Flows : f > begun' => ceremony'[f] = NoCeremony
           /\ \A f \in Flows : f <= begun /\ ceremony[f] = NoCeremony => ceremony'[f] = NoCeremony
           /\ \A f \in Flows : ceremony'[f] = ZeroCeremony => ceremony[f] = ZeroCeremony /\ f <= begun
           /\ begun' = begun + 1 => begun' \in Flows
<1>1. at \in Nat
  BY InstantsBehind DEF CeremonyInvariant
<1>2. begun \in Nat /\ MaxCeremonies \in Nat /\ CeremonyTTL \in Nat
  BY CeremonyAssumption DEF CeremonyInvariant
<1> DEFINE kept == [f \in Flows |-> IF f \in Outdated(at) THEN NoCeremony ELSE ceremony[f]]
           fresh == [kind |-> k, expires |-> at + CeremonyTTL, code |-> FALSE]
<1>3. kept \in [Flows -> Entries \cup {NoCeremony, ZeroCeremony}]
  BY DEF CeremonyInvariant
<1>4. \A f \in Flows : ceremony[f] = NoCeremony => kept[f] = NoCeremony
  OBVIOUS
<1>5. \A f \in Flows : f > begun => kept[f] = NoCeremony
  BY <1>4 DEF CeremonyInvariant
<1>6. fresh \in Entries
  BY <1>1, <1>2 DEF Entries
<1>9. \A f \in Flows : kept[f] = ZeroCeremony => ceremony[f] = ZeroCeremony /\ f <= begun
  <2>1. \A f \in Flows : f \in Nat /\ (kept[f] = NoCeremony \/ kept[f] = ceremony[f])
    BY DEF Flows
  <2> QED BY <1>2, <1>5, <2>1, SpecialEntries
<1>7. CASE RoomForCeremony(at)
  <2>1. begun < MaxCeremonies /\ begun' = begun + 1 /\ ceremony' = [kept EXCEPT ![begun + 1] = fresh]
    BY <1>7 DEF putCeremony
  <2>2. begun + 1 \in Flows
    BY <1>2, <2>1 DEF Flows
  <2>3. ceremony' \in [Flows -> Entries \cup {NoCeremony, ZeroCeremony}]
    BY Zenon, <1>3, <1>6, <2>1
  <2>4. \A f \in Flows : f # begun + 1 => ceremony'[f] = kept[f]
    BY <1>3, <2>1
  <2>5. \A f \in Flows : f \in Nat
    BY DEF Flows
  <2>6. \A f \in Flows : f > begun' => f > begun /\ f # begun + 1
    BY <1>2, <2>1, <2>5
  <2>7. \A f \in Flows : f <= begun => f # begun + 1
    BY <1>2, <2>5
  <2>8. begun' \in Nat /\ begun' <= MaxCeremonies
    BY <1>2, <2>1
  <2>9. ceremony'[begun + 1] = fresh
    BY <1>3, <2>1, <2>2
  <2>10. \A f \in Flows : ceremony'[f] = ZeroCeremony => ceremony[f] = ZeroCeremony /\ f <= begun
    BY <1>6, <1>9, <2>4, <2>9, SpecialEntries
  <2> HIDE DEF kept, fresh
  <2> QED BY <1>4, <1>5, <2>1, <2>2, <2>3, <2>4, <2>6, <2>7, <2>8, <2>10
<1>8. CASE ~RoomForCeremony(at)
  <2>1. begun' = begun /\ ceremony' = kept
    BY <1>8 DEF putCeremony
  <2>2. begun' # begun + 1 /\ begun <= MaxCeremonies
    BY <1>2, <2>1 DEF CeremonyInvariant
  <2> HIDE DEF kept, fresh
  <2> QED BY <1>2, <1>3, <1>4, <1>5, <1>9, <2>1, <2>2
<1> QED BY <1>7, <1>8

\* What was finished stays out of the store when a put begins another one.
LEMMA PutKeepsFinished ==
    ASSUME CeremonyInvariant, NEW at \in Instants, NEW k \in Kinds, putCeremony(k, at)
    PROVE  \A f \in Flows : finished[f] # NoCeremony => f \in known /\ ceremony'[f] = NoCeremony
<1>1. \A f \in Flows : f \in Nat
  BY DEF Flows
<1>2. begun \in Nat
  BY DEF CeremonyInvariant
<1>3. \A f \in Flows : finished[f] # NoCeremony => f \in known /\ ceremony[f] = NoCeremony /\ f <= begun
  BY <1>1, <1>2 DEF CeremonyInvariant
<1> QED BY <1>3, PutStep

\* Every step keeps the invariant.
LEMMA CeremonyStep ==
    ASSUME CeremonyInvariant, [CeremoniesNext]_<<now, ceremonyVars>>
    PROVE  CeremonyInvariant'
<1>0. \A f \in Flows : f \in Nat
  BY DEF Flows
<1>1. CASE CeremoniesTick
  BY <1>1 DEF CeremoniesTick, CeremonyInvariant, ceremonyVars
<1>2. ASSUME NEW at \in Instants, NEW k \in CeremonyKinds, BeginCeremony(k, at), UNCHANGED now
      PROVE  CeremonyInvariant'
  <2>1. putCeremony(k, at) /\ k \in Kinds /\ UNCHANGED <<attaching, finished>>
    BY <1>2 DEF BeginCeremony, Kinds
  <2>2. known' = IF begun' > begun THEN known \union {begun'} ELSE known
    BY <1>2 DEF BeginCeremony
  <2>3. begun' = begun \/ (begun' = begun + 1 /\ begun' \in Flows)
    BY <2>1, PutStep
  <2>4. known' \subseteq Flows /\ attaching' \cap known' = {}
    BY <1>0, <2>1, <2>2, <2>3 DEF CeremonyInvariant
  <2>5. \A f \in Flows : f > begun' => f \notin attaching' /\ f \notin known'
    BY <1>0, <2>1, <2>2, <2>3 DEF CeremonyInvariant
  <2>6. known \subseteq known'
    BY <2>2
  <2>7. /\ begun' \in Nat /\ begun' <= MaxCeremonies
        /\ ceremony' \in [Flows -> Entries \cup {NoCeremony, ZeroCeremony}]
        /\ \A f \in Flows : f > begun' => ceremony'[f] = NoCeremony
    BY <2>1, PutStep
  <2>8. \A f \in Flows : finished'[f] # NoCeremony => f \in known' /\ ceremony'[f] = NoCeremony
    BY <2>1, <2>6, PutKeepsFinished
  <2>9. \A f \in attaching' : ceremony'[f] # ZeroCeremony
    BY <1>0, <2>1, <2>2, <2>3, PutStep DEF CeremonyInvariant
  <2> QED BY <1>2, <2>1, <2>4, <2>5, <2>7, <2>8, <2>9 DEF CeremonyInvariant
<1>3. ASSUME NEW at \in Instants, BeginRecoveryCeremony(at), UNCHANGED now
      PROVE  CeremonyInvariant'
  <2>1. putCeremony("recovery", at) /\ "recovery" \in Kinds /\ UNCHANGED <<known, finished>>
    BY <1>3 DEF BeginRecoveryCeremony, Kinds
  <2>2. attaching' = IF begun' > begun THEN attaching \union {begun'} ELSE attaching
    BY <1>3 DEF BeginRecoveryCeremony
  <2>3. begun' = begun \/ (begun' = begun + 1 /\ begun' \in Flows)
    BY <2>1, PutStep
  <2>4. attaching' \subseteq Flows /\ attaching' \cap known' = {}
    BY <1>0, <2>1, <2>2, <2>3 DEF CeremonyInvariant
  <2>5. \A f \in Flows : f > begun' => f \notin attaching' /\ f \notin known'
    BY <1>0, <2>1, <2>2, <2>3 DEF CeremonyInvariant
  <2>7. /\ begun' \in Nat /\ begun' <= MaxCeremonies
        /\ ceremony' \in [Flows -> Entries \cup {NoCeremony, ZeroCeremony}]
        /\ \A f \in Flows : f > begun' => ceremony'[f] = NoCeremony
    BY <2>1, PutStep
  <2>8. \A f \in Flows : finished'[f] # NoCeremony => f \in known' /\ ceremony'[f] = NoCeremony
    BY <2>1, PutKeepsFinished
  <2>9. \A f \in attaching' : ceremony'[f] # ZeroCeremony
    BY <1>0, <2>1, <2>2, <2>3, PutStep DEF CeremonyInvariant
  <2> QED BY <1>3, <2>1, <2>4, <2>5, <2>7, <2>8, <2>9 DEF CeremonyInvariant
<1>4. ASSUME NEW f \in Flows, NEW k \in Kinds, NEW at \in Instants, takeCeremony(f, k, at), UNCHANGED now
      PROVE  CeremonyInvariant'
  <2>1. /\ f \in known /\ ceremony' = [ceremony EXCEPT ![f] = NoCeremony]
        /\ UNCHANGED <<begun, attaching, known>>
        /\ finished' = finished \/ (ceremony[f].kind = k /\ finished' = [finished EXCEPT ![f] = ceremony[f]])
    BY <1>4 DEF takeCeremony, Knows
  <2>2. k # "none" /\ k # "zero"
    BY CeremonyAssumption DEF Kinds
  <2>3. ceremony[f].kind = k => ceremony[f] \in Entries
    BY <2>2, SpecialEntries DEF CeremonyInvariant
  <2>4. finished' \in [Flows -> Entries \cup {NoCeremony}]
    BY <2>1, <2>3 DEF CeremonyInvariant
  <2>5. \A g \in Flows : ceremony'[g] = IF g = f THEN NoCeremony ELSE ceremony[g]
    BY <2>1 DEF CeremonyInvariant
  <2>6. \A g \in Flows : g # f => finished'[g] = finished[g]
    BY <2>1 DEF CeremonyInvariant
  <2>7. ceremony' \in [Flows -> Entries \cup {NoCeremony, ZeroCeremony}]
    BY <2>1 DEF CeremonyInvariant
  <2>8. \A g \in Flows : finished'[g] # NoCeremony => g \in known' /\ ceremony'[g] = NoCeremony
    BY <2>1, <2>5, <2>6 DEF CeremonyInvariant
  <2>9. \A g \in attaching' : ceremony'[g] # ZeroCeremony
    BY <2>1, <2>5, SpecialEntries DEF CeremonyInvariant
  <2> QED BY <1>4, <2>1, <2>4, <2>5, <2>7, <2>8, <2>9 DEF CeremonyInvariant
<1>5. ASSUME NEW f \in Flows, AttachRecovery(f), UNCHANGED now
      PROVE  CeremonyInvariant'
  <2>1. /\ f \in attaching /\ ceremony' = [ceremony EXCEPT ![f] = Attached(f)]
        /\ attaching' = attaching \ {f} /\ known' = known \union {f}
        /\ UNCHANGED <<begun, finished>>
    BY <1>5 DEF AttachRecovery
  <2>2. Attached(f) \in Entries \cup {NoCeremony, ZeroCeremony}
    <3>1. CASE ceremony[f] = NoCeremony
      BY <3>1 DEF Attached
    <3>2. ceremony[f] # ZeroCeremony
      BY <2>1 DEF CeremonyInvariant
    <3>3. CASE ceremony[f] \in Entries
      BY Zenon, <3>3, SpecialEntries DEF Attached, Entries
    <3> QED BY <3>1, <3>2, <3>3 DEF CeremonyInvariant
  <2>3. \A g \in Flows : g # f => ceremony'[g] = ceremony[g]
    BY <2>1 DEF CeremonyInvariant
  <2>4. ceremony' \in [Flows -> Entries \cup {NoCeremony, ZeroCeremony}]
    BY <2>1, <2>2 DEF CeremonyInvariant
  <2>5. f <= begun /\ f \notin known
    BY <1>0, <2>1 DEF CeremonyInvariant
  <2>6. finished[f] = NoCeremony
    BY <2>5 DEF CeremonyInvariant
  <2>7. \A g \in Flows : g > begun => g # f
    BY <1>0, <2>5 DEF CeremonyInvariant
  <2> QED BY <1>5, <2>1, <2>3, <2>4, <2>6, <2>7 DEF CeremonyInvariant
<1>6. CASE RestartCeremonies /\ UNCHANGED now
  BY <1>6 DEF RestartCeremonies, CeremonyInvariant
<1>7. CASE UNCHANGED <<now, ceremonyVars>>
  BY <1>7 DEF CeremonyInvariant, ceremonyVars
<1> QED BY <1>1, <1>2, <1>3, <1>4, <1>5, <1>6, <1>7 DEF CeremoniesNext, Kinds

-----------------------------------------------------------------------------
(* The refinement.                                                         *)

\* The tokens a step of the store maps to.
LEMMA TokenValues ==
    ASSUME CeremonyInvariant, NEW f \in Flows
    PROVE  /\ f > begun => CeremonyToken[f] = "unused" /\ ceremony[f] = NoCeremony
           /\ ceremony[f] \in Entries => CeremonyToken[f] = "live" /\ CeremonyDeadline[f] = ceremony[f].expires
           /\ ceremony[f] \notin Entries => CeremonyToken[f] # "live" /\ CeremonyDeadline[f] = -1
           /\ ceremony[f] \notin Entries /\ f <= begun => CeremonyToken[f] = "gone"
           /\ CeremonyRedeemed[f] = IF finished[f] = NoCeremony THEN 0 ELSE 1
<1>1. ceremony[f] \in Entries \cup {NoCeremony, ZeroCeremony} /\ (f > begun => ceremony[f] = NoCeremony)
  BY DEF CeremonyInvariant
<1>2. f \in Nat /\ begun \in Nat
  BY DEF Flows, CeremonyInvariant
<1>3. CeremonyToken[f] = IF f > begun THEN "unused"
                         ELSE IF ceremony[f] \in {NoCeremony, ZeroCeremony} THEN "gone" ELSE "live"
  BY DEF CeremonyToken
<1>4. CeremonyDeadline[f] = IF ceremony[f] = ZeroCeremony THEN -1 ELSE ceremony[f].expires
  BY DEF CeremonyDeadline, Never
<1>5. CeremonyRedeemed[f] = IF finished[f] = NoCeremony THEN 0 ELSE 1
  BY DEF CeremonyRedeemed
<1> QED BY <1>1, <1>2, <1>3, <1>4, <1>5, SpecialEntries

\* The three mapped variables are functions on the identifiers.
LEMMA MappedFunctions ==
    /\ CeremonyToken = [f \in Flows |-> CeremonyToken[f]]
    /\ CeremonyDeadline = [f \in Flows |-> CeremonyDeadline[f]]
    /\ CeremonyRedeemed = [f \in Flows |-> CeremonyRedeemed[f]]
BY DEF CeremonyToken, CeremonyDeadline, CeremonyRedeemed

\* A step that begins and finishes nothing loses the tokens whose entries go.
LEMMA LosingStep ==
    ASSUME CeremonyInvariant, CeremonyInvariant', NEW L \in SUBSET Flows,
           begun' = begun, finished' = finished,
           \A f \in L : ceremony[f] \in Entries /\ ceremony'[f] \notin Entries,
           \A f \in Flows \ L : /\ ceremony[f] \in Entries <=> ceremony'[f] \in Entries
                                /\ ceremony[f] \in Entries => ceremony'[f].expires = ceremony[f].expires
    PROVE  CeremonyTokens!OneTimeNext
<1>1. \A f \in Flows : f \in Nat
  BY DEF Flows
<1>2. begun \in Nat
  BY DEF CeremonyInvariant
<1>3. L \in SUBSET CeremonyTokens!LiveTokens
  BY TokenValues DEF CeremonyTokens!LiveTokens
<1>4. \A f \in Flows : CeremonyToken'[f] = IF f \in L THEN "gone" ELSE CeremonyToken[f]
  <2> SUFFICES ASSUME NEW f \in Flows
               PROVE  CeremonyToken'[f] = IF f \in L THEN "gone" ELSE CeremonyToken[f]
    OBVIOUS
  <2>1. CASE f > begun
    <3>1. CeremonyToken[f] = "unused" /\ CeremonyToken'[f] = "unused" /\ ceremony[f] = NoCeremony
      BY <2>1, TokenValues DEF CeremonyToken
    <3> QED BY <3>1, SpecialEntries
  <2>2. CASE f <= begun
    <3>1. /\ ceremony[f] \in Entries => CeremonyToken[f] = "live"
          /\ ceremony[f] \notin Entries => CeremonyToken[f] = "gone"
      BY <2>2, TokenValues
    <3>2. /\ ceremony'[f] \in Entries => CeremonyToken'[f] = "live"
          /\ ceremony'[f] \notin Entries => CeremonyToken'[f] = "gone"
      <4>1. ceremony'[f] \in Entries \cup {NoCeremony, ZeroCeremony}
        BY DEF CeremonyInvariant
      <4>2. CeremonyToken'[f] = IF ceremony'[f] \in {NoCeremony, ZeroCeremony} THEN "gone" ELSE "live"
        BY <1>1, <1>2, <2>2 DEF CeremonyToken
      <4> QED BY <4>1, <4>2, SpecialEntries
    <3> QED BY <3>1, <3>2
  <2> QED BY <1>1, <1>2, <2>1, <2>2
<1>5. \A f \in Flows : CeremonyDeadline'[f] = IF f \in L THEN -1 ELSE CeremonyDeadline[f]
  <2> SUFFICES ASSUME NEW f \in Flows
               PROVE  CeremonyDeadline'[f] = IF f \in L THEN -1 ELSE CeremonyDeadline[f]
    OBVIOUS
  <2>1. /\ ceremony[f] \in Entries => CeremonyDeadline[f] = ceremony[f].expires
        /\ ceremony[f] \notin Entries => CeremonyDeadline[f] = -1
    BY TokenValues
  <2>2. /\ ceremony'[f] \in Entries => CeremonyDeadline'[f] = ceremony'[f].expires
        /\ ceremony'[f] \notin Entries => CeremonyDeadline'[f] = -1
    <3>1. ceremony'[f] \in Entries \cup {NoCeremony, ZeroCeremony}
      BY DEF CeremonyInvariant
    <3>2. CeremonyDeadline'[f] = IF ceremony'[f] = ZeroCeremony THEN -1 ELSE ceremony'[f].expires
      BY DEF CeremonyDeadline, Never
    <3> QED BY <3>1, <3>2, SpecialEntries
  <2> QED BY <2>1, <2>2
<1>6. CeremonyRedeemed' = CeremonyRedeemed
  BY DEF CeremonyRedeemed
<1>7. /\ CeremonyToken' = [f \in Flows |-> CeremonyToken'[f]]
      /\ CeremonyDeadline' = [f \in Flows |-> CeremonyDeadline'[f]]
  BY DEF CeremonyToken, CeremonyDeadline
<1>8. CeremonyToken' = CeremonyTokens!Without(L, CeremonyToken, "gone")
  BY <1>4, <1>7 DEF CeremonyTokens!Without
<1>9. CeremonyDeadline' = CeremonyTokens!Without(L, CeremonyDeadline, -1)
  BY <1>5, <1>7 DEF CeremonyTokens!Without
<1>10. CeremonyTokens!LoseTokens(L)
  BY <1>6, <1>8, <1>9 DEF CeremonyTokens!LoseTokens
<1> QED BY <1>3, <1>10 DEF CeremonyTokens!OneTimeNext

\* A put that has room issues the next token and loses the expired ones.
LEMMA IssuingStep ==
    ASSUME CeremonyInvariant, CeremonyInvariant', NEW at \in Instants, NEW k \in Kinds,
           putCeremony(k, at), RoomForCeremony(at), finished' = finished
    PROVE  CeremonyTokens!OneTimeNext
<1> DEFINE t == begun + 1
           L == {f \in Flows : ceremony[f] \in Entries /\ f \in Outdated(at)}
           fresh == [kind |-> k, expires |-> at + CeremonyTTL, code |-> FALSE]
           kept == [f \in Flows |-> IF f \in Outdated(at) THEN NoCeremony ELSE ceremony[f]]
<1>1. \A f \in Flows : f \in Nat
  BY DEF Flows
<1>2. begun \in Nat /\ now \in Nat /\ at \in Nat /\ at <= now /\ CeremonyTTL \in Nat
  BY InstantsBehind, CeremonyAssumption DEF CeremonyInvariant
<1>3. begun < MaxCeremonies /\ begun' = t /\ ceremony' = [kept EXCEPT ![t] = fresh]
  BY DEF putCeremony
<1>4. t \in Flows
  BY <1>2, <1>3, CeremonyAssumption DEF Flows
<1>5. fresh \in Entries /\ fresh.expires = at + CeremonyTTL /\ ceremony'[t] = fresh
  BY <1>2, <1>3, <1>4 DEF Entries
<1>6. \A f \in Flows : f # t => ceremony'[f] = kept[f]
  BY <1>3
<1>7. \A f \in Flows : f # t =>
          /\ f \in L => ceremony'[f] = NoCeremony
          /\ f \notin L => /\ ceremony'[f] \in Entries <=> ceremony[f] \in Entries
                           /\ ceremony[f] \in Entries => ceremony'[f] = ceremony[f]
  BY <1>6, SpecialEntries
<1>8. \A f \in Flows : CeremonyToken'[f] = IF f = t THEN "live" ELSE IF f \in L THEN "gone" ELSE CeremonyToken[f]
  <2> SUFFICES ASSUME NEW f \in Flows
               PROVE  CeremonyToken'[f] = IF f = t THEN "live" ELSE IF f \in L THEN "gone" ELSE CeremonyToken[f]
    OBVIOUS
  <2>1. CeremonyToken'[f] = IF f > begun' THEN "unused"
                            ELSE IF ceremony'[f] \in {NoCeremony, ZeroCeremony} THEN "gone" ELSE "live"
    BY DEF CeremonyToken
  <2>2. CASE f = t
    <3>1. ~(f > begun')
      BY <1>1, <1>2, <1>3, <2>2
    <3>2. ceremony'[f] \in Entries
      BY ZenonT(30), <1>5, <2>2
    <3> HIDE DEF L, kept, fresh, t
    <3> QED BY Zenon, <2>1, <2>2, <3>1, <3>2, SpecialEntries
  <2>3. CASE f > t
    <3>1. f > begun /\ f > begun' /\ f # t
      BY <1>1, <1>2, <1>3, <2>3
    <3>2. CeremonyToken[f] = "unused" /\ ceremony[f] = NoCeremony
      BY Zenon, <3>1, TokenValues
    <3>3. f \notin L
      BY Zenon, <3>2, SpecialEntries DEF L, Outdated
    <3> HIDE DEF L, kept, fresh, t
    <3> QED BY Zenon, <2>1, <3>1, <3>2, <3>3
  <2>4. CASE f < t
    <3>1. f <= begun /\ ~(f > begun') /\ f # t
      BY <1>1, <1>2, <1>3, <2>4
    <3>2. ceremony'[f] \in Entries \cup {NoCeremony, ZeroCeremony}
      BY DEF CeremonyInvariant
    <3>3. CeremonyToken'[f] = IF ceremony'[f] \in Entries THEN "live" ELSE "gone"
      BY <2>1, <3>1, <3>2, SpecialEntries
    <3>4. CeremonyToken[f] = IF ceremony[f] \in Entries THEN "live" ELSE "gone"
      BY <3>1, TokenValues
    <3> HIDE DEF L, kept, fresh
    <3> QED BY <1>7, <3>1, <3>3, <3>4, SpecialEntries
  <2> QED BY <1>1, <1>2, <2>2, <2>3, <2>4
<1>9. \A f \in Flows : CeremonyDeadline'[f] = IF f = t THEN at + CeremonyTTL ELSE IF f \in L THEN -1 ELSE CeremonyDeadline[f]
  <2> SUFFICES ASSUME NEW f \in Flows
               PROVE  CeremonyDeadline'[f] = IF f = t THEN at + CeremonyTTL ELSE IF f \in L THEN -1 ELSE CeremonyDeadline[f]
    OBVIOUS
  <2>1. /\ ceremony[f] \in Entries => CeremonyDeadline[f] = ceremony[f].expires
        /\ ceremony[f] \notin Entries => CeremonyDeadline[f] = -1
    BY TokenValues
  <2>2. /\ ceremony'[f] \in Entries => CeremonyDeadline'[f] = ceremony'[f].expires
        /\ ceremony'[f] \notin Entries => CeremonyDeadline'[f] = -1
    <3>1. ceremony'[f] \in Entries \cup {NoCeremony, ZeroCeremony}
      BY DEF CeremonyInvariant
    <3>2. CeremonyDeadline'[f] = IF ceremony'[f] = ZeroCeremony THEN -1 ELSE ceremony'[f].expires
      BY DEF CeremonyDeadline, Never
    <3> QED BY <3>1, <3>2, SpecialEntries
  <2> HIDE DEF L, kept, fresh
  <2> QED BY <1>5, <1>7, <2>1, <2>2, SpecialEntries
<1>10. L \in SUBSET CeremonyTokens!LiveTokens
  <2>1. \A f \in L : f \in Flows /\ CeremonyToken[f] = "live"
    BY TokenValues
  <2> QED BY Zenon, <2>1 DEF CeremonyTokens!LiveTokens
<1>11. CeremonyToken[t] = "unused"
  BY <1>2, <1>4, TokenValues
<1>12. /\ CeremonyToken' = [f \in Flows |-> CeremonyToken'[f]]
       /\ CeremonyDeadline' = [f \in Flows |-> CeremonyDeadline'[f]]
       /\ CeremonyRedeemed' = CeremonyRedeemed
  BY DEF CeremonyToken, CeremonyDeadline, CeremonyRedeemed
<1> HIDE DEF L, kept, fresh, t
<1>13. CeremonyToken' = [CeremonyTokens!Without(L, CeremonyToken, "gone") EXCEPT ![t] = "live"]
  BY <1>4, <1>8, <1>12 DEF CeremonyTokens!Without
<1>14. CeremonyDeadline' = [CeremonyTokens!Without(L, CeremonyDeadline, -1) EXCEPT ![t] = CeremonyDeadline'[t]]
  BY <1>4, <1>9, <1>12 DEF CeremonyTokens!Without
<1>15. CeremonyDeadline'[t] \in 0..(now + CeremonyTTL)
  BY <1>2, <1>4, <1>9
<1>16. CeremonyTokens!IssueToken(t, L)
  BY <1>11, <1>12, <1>13, <1>14, <1>15 DEF CeremonyTokens!IssueToken
<1> QED BY <1>4, <1>10, <1>16 DEF CeremonyTokens!OneTimeNext

\* A take that answers the entry redeems its token; any other take loses it.
LEMMA TakingStep ==
    ASSUME CeremonyInvariant, CeremonyInvariant', NEW at \in Instants, NEW k \in Kinds,
           NEW f \in Flows, takeCeremony(f, k, at)
    PROVE  CeremonyTokens!OneTimeNext
<1>1. /\ ceremony' = [ceremony EXCEPT ![f] = NoCeremony] /\ begun' = begun
      /\ finished' = IF ceremony[f].expires > at /\ ceremony[f].kind = k
                     THEN [finished EXCEPT ![f] = ceremony[f]] ELSE finished
  BY DEF takeCeremony
<1>2. ceremony \in [Flows -> Entries \cup {NoCeremony, ZeroCeremony}] /\ finished \in [Flows -> Entries \cup {NoCeremony}]
  BY DEF CeremonyInvariant
<1>3. \A g \in Flows : ceremony'[g] = IF g = f THEN NoCeremony ELSE ceremony[g]
  BY <1>1, <1>2
<1>4. k # "none" /\ k # "zero"
  BY CeremonyAssumption DEF Kinds
<1>5. CASE ceremony[f].expires > at /\ ceremony[f].kind = k
  <2>1. ceremony[f] \in Entries
    BY <1>2, <1>4, <1>5, SpecialEntries
  <2>2. finished[f] = NoCeremony
    BY <2>1, SpecialEntries DEF CeremonyInvariant
  <2>3. CeremonyToken[f] = "live" /\ CeremonyDeadline[f] = ceremony[f].expires /\ CeremonyRedeemed[f] = 0
    BY <2>1, <2>2, TokenValues
  <2>4. CeremonyDeadline[f] > now - Lag
    <3>1. at \in Nat /\ now \in Nat /\ Lag \in Nat /\ now - at <= Lag
      BY InstantsBehind, ClockAssumption DEF CeremonyInvariant
    <3>2. ceremony[f].expires \in Nat
      BY <2>1 DEF Entries
    <3> QED BY <1>5, <2>3, <3>1, <3>2
  <2>5. ~(f > begun)
    BY <2>1, SpecialEntries DEF CeremonyInvariant
  <2>6. CeremonyToken' = [CeremonyToken EXCEPT ![f] = "gone"]
    BY Zenon, <1>1, <1>3, <2>5 DEF CeremonyToken
  <2>7. CeremonyDeadline' = [CeremonyDeadline EXCEPT ![f] = -1]
    BY Zenon, <1>3, SpecialEntries DEF CeremonyDeadline, Never
  <2>8. \A g \in Flows : finished'[g] = IF g = f THEN ceremony[f] ELSE finished[g]
    BY <1>1, <1>2, <1>5
  <2>9. CeremonyRedeemed' = [CeremonyRedeemed EXCEPT ![f] = CeremonyRedeemed[f] + 1]
    <3>1. CeremonyRedeemed' = [g \in Flows |-> IF finished'[g] = NoCeremony THEN 0 ELSE 1]
      BY DEF CeremonyRedeemed
    <3>2. \A g \in Flows : CeremonyRedeemed'[g] = IF g = f THEN 1 ELSE CeremonyRedeemed[g]
      BY <2>1, <2>8, <3>1, SpecialEntries DEF CeremonyRedeemed
    <3>3. CeremonyRedeemed = [g \in Flows |-> CeremonyRedeemed[g]]
      BY MappedFunctions
    <3> QED BY <2>3, <3>1, <3>2, <3>3
  <2>10. CeremonyTokens!RedeemToken(f)
    BY <2>3, <2>4, <2>6, <2>7, <2>9 DEF CeremonyTokens!RedeemToken
  <2> QED BY <2>10 DEF CeremonyTokens!OneTimeNext
<1>6. CASE ~(ceremony[f].expires > at /\ ceremony[f].kind = k)
  <2> DEFINE L == IF ceremony[f] \in Entries THEN {f} ELSE {}
  <2>1. begun' = begun /\ finished' = finished
    BY <1>1, <1>6
  <2>2. L \in SUBSET Flows
    OBVIOUS
  <2>3. \A g \in L : ceremony[g] \in Entries /\ ceremony'[g] \notin Entries
    BY <1>3, SpecialEntries
  <2>4. \A g \in Flows \ L : /\ ceremony[g] \in Entries <=> ceremony'[g] \in Entries
                             /\ ceremony[g] \in Entries => ceremony'[g].expires = ceremony[g].expires
    BY <1>3, SpecialEntries
  <2> HIDE DEF L
  <2> QED BY <2>1, <2>2, <2>3, <2>4, LosingStep
<1> QED BY <1>5, <1>6

\* Every step of the store is a step of one-time tokens or leaves them alone.
LEMMA RefinementStep ==
    ASSUME CeremonyInvariant, CeremonyInvariant', [CeremoniesNext]_<<now, ceremonyVars>>
    PROVE  [CeremonyTokens!OneTimeNext]_CeremonyTokens!oneTimeVars
<1>1. CASE CeremoniesTick \/ UNCHANGED <<now, ceremonyVars>>
  <2>1. UNCHANGED <<ceremony, begun, finished>>
    BY <1>1 DEF CeremoniesTick, ceremonyVars
  <2>2. UNCHANGED <<CeremonyToken, CeremonyDeadline, CeremonyRedeemed>>
    BY <2>1 DEF CeremonyToken, CeremonyDeadline, CeremonyRedeemed
  <2> QED BY <2>2 DEF CeremonyTokens!oneTimeVars
<1>2. ASSUME NEW at \in Instants, NEW k \in Kinds, putCeremony(k, at), finished' = finished
      PROVE  CeremonyTokens!OneTimeNext
  <2>1. CASE RoomForCeremony(at)
    BY ZenonT(30), <1>2, <2>1, IssuingStep
  <2>2. CASE ~RoomForCeremony(at)
    <3> DEFINE L == {f \in Flows : ceremony[f] \in Entries /\ f \in Outdated(at)}
    <3>1. begun' = begun /\ \A f \in Flows : ceremony'[f] = IF f \in Outdated(at) THEN NoCeremony ELSE ceremony[f]
      BY <1>2, <2>2 DEF putCeremony
    <3>2. \A f \in L : ceremony[f] \in Entries /\ ceremony'[f] \notin Entries
      BY <3>1, SpecialEntries
    <3>3. \A f \in Flows \ L : /\ ceremony[f] \in Entries <=> ceremony'[f] \in Entries
                               /\ ceremony[f] \in Entries => ceremony'[f].expires = ceremony[f].expires
      BY <3>1, SpecialEntries
    <3>4. L \in SUBSET Flows
      OBVIOUS
    <3> HIDE DEF L
    <3> QED BY <1>2, <3>1, <3>2, <3>3, <3>4, LosingStep
  <2> QED BY <2>1, <2>2
<1>3. ASSUME NEW f \in Flows, AttachRecovery(f)
      PROVE  CeremonyTokens!OneTimeNext
  <2>1. f \in attaching /\ ceremony' = [ceremony EXCEPT ![f] = Attached(f)] /\ UNCHANGED <<begun, finished>>
    BY <1>3 DEF AttachRecovery
  <2>2. \A g \in Flows : ceremony'[g] = IF g = f THEN Attached(f) ELSE ceremony[g]
    BY <2>1 DEF CeremonyInvariant
  <2>3. /\ ceremony[f] \in Entries <=> Attached(f) \in Entries
        /\ ceremony[f] \in Entries => Attached(f).expires = ceremony[f].expires
    <3>1. CASE ceremony[f] = NoCeremony
      BY <3>1, SpecialEntries DEF Attached
    <3>2. ceremony[f] # ZeroCeremony
      BY <2>1 DEF CeremonyInvariant
    <3>3. CASE ceremony[f] \in Entries
      BY Zenon, <3>3, SpecialEntries DEF Attached, Entries
    <3> QED BY <3>1, <3>2, <3>3 DEF CeremonyInvariant
  <2>4. \A g \in Flows \ {} : /\ ceremony[g] \in Entries <=> ceremony'[g] \in Entries
                              /\ ceremony[g] \in Entries => ceremony'[g].expires = ceremony[g].expires
    BY <2>2, <2>3
  <2> DEFINE L == {}
  <2>5. L \in SUBSET Flows /\ \A g \in L : ceremony[g] \in Entries /\ ceremony'[g] \notin Entries
    OBVIOUS
  <2>6. \A g \in Flows \ L : /\ ceremony[g] \in Entries <=> ceremony'[g] \in Entries
                             /\ ceremony[g] \in Entries => ceremony'[g].expires = ceremony[g].expires
    BY <2>4
  <2> HIDE DEF L
  <2> QED BY <2>1, <2>5, <2>6, LosingStep
<1>4. ASSUME RestartCeremonies
      PROVE  CeremonyTokens!OneTimeNext
  <2> DEFINE L == {f \in Flows : ceremony[f] \in Entries}
  <2>1. begun' = begun /\ finished' = finished /\ \A f \in Flows : ceremony'[f] = NoCeremony
    BY <1>4 DEF RestartCeremonies
  <2>2. L \in SUBSET Flows /\ \A f \in L : ceremony[f] \in Entries /\ ceremony'[f] \notin Entries
    BY <2>1, SpecialEntries
  <2>3. \A f \in Flows \ L : /\ ceremony[f] \in Entries <=> ceremony'[f] \in Entries
                             /\ ceremony[f] \in Entries => ceremony'[f].expires = ceremony[f].expires
    BY <2>1, SpecialEntries
  <2> HIDE DEF L
  <2> QED BY <2>1, <2>2, <2>3, LosingStep
<1>5. ASSUME NEW at \in Instants, NEW k \in CeremonyKinds, BeginCeremony(k, at)
      PROVE  CeremonyTokens!OneTimeNext
  BY <1>2, <1>5 DEF BeginCeremony, Kinds
<1>6. ASSUME NEW at \in Instants, BeginRecoveryCeremony(at)
      PROVE  CeremonyTokens!OneTimeNext
  BY <1>2, <1>6 DEF BeginRecoveryCeremony, Kinds
<1>7. ASSUME NEW at \in Instants, NEW f \in Flows, NEW k \in Kinds, takeCeremony(f, k, at)
      PROVE  CeremonyTokens!OneTimeNext
  BY <1>7, TakingStep
<1> QED BY <1>1, <1>3, <1>4, <1>5, <1>6, <1>7 DEF CeremoniesNext, Kinds

\* The invariant holds of every behaviour of the store.
LEMMA CeremonyInvariantHolds == CeremoniesSpec => []CeremonyInvariant
<1>1. now = 0 /\ CeremoniesInit => CeremonyInvariant
  BY CeremonyAssumption DEF CeremoniesInit, CeremonyInvariant
<1>2. CeremonyInvariant /\ [CeremoniesNext]_<<now, ceremonyVars>> => CeremonyInvariant'
  BY CeremonyStep
<1> QED BY <1>1, <1>2, PTL DEF CeremoniesSpec

\* challengeStore keeps one-time tokens: a ceremony is finished at most once,
\* in time, and none comes back, although put drops expired entries, recovery
\* codes are attached late and restarts empty the store.
THEOREM CeremoniesImplementOneTime == CeremoniesSpec => CeremoniesOneTime
<1>1. now = 0 /\ CeremoniesInit => CeremonyTokens!OneTimeInit
  <2> SUFFICES ASSUME now = 0, CeremoniesInit PROVE CeremonyTokens!OneTimeInit
    OBVIOUS
  <2>1. \A f \in Flows : f > begun
    BY DEF CeremoniesInit, Flows
  <2>2. CeremonyToken = [f \in Flows |-> "unused"]
    BY <2>1 DEF CeremonyToken
  <2>3. CeremonyDeadline = [f \in Flows |-> -1]
    BY SpecialEntries DEF CeremonyDeadline, CeremoniesInit
  <2>4. CeremonyRedeemed = [f \in Flows |-> 0]
    BY DEF CeremonyRedeemed, CeremoniesInit
  <2> QED BY <2>2, <2>3, <2>4 DEF CeremonyTokens!OneTimeInit
<1>2. CeremonyInvariant /\ CeremonyInvariant' /\ [CeremoniesNext]_<<now, ceremonyVars>>
         => [CeremonyTokens!OneTimeNext]_CeremonyTokens!oneTimeVars
  BY RefinementStep
<1> QED BY <1>1, <1>2, CeremonyInvariantHolds, PTL
      DEF CeremoniesSpec, CeremoniesOneTime, CeremonyTokens!OneTimeSpec

-----------------------------------------------------------------------------
(* Keys and their handoff codes                                            *)

Handoffs == [key : ApiKeys, expires : Nat]
Visits == [step : {"session", "key", "secret", "given"}, asks : BOOLEAN, key : ApiKeys, at : Nat,
           out : BOOLEAN, gone : BOOLEAN]

\* Codes that were not issued have left no trace, and a tab read its instant in
\* the past.
HandoffInvariant ==
    /\ now \in Nat /\ codes \in Nat /\ codes <= MaxCodes
    /\ handoff \in [HandoffCodes -> Handoffs \cup {NoEntry}]
    /\ uses \in [HandoffCodes -> Nat]
    /\ visit \in [Tabs -> Visits \cup {NoVisit}]
    /\ \A c \in HandoffCodes : c > codes => handoff[c] = NoEntry
    /\ \A t \in Tabs : visit[t] \in Visits => visit[t].at <= now

-----------------------------------------------------------------------------
\* The empty entry and the absent visit are neither entry nor visit.
LEMMA EmptyRows ==
    /\ NoEntry \notin Handoffs /\ NoEntry.expires = -1
    /\ NoVisit.step = "none"
BY DEF NoEntry, Handoffs, Never, NoVisit

\* A visit that is under way has been given its fields.
LEMMA UnderWay ==
    ASSUME HandoffInvariant, NEW t \in Tabs, NEW step \in {"session", "key", "secret"}, Visiting(t, step)
    PROVE  visit[t] \in Visits /\ visit[t].at \in Nat /\ visit[t].at <= now /\ visit[t].key \in ApiKeys
<1>1. visit[t] \in Visits \cup {NoVisit} /\ visit[t].step = step
  BY DEF HandoffInvariant, Visiting
<1>2. visit[t] \in Visits
  BY <1>1, EmptyRows
<1> QED BY <1>2 DEF HandoffInvariant, Visits

\* Moving a visit on keeps what it read.
LEMMA GoesStep ==
    ASSUME HandoffInvariant, NEW t \in Tabs, visit[t] \in Visits, NEW step \in {"key", "secret", "given"},
           Goes(t, step) \/ Leave(t), UNCHANGED now
    PROVE  /\ visit' \in [Tabs -> Visits \cup {NoVisit}]
           /\ \A u \in Tabs : visit'[u] \in Visits => visit'[u].at <= now'
<1>1. CASE Goes(t, step)
  <2>1. visit' = [visit EXCEPT ![t] = [visit[t] EXCEPT !.step = step]]
    BY <1>1 DEF Goes, HandoffInvariant
  <2>2. [visit[t] EXCEPT !.step = step] \in Visits /\ [visit[t] EXCEPT !.step = step].at = visit[t].at
    BY DEF Visits
  <2> QED BY <2>1, <2>2 DEF HandoffInvariant
<1>2. CASE Leave(t)
  <2>1. NoVisit \notin Visits
    BY EmptyRows DEF Visits
  <2>2. \A u \in Tabs : visit'[u] = IF u = t THEN NoVisit ELSE visit[u]
    BY <1>2 DEF Leave, HandoffInvariant
  <2>3. visit' \in [Tabs -> Visits \cup {NoVisit}]
    BY <1>2 DEF Leave, HandoffInvariant
  <2> QED BY <2>1, <2>2, <2>3 DEF HandoffInvariant
<1> QED BY <1>1, <1>2

\* What issue does to the entries.
LEMMA IssueStep ==
    ASSUME HandoffInvariant, NEW k \in ApiKeys, NEW at \in Nat, at <= now, issue(k, at)
    PROVE  /\ codes' \in Nat /\ codes' <= MaxCodes /\ uses' = uses
           /\ handoff' \in [HandoffCodes -> Handoffs \cup {NoEntry}]
           /\ \A c \in HandoffCodes : c > codes' => handoff'[c] = NoEntry
           /\ HandoffTokens!OneTimeNext
<1> DEFINE n == codes + 1
           L == {c \in HandoffCodes : handoff[c] \in Handoffs /\ c \in Expired(at)}
           fresh == [key |-> k, expires |-> at + HandoffTTL]
           kept == [c \in HandoffCodes |-> IF c \in Expired(at) THEN NoEntry ELSE handoff[c]]
<1>1. /\ codes \in Nat /\ now \in Nat /\ HandoffTTL \in Nat /\ MaxCodes \in Nat
      /\ \A c \in HandoffCodes : c \in Nat
  BY KeyAssumption DEF HandoffInvariant, HandoffCodes
<1>2. /\ handoff \in [HandoffCodes -> Handoffs \cup {NoEntry}]
      /\ \A c \in HandoffCodes : c > codes => handoff[c] = NoEntry
  BY DEF HandoffInvariant
<1>3. kept \in [HandoffCodes -> Handoffs \cup {NoEntry}] /\ \A c \in HandoffCodes : c > codes => kept[c] = NoEntry
  BY <1>2
<1>4. \A c \in HandoffCodes : kept[c] = IF c \in L THEN NoEntry ELSE handoff[c]
  BY <1>2
<1>5. fresh \in Handoffs /\ fresh.expires = at + HandoffTTL
  BY <1>1 DEF Handoffs
<1>6. L \in SUBSET HandoffTokens!LiveTokens
  <2>1. \A c \in L : c \in HandoffCodes /\ handoff[c] # NoEntry /\ ~(c > codes)
    BY <1>2, EmptyRows
  <2> QED BY <2>1 DEF HandoffTokens!LiveTokens, HandoffToken
<1>7. CASE RoomForHandoff(at)
  <2>1. codes < MaxCodes /\ codes' = n /\ handoff' = [kept EXCEPT ![n] = fresh] /\ uses' = uses
    BY <1>7 DEF issue
  <2>2. n \in HandoffCodes
    BY <1>1, <2>1 DEF HandoffCodes
  <2>3. handoff' \in [HandoffCodes -> Handoffs \cup {NoEntry}]
    BY Zenon, <1>3, <1>5, <2>1
  <2>4. \A c \in HandoffCodes : handoff'[c] = IF c = n THEN fresh ELSE IF c \in L THEN NoEntry ELSE handoff[c]
    BY Zenon, <1>3, <1>4, <2>1
  <2>5. \A c \in HandoffCodes : (c > codes' => c > codes /\ c # n) /\ (c # n => (c > codes' <=> c > codes))
    BY <1>1, <2>1
  <2>6. ~(n > codes') /\ n > codes
    BY <1>1, <2>1
  <2>7. codes' \in Nat /\ codes' <= MaxCodes
    BY <1>1, <2>1
  <2>8. HandoffToken' = [c \in HandoffCodes |-> HandoffToken'[c]] /\ HandoffDeadline' = [c \in HandoffCodes |-> HandoffDeadline'[c]]
    BY DEF HandoffToken, HandoffDeadline
  <2>9. \A c \in L : ~(c > codes) /\ c # n
    <3>1. \A c \in L : c \in HandoffCodes /\ handoff[c] # NoEntry
      BY EmptyRows
    <3> QED BY <1>2, <2>6, <3>1
  <2> HIDE DEF n, L, fresh, kept
  <2>10. \A c \in HandoffCodes : HandoffToken'[c] = IF c = n THEN "live" ELSE IF c \in L THEN "gone" ELSE HandoffToken[c]
    <3> SUFFICES ASSUME NEW c \in HandoffCodes
                 PROVE  HandoffToken'[c] = IF c = n THEN "live" ELSE IF c \in L THEN "gone" ELSE HandoffToken[c]
      OBVIOUS
    <3>1. HandoffToken'[c] = IF c > codes' THEN "unused" ELSE IF handoff'[c] = NoEntry THEN "gone" ELSE "live"
      BY DEF HandoffToken
    <3>2. HandoffToken[c] = IF c > codes THEN "unused" ELSE IF handoff[c] = NoEntry THEN "gone" ELSE "live"
      BY DEF HandoffToken
    <3>3. CASE c = n
      BY <1>5, <2>4, <2>6, <3>1, <3>3, EmptyRows
    <3>4. CASE c # n
      BY <2>4, <2>5, <2>9, <3>1, <3>2, <3>4
    <3> QED BY <3>3, <3>4
  <2>11. \A c \in HandoffCodes : HandoffDeadline'[c] = IF c = n THEN at + HandoffTTL ELSE IF c \in L THEN -1 ELSE HandoffDeadline[c]
    BY <1>5, <2>4, EmptyRows DEF HandoffDeadline
  <2>12. HandoffToken' = [HandoffTokens!Without(L, HandoffToken, "gone") EXCEPT ![n] = "live"]
    BY <2>2, <2>8, <2>10 DEF HandoffTokens!Without
  <2>13. HandoffDeadline' = [HandoffTokens!Without(L, HandoffDeadline, -1) EXCEPT ![n] = HandoffDeadline'[n]]
    BY <2>2, <2>8, <2>11 DEF HandoffTokens!Without
  <2>14. HandoffDeadline'[n] \in 0..(now + HandoffTTL)
    BY <1>1, <2>2, <2>11
  <2>15. HandoffToken[n] = "unused"
    BY <2>2, <2>6 DEF HandoffToken
  <2>16. HandoffTokens!IssueToken(n, L)
    BY <2>1, <2>12, <2>13, <2>14, <2>15 DEF HandoffTokens!IssueToken
  <2>17. HandoffTokens!OneTimeNext
    BY <1>6, <2>2, <2>16 DEF HandoffTokens!OneTimeNext
  <2>18. \A c \in HandoffCodes : c > codes' => handoff'[c] = NoEntry
    BY <1>2, <2>4, <2>5
  <2> QED BY Zenon, <2>1, <2>3, <2>7, <2>17, <2>18
<1>8. CASE ~RoomForHandoff(at)
  <2>1. codes' = codes /\ handoff' = kept /\ uses' = uses
    BY <1>8 DEF issue
  <2>2. \A c \in L : ~(c > codes)
    <3>1. \A c \in L : c \in HandoffCodes /\ handoff[c] # NoEntry
      BY EmptyRows
    <3> QED BY <1>2, <3>1
  <2> HIDE DEF n, L, fresh, kept
  <2>3. HandoffToken' = HandoffTokens!Without(L, HandoffToken, "gone")
    BY <1>4, <2>1, <2>2 DEF HandoffTokens!Without, HandoffToken
  <2>4. HandoffDeadline' = HandoffTokens!Without(L, HandoffDeadline, -1)
    BY <1>4, <2>1, EmptyRows DEF HandoffTokens!Without, HandoffDeadline
  <2>5. HandoffTokens!OneTimeNext
    BY <1>6, <2>1, <2>3, <2>4 DEF HandoffTokens!OneTimeNext, HandoffTokens!LoseTokens
  <2> QED BY <1>1, <1>3, <2>1, <2>5 DEF HandoffInvariant
<1> QED BY <1>7, <1>8

\* What consume does: a code that is still valid is redeemed, an expired one is
\* lost, one that is gone stays gone.
LEMMA ConsumeStep ==
    ASSUME HandoffInvariant, NEW c \in HandoffCodes, NEW at \in Instants, consume(c, at)
    PROVE  /\ codes' = codes /\ uses' \in [HandoffCodes -> Nat]
           /\ handoff' \in [HandoffCodes -> Handoffs \cup {NoEntry}]
           /\ \A d \in HandoffCodes : d > codes' => handoff'[d] = NoEntry
           /\ [HandoffTokens!OneTimeNext]_HandoffTokens!oneTimeVars
<1>1. /\ handoff' = [handoff EXCEPT ![c] = NoEntry] /\ codes' = codes
      /\ uses' = IF handoff[c].expires > at THEN [uses EXCEPT ![c] = @ + 1] ELSE uses
  BY DEF consume
<1>2. /\ handoff \in [HandoffCodes -> Handoffs \cup {NoEntry}] /\ uses \in [HandoffCodes -> Nat]
      /\ \A d \in HandoffCodes : d > codes => handoff[d] = NoEntry
  BY DEF HandoffInvariant
<1>3. at \in Nat /\ now \in Nat /\ Lag \in Nat /\ now - at <= Lag
  BY InstantsBehind, ClockAssumption DEF HandoffInvariant
<1>4. \A d \in HandoffCodes : handoff'[d] = IF d = c THEN NoEntry ELSE handoff[d]
  BY <1>1, <1>2
<1>5. handoff' \in [HandoffCodes -> Handoffs \cup {NoEntry}] /\ uses' \in [HandoffCodes -> Nat]
  BY <1>1, <1>2
<1>6. [HandoffTokens!OneTimeNext]_HandoffTokens!oneTimeVars
  <2>1. CASE handoff[c] = NoEntry
    <3>1. ~(handoff[c].expires > at)
      BY <1>3, <2>1, EmptyRows
    <3>2. handoff' = handoff /\ uses' = uses
      BY <1>1, <1>2, <2>1, <3>1
    <3> QED BY <1>1, <3>2 DEF HandoffTokens!oneTimeVars, HandoffToken, HandoffDeadline
  <2>2. CASE handoff[c] \in Handoffs
    <3>1. handoff[c] # NoEntry /\ ~(c > codes) /\ handoff[c].expires \in Nat
      BY <1>2, <2>2, EmptyRows DEF Handoffs
    <3>2. HandoffToken[c] = "live" /\ HandoffDeadline[c] = handoff[c].expires
      BY <3>1 DEF HandoffToken, HandoffDeadline
    <3>3. HandoffToken' = [HandoffToken EXCEPT ![c] = "gone"]
      BY Zenon, <1>1, <1>4, <3>1 DEF HandoffToken
    <3>4. HandoffDeadline' = [HandoffDeadline EXCEPT ![c] = -1]
      BY Zenon, <1>4, EmptyRows DEF HandoffDeadline
    <3>5. CASE handoff[c].expires > at
      <4>1. uses' = [uses EXCEPT ![c] = @ + 1]
        BY <1>1, <3>5
      <4>2. HandoffDeadline[c] > now - Lag
        BY <1>3, <3>1, <3>2, <3>5
      <4>3. HandoffTokens!RedeemToken(c)
        BY <3>2, <3>3, <3>4, <4>1, <4>2 DEF HandoffTokens!RedeemToken
      <4> QED BY <4>3 DEF HandoffTokens!OneTimeNext
    <3>6. CASE ~(handoff[c].expires > at)
      <4>1. uses' = uses
        BY <1>1, <3>6
      <4>2. /\ HandoffToken' = HandoffTokens!Without({c}, HandoffToken, "gone")
            /\ HandoffDeadline' = HandoffTokens!Without({c}, HandoffDeadline, -1)
        BY Zenon, <3>3, <3>4 DEF HandoffTokens!Without, HandoffToken, HandoffDeadline
      <4>3. {c} \in SUBSET HandoffTokens!LiveTokens
        BY <3>2 DEF HandoffTokens!LiveTokens
      <4>4. HandoffTokens!LoseTokens({c})
        BY <4>1, <4>2 DEF HandoffTokens!LoseTokens
      <4> QED BY <4>3, <4>4 DEF HandoffTokens!OneTimeNext
    <3> QED BY <3>5, <3>6
  <2> QED BY <1>2, <2>1, <2>2
<1> QED BY <1>1, <1>2, <1>4, <1>5, <1>6

\* A restart loses every code.
LEMMA RestartStep ==
    ASSUME HandoffInvariant, RestartHandoffs, UNCHANGED now
    PROVE  HandoffInvariant' /\ HandoffTokens!OneTimeNext
<1> DEFINE L == HandoffTokens!LiveTokens
<1>1. /\ handoff' = [c \in HandoffCodes |-> NoEntry] /\ UNCHANGED <<codes, uses>>
      /\ visit' = [t \in Tabs |-> IF visit[t].step = "given" THEN visit[t] ELSE NoVisit]
  BY DEF RestartHandoffs
<1>2. NoVisit \notin Visits
  BY EmptyRows DEF Visits
<1>3. HandoffInvariant'
  BY <1>1, <1>2 DEF HandoffInvariant
<1>4. HandoffToken' = HandoffTokens!Without(L, HandoffToken, "gone")
  BY <1>1 DEF HandoffToken, HandoffTokens!Without, HandoffTokens!LiveTokens
<1>5. \A c \in HandoffCodes : c \notin L => HandoffDeadline[c] = -1
  BY EmptyRows DEF HandoffTokens!LiveTokens, HandoffToken, HandoffDeadline, HandoffInvariant
<1>6. HandoffDeadline' = HandoffTokens!Without(L, HandoffDeadline, -1)
  <2>1. \A c \in HandoffCodes : HandoffDeadline'[c] = -1
    BY <1>1, EmptyRows DEF HandoffDeadline
  <2>2. HandoffDeadline' = [c \in HandoffCodes |-> HandoffDeadline'[c]]
    BY DEF HandoffDeadline
  <2> HIDE DEF L
  <2> QED BY Zenon, <1>5, <2>1, <2>2 DEF HandoffTokens!Without
<1>7. HandoffTokens!LoseTokens(L)
  BY <1>1, <1>4, <1>6 DEF HandoffTokens!LoseTokens
<1> QED BY <1>3, <1>7 DEF HandoffTokens!OneTimeNext

\* Steps that change neither codes nor visits keep the invariant and the tokens.
LEMMA QuietStep ==
    ASSUME HandoffInvariant, UNCHANGED <<handoffVars, visit>>, now' \in Nat, now <= now'
    PROVE  HandoffInvariant' /\ UNCHANGED HandoffTokens!oneTimeVars
<1>1. UNCHANGED <<handoff, codes, uses, visit>>
  BY Zenon DEF handoffVars
<1>2. \A t \in Tabs : visit'[t] \in Visits => visit'[t].at <= now'
  <2>1. \A t \in Tabs : visit[t] \in Visits => visit[t].at \in Nat /\ visit[t].at <= now
    BY DEF HandoffInvariant, Visits
  <2>2. now \in Nat
    BY DEF HandoffInvariant
  <2> QED BY <1>1, <2>1, <2>2
<1> QED BY <1>1, <1>2 DEF HandoffInvariant, HandoffTokens!oneTimeVars, HandoffToken, HandoffDeadline

\* The steps of a tab.
LEMMA VisitingStep ==
    ASSUME HandoffInvariant, NEW t \in Tabs, VisitStep(t), UNCHANGED now
    PROVE  HandoffInvariant' /\ [HandoffTokens!OneTimeNext]_HandoffTokens!oneTimeVars
<1> DEFINE Kept == UNCHANGED handoffVars
<1>1. ASSUME Kept, visit' \in [Tabs -> Visits \cup {NoVisit}],
             \A u \in Tabs : visit'[u] \in Visits => visit'[u].at <= now'
      PROVE  HandoffInvariant' /\ [HandoffTokens!OneTimeNext]_HandoffTokens!oneTimeVars
  <2>1. UNCHANGED <<handoff, codes, uses>>
    BY <1>1 DEF handoffVars
  <2>2. UNCHANGED HandoffTokens!oneTimeVars
    BY <2>1 DEF HandoffTokens!oneTimeVars, HandoffToken, HandoffDeadline
  <2> QED BY <1>1, <2>1, <2>2 DEF HandoffInvariant
<1>2. ASSUME NEW k \in ApiKeys, createBrowserHandoff(t, k)
      PROVE  HandoffInvariant' /\ [HandoffTokens!OneTimeNext]_HandoffTokens!oneTimeVars
  <2> DEFINE asked == [step |-> "session", asks |-> TRUE, key |-> k, at |-> now, out |-> FALSE, gone |-> FALSE]
  <2>1. visit' = [visit EXCEPT ![t] = asked] /\ Kept
    BY <1>2 DEF createBrowserHandoff
  <2>2. asked \in Visits /\ asked.at = now /\ now \in Nat
    BY DEF Visits, HandoffInvariant
  <2> HIDE DEF asked
  <2>3. visit' \in [Tabs -> Visits \cup {NoVisit}]
    BY <2>1, <2>2 DEF HandoffInvariant
  <2>4. \A u \in Tabs : visit'[u] = IF u = t THEN asked ELSE visit[u]
    BY <2>1 DEF HandoffInvariant
  <2>5. \A u \in Tabs : visit'[u] \in Visits => visit'[u].at <= now'
    BY <2>2, <2>4 DEF HandoffInvariant
  <2> QED BY <1>1, <2>1, <2>3, <2>5
<1>3. ASSUME NEW c \in HandoffCodes, NEW at \in Instants, exchangeBrowserHandoff(t, c, at)
      PROVE  HandoffInvariant' /\ [HandoffTokens!OneTimeNext]_HandoffTokens!oneTimeVars
  <2> DEFINE opened == [step |-> "session", asks |-> FALSE, key |-> handoff[c].key, at |-> now,
                        out |-> browser = "out", gone |-> apiKey[handoff[c].key] = NoKey]
             next == IF handoff[c].expires > at THEN opened ELSE NoVisit
  <2>1. consume(c, at) /\ visit' = [visit EXCEPT ![t] = next]
    BY Zenon, <1>3 DEF exchangeBrowserHandoff
  <2>2. handoff[c].expires > at => handoff[c].key \in ApiKeys
    <3>1. at \in Nat
      BY InstantsBehind DEF HandoffInvariant
    <3>2. handoff[c] \in Handoffs \cup {NoEntry}
      BY DEF HandoffInvariant
    <3> QED BY <3>1, <3>2, EmptyRows DEF Handoffs
  <2>3. next \in Visits \cup {NoVisit} /\ (next \in Visits => next.at = now)
    <3>1. CASE handoff[c].expires > at
      <4>1. now \in Nat /\ handoff[c].key \in ApiKeys
        BY Zenon, <2>2, <3>1 DEF HandoffInvariant
      <4>2. opened \in Visits /\ opened.at = now
        BY Zenon, <4>1 DEF Visits
      <4> QED BY Zenon, <3>1, <4>2
    <3>2. CASE ~(handoff[c].expires > at)
      <4>1. NoVisit \notin Visits
        BY EmptyRows DEF Visits
      <4> QED BY Zenon, <3>2, <4>1
    <3> QED BY Zenon, <3>1, <3>2
  <2> HIDE DEF next
  <2>4. visit' \in [Tabs -> Visits \cup {NoVisit}]
    BY <2>1, <2>3 DEF HandoffInvariant
  <2>5. \A u \in Tabs : visit'[u] = IF u = t THEN next ELSE visit[u]
    BY <2>1 DEF HandoffInvariant
  <2>6. \A u \in Tabs : visit'[u] \in Visits => visit'[u].at <= now'
    BY <2>3, <2>5 DEF HandoffInvariant
  <2>7. /\ codes' = codes /\ uses' \in [HandoffCodes -> Nat]
        /\ handoff' \in [HandoffCodes -> Handoffs \cup {NoEntry}]
        /\ \A d \in HandoffCodes : d > codes' => handoff'[d] = NoEntry
        /\ [HandoffTokens!OneTimeNext]_HandoffTokens!oneTimeVars
    BY <2>1, ConsumeStep
  <2> QED BY ZenonT(30), <2>4, <2>6, <2>7 DEF HandoffInvariant
<1>4. ASSUME ReadSession(t) \/ ReadKey(t)
      PROVE  HandoffInvariant' /\ [HandoffTokens!OneTimeNext]_HandoffTokens!oneTimeVars
  <2>1. PICK from \in {"session", "key", "secret"}, to \in {"key", "secret", "given"} :
           Visiting(t, from) /\ (Goes(t, to) \/ Leave(t)) /\ Kept
    BY Zenon, <1>4 DEF ReadSession, ReadKey
  <2>2. visit[t] \in Visits
    BY ZenonT(30), <2>1, UnderWay
  <2>3. /\ visit' \in [Tabs -> Visits \cup {NoVisit}]
        /\ \A u \in Tabs : visit'[u] \in Visits => visit'[u].at <= now'
    BY <2>1, <2>2, GoesStep
  <2> QED BY <1>1, <2>1, <2>3
<1>5. ASSUME ReadSecret(t)
      PROVE  HandoffInvariant' /\ [HandoffTokens!OneTimeNext]_HandoffTokens!oneTimeVars
  <2>1. Visiting(t, "secret") /\ (Goes(t, "given") \/ Leave(t)) /\ (Kept \/ issue(visit[t].key, visit[t].at))
    BY Zenon, <1>5 DEF ReadSecret
  <2>2. visit[t] \in Visits /\ visit[t].at \in Nat /\ visit[t].at <= now /\ visit[t].key \in ApiKeys
    BY ZenonT(30), <2>1, UnderWay
  <2>3. /\ visit' \in [Tabs -> Visits \cup {NoVisit}]
        /\ \A u \in Tabs : visit'[u] \in Visits => visit'[u].at <= now'
    BY <2>1, <2>2, GoesStep
  <2>4. CASE Kept
    BY Zenon, <1>1, <2>3, <2>4
  <2>5. CASE issue(visit[t].key, visit[t].at)
    <3>1. /\ codes' \in Nat /\ codes' <= MaxCodes /\ uses' = uses
          /\ handoff' \in [HandoffCodes -> Handoffs \cup {NoEntry}]
          /\ \A c \in HandoffCodes : c > codes' => handoff'[c] = NoEntry
          /\ HandoffTokens!OneTimeNext
      BY <2>2, <2>5, IssueStep
    <3> QED BY ZenonT(30), <2>3, <3>1 DEF HandoffInvariant
  <2> QED BY Zenon, <2>1, <2>4, <2>5
<1> QED BY <1>2, <1>3, <1>4, <1>5 DEF VisitStep

\* Every step keeps the invariant and is a step of the tokens or none.
LEMMA HandoffStep ==
    ASSUME HandoffInvariant, [KeysNext]_<<now, keyVars>>
    PROVE  HandoffInvariant' /\ [HandoffTokens!OneTimeNext]_HandoffTokens!oneTimeVars
<1>1. now \in Nat
  BY DEF HandoffInvariant
<1>2. CASE UNCHANGED <<now, keyVars>>
  BY <1>1, <1>2, QuietStep DEF keyVars, handoffVars
<1>3. CASE KeysTick
  BY <1>1, <1>3, QuietStep DEF KeysTick, keyVars, handoffVars
<1>4. ASSUME UNCHANGED now, NEW k \in ApiKeys, KeyStep(k)
      PROVE  HandoffInvariant' /\ UNCHANGED HandoffTokens!oneTimeVars
  <2>1. UNCHANGED <<handoffVars, visit>>
    BY <1>4 DEF KeyStep, createAPIKey, CreateAPIKey, setAPIKeyStatus, SetAPIKeyStatus, deleteAPIKey,
                DeleteAPIKey, requireAPIKey
  <2> QED BY <1>1, <1>4, <2>1, QuietStep
<1>5. ASSUME UNCHANGED now, NEW c \in Calls, RecordAPIKeyUse(c)
      PROVE  HandoffInvariant' /\ UNCHANGED HandoffTokens!oneTimeVars
  BY <1>1, <1>5, QuietStep DEF RecordAPIKeyUse
<1>6. ASSUME UNCHANGED now, NEW b, SessionTurns(b)
      PROVE  HandoffInvariant' /\ UNCHANGED HandoffTokens!oneTimeVars
  BY <1>1, <1>6, QuietStep DEF SessionTurns
<1> QED BY <1>2, <1>3, <1>4, <1>5, <1>6, VisitingStep, RestartStep DEF KeysNext

\* browserHandoffStore keeps one-time tokens: a code is redeemed at most once,
\* before its deadline, and none comes back, although issue drops expired codes
\* while it adds one, tabs race for a code and restarts empty the store.
THEOREM HandoffsImplementOneTime == KeysSpec => HandoffsOneTime
<1>1. now = 0 /\ KeysInit => HandoffInvariant
  BY KeyAssumption, EmptyRows DEF KeysInit, HandoffInvariant, Visits
<1>2. now = 0 /\ KeysInit => HandoffTokens!OneTimeInit
  <2> SUFFICES ASSUME now = 0, KeysInit PROVE HandoffTokens!OneTimeInit
    OBVIOUS
  <2>1. \A c \in HandoffCodes : c > codes
    BY DEF KeysInit, HandoffCodes
  <2>2. HandoffToken = [c \in HandoffCodes |-> "unused"]
    BY <2>1 DEF HandoffToken
  <2>3. HandoffDeadline = [c \in HandoffCodes |-> -1]
    BY EmptyRows DEF HandoffDeadline, KeysInit
  <2> QED BY <2>2, <2>3 DEF HandoffTokens!OneTimeInit, KeysInit
<1>3. HandoffInvariant /\ [KeysNext]_<<now, keyVars>>
         => HandoffInvariant' /\ [HandoffTokens!OneTimeNext]_HandoffTokens!oneTimeVars
  BY HandoffStep
<1> QED BY <1>1, <1>2, <1>3, PTL DEF KeysSpec, HandoffsOneTime, HandoffTokens!OneTimeSpec

-----------------------------------------------------------------------------
\* A key and a call that is served both have a row in the history: neither
\* deleting nor switching a key touches it.
UseInvariant ==
    /\ apiKey = [k \in ApiKeys |-> apiKey[k]]
    /\ \A k \in ApiKeys : apiKey[k] # NoKey => k \in keyHistory
    /\ call = [c \in Calls |-> call[c]]
    /\ \A c \in Calls : /\ call[c].step \in {"none", "serving"}
                        /\ call[c].step = "serving" => call[c].key \in keyHistory

\* The history only grows, so calls keep their row.
LEMMA UseStep ==
    ASSUME UseInvariant, [KeysNext]_<<now, keyVars>>
    PROVE  UseInvariant'
<1>1. ASSUME UNCHANGED <<apiKey, keyHistory, call>>
      PROVE  UseInvariant'
  BY <1>1 DEF UseInvariant
<1>2. ASSUME NEW k \in ApiKeys, NEW at, CreateAPIKey(k, at)
      PROVE  UseInvariant'
  BY <1>2 DEF CreateAPIKey, UseInvariant
<1>3. ASSUME NEW k \in ApiKeys, NEW at, NEW s, SetAPIKeyStatus(k, s, at)
      PROVE  UseInvariant'
  BY <1>3 DEF SetAPIKeyStatus, UseInvariant, NoKey
<1>4. ASSUME NEW k \in ApiKeys, DeleteAPIKey(k)
      PROVE  UseInvariant'
  BY Zenon, <1>4 DEF DeleteAPIKey, UseInvariant, NoKey
<1>5. ASSUME NEW k \in ApiKeys, NEW c \in Calls, requireAPIKey(c, k)
      PROVE  UseInvariant'
  BY <1>5 DEF requireAPIKey, KeyUsable, UseInvariant, NoKey
<1>6. ASSUME NEW c \in Calls, RecordAPIKeyUse(c)
      PROVE  UseInvariant'
  <2>1. call' = [call EXCEPT ![c] = NoCall] /\ UNCHANGED <<apiKey, keyHistory>>
    BY Zenon, <1>6 DEF RecordAPIKeyUse, UseInvariant
  <2> QED BY <2>1 DEF UseInvariant, NoCall
<1>7. ASSUME NEW k \in ApiKeys, KeyStep(k)
      PROVE  UseInvariant'
  BY <1>2, <1>3, <1>4, <1>5, <1>7 DEF KeyStep, createAPIKey, setAPIKeyStatus, deleteAPIKey
<1>8. ASSUME NEW t \in Tabs, VisitStep(t)
      PROVE  UseInvariant'
  BY Zenon, <1>1, <1>8 DEF VisitStep, createBrowserHandoff, exchangeBrowserHandoff, ReadSession, ReadKey,
                    ReadSecret, resourceVars
<1>9. ASSUME KeysTick \/ RestartHandoffs \/ (\E b \in {"recent", "live", "out"} : SessionTurns(b))
             \/ UNCHANGED <<now, keyVars>>
      PROVE  UseInvariant'
  BY <1>1, <1>9 DEF KeysTick, RestartHandoffs, SessionTurns, keyVars
<1> QED BY <1>6, <1>7, <1>8, <1>9 DEF KeysNext

\* The use of a key is recorded even when the key is deleted while the call is
\* served, because RecordAPIKeyUse goes through the history, which DeleteAPIKey
\* keeps.
THEOREM UseRecordedHolds == KeysSpec => []UseRecorded
<1>1. now = 0 /\ KeysInit => UseInvariant
  BY DEF KeysInit, UseInvariant, NoKey, NoCall
<1>2. UseInvariant /\ [KeysNext]_<<now, keyVars>> => UseInvariant'
  BY UseStep
<1>3. UseInvariant => UseRecorded
  BY DEF UseInvariant, UseRecorded
<1> QED BY <1>1, <1>2, <1>3, PTL DEF KeysSpec

-----------------------------------------------------------------------------
\* What was over when a visit consumed its code is over for good, so the visit
\* ends where it reads the session, or where it reads the key.
Checked(v) ==
    v \in Visits => /\ v.out => v.step = "session" /\ browser = "out"
                    /\ v.gone => /\ v.step \in {"session", "key"}
                                 /\ apiKey[v.key] = NoKey /\ v.key \in keyHistory

StaleInvariant ==
    /\ \A c \in HandoffCodes : handoff[c] \in Handoffs => handoff[c].key \in keyHistory
    /\ \A t \in Tabs : Checked(visit[t])

\* A key that has a row was made.
LEMMA KeyMade ==
    ASSUME UseInvariant, NEW k \in ApiKeys, apiKey[k] # NoKey
    PROVE  k \in keyHistory
BY DEF UseInvariant

OverStaysOver ==
    /\ browser = "out" => browser' = "out"
    /\ keyHistory \subseteq keyHistory'
    /\ \A k \in ApiKeys : apiKey[k] = NoKey /\ k \in keyHistory => apiKey'[k] = NoKey

\* A session that ended stays ended, a key keeps its history, and a deleted key
\* is not made again.
LEMMA OverForGood ==
    ASSUME UseInvariant, [KeysNext]_<<now, keyVars>>
    PROVE  OverStaysOver
<1>1. ASSUME UNCHANGED <<apiKey, keyHistory>>, browser = "out" => browser' = "out"
      PROVE  OverStaysOver
  BY <1>1 DEF OverStaysOver
<1>2. ASSUME NEW k \in ApiKeys, NEW at, CreateAPIKey(k, at)
      PROVE  OverStaysOver
  BY <1>2 DEF CreateAPIKey, OverStaysOver, UseInvariant
<1>3. ASSUME NEW k \in ApiKeys, NEW at, NEW s, SetAPIKeyStatus(k, s, at)
      PROVE  OverStaysOver
  BY <1>3 DEF SetAPIKeyStatus, OverStaysOver, UseInvariant, NoKey
<1>4. ASSUME NEW k \in ApiKeys, DeleteAPIKey(k)
      PROVE  OverStaysOver
  BY <1>4 DEF DeleteAPIKey, OverStaysOver, UseInvariant
<1>5. ASSUME NEW k \in ApiKeys, KeyStep(k)
      PROVE  OverStaysOver
  BY <1>1, <1>2, <1>3, <1>4, <1>5 DEF KeyStep, createAPIKey, setAPIKeyStatus, deleteAPIKey, requireAPIKey
<1>6. ASSUME NEW t \in Tabs, VisitStep(t)
      PROVE  OverStaysOver
  BY Zenon, <1>1, <1>6 DEF VisitStep, createBrowserHandoff, exchangeBrowserHandoff, ReadSession, ReadKey,
                    ReadSecret, resourceVars
<1>7. ASSUME KeysTick \/ RestartHandoffs \/ (\E b \in {"recent", "live", "out"} : SessionTurns(b))
             \/ (\E c \in Calls : RecordAPIKeyUse(c)) \/ UNCHANGED <<now, keyVars>>
      PROVE  OverStaysOver
  BY <1>1, <1>7 DEF KeysTick, RestartHandoffs, SessionTurns, RecordAPIKeyUse, keyVars
<1> QED BY <1>5, <1>6, <1>7 DEF KeysNext

\* A visit that does not move stays checked.
LEMMA CheckedStays ==
    ASSUME OverStaysOver, NEW v, Checked(v)
    PROVE  Checked(v)'
BY DEF OverStaysOver, Checked, Visits

\* A visit that moves on was not stale where it was stopped.
LEMMA MovesChecked ==
    ASSUME HandoffInvariant, UseInvariant, StaleInvariant, OverStaysOver, NEW t \in Tabs,
           ReadSession(t) \/ ReadKey(t) \/ ReadSecret(t)
    PROVE  \A u \in Tabs : Checked(visit[u])'
<1> SUFFICES ASSUME NEW u \in Tabs PROVE Checked(visit[u])'
  OBVIOUS
<1>1. PICK w : w = visit'[u]
  OBVIOUS
<1>2. Checked(visit[u]) /\ Checked(visit[t])
  BY DEF StaleInvariant
<1>3. visit = [x \in Tabs |-> visit[x]]
  BY Zenon DEF HandoffInvariant
<1>4. CASE w = visit[u]
  BY Zenon, <1>1, <1>2, <1>4 DEF Checked, OverStaysOver, Visits
<1>5. CASE w = NoVisit
  BY ZenonT(30), <1>1, <1>5, EmptyRows DEF Checked, Visits
<1>6. ASSUME NEW from \in {"session", "key", "secret"}, NEW to \in {"key", "secret", "given"},
             Visiting(t, from), Goes(t, to), w # visit[u],
             from = "session" => browser # "out", from # "session" => ~visit[t].out,
             from = "key" => apiKey[visit[t].key] # NoKey, to = "key" <=> from = "session",
             from = "secret" => ~visit[t].gone
      PROVE  Checked(w)'
  <2>1. u = t /\ w = [visit[t] EXCEPT !.step = to]
    BY ZenonT(30), <1>1, <1>3, <1>6 DEF Goes
  <2>2. visit[t] \in Visits /\ visit[t].step = from
    BY Zenon, <1>6, UnderWay DEF Visiting
  <2>3. w.out = visit[t].out /\ w.gone = visit[t].gone /\ w.key = visit[t].key /\ w.step = to
    BY Zenon, <2>1, <2>2 DEF Visits
  <2>4. ~visit[t].out
    BY Zenon, <1>2, <1>6, <2>2 DEF Checked
  <2>5. visit[t].gone => from = "session" /\ apiKey[visit[t].key] = NoKey /\ visit[t].key \in keyHistory
    BY Zenon, <1>2, <1>6, <2>2 DEF Checked
  <2>6. visit[t].key \in ApiKeys
    BY ZenonT(30), <2>2 DEF Visits
  <2> QED BY Zenon, <1>6, <2>3, <2>4, <2>5, <2>6 DEF Checked, OverStaysOver
<1>7. visit[t] \in Visits => /\ visit[t].out => visit[t].step = "session"
                             /\ visit[t].gone => visit[t].step \in {"session", "key"}
  BY Zenon, <1>2 DEF Checked
<1>8. CASE ReadSession(t)
  <2>1. Visiting(t, "session") /\ ((browser # "out" /\ Goes(t, "key")) \/ Leave(t))
    BY <1>8 DEF ReadSession, SessionAccepted
  <2> QED BY <1>1, <1>3, <1>4, <1>5, <1>6, <2>1 DEF Leave
<1>9. CASE ReadKey(t)
  <2>1. Visiting(t, "key") /\ ((apiKey[visit[t].key] # NoKey /\ Goes(t, "secret")) \/ Leave(t))
    <3>1. NoKey.status # "active"
      BY Zenon DEF NoKey
    <3>2. Visiting(t, "key") /\ ((apiKey[visit[t].key].status = "active" /\ Goes(t, "secret")) \/ Leave(t))
      BY Zenon, <1>9 DEF ReadKey, KeyUsable
    <3> QED BY <3>1, <3>2
  <2>2. ~visit[t].out
    BY Zenon, <1>7, <2>1, UnderWay DEF Visiting
  <2> QED BY ZenonT(30), <1>1, <1>3, <1>4, <1>5, <1>6, <2>1, <2>2 DEF Leave
<1>10. CASE ReadSecret(t)
  <2>1. Visiting(t, "secret") /\ (Goes(t, "given") \/ Leave(t))
    BY ZenonT(30), <1>10 DEF ReadSecret
  <2>2. ~visit[t].out /\ ~visit[t].gone
    BY <1>7, <2>1, UnderWay DEF Visiting
  <2> QED BY Zenon, <1>1, <1>3, <1>4, <1>5, <1>6, <2>1, <2>2 DEF Leave
<1> QED BY <1>8, <1>9, <1>10

\* Codes name keys that were made: issue is called with a key that was just read.
LEMMA CodesNameKeys ==
    ASSUME HandoffInvariant, UseInvariant, StaleInvariant, [KeysNext]_<<now, keyVars>>,
           NEW c \in HandoffCodes, handoff'[c] \in Handoffs
    PROVE  handoff'[c].key \in keyHistory'
<1>1. keyHistory \subseteq keyHistory'
  BY OverForGood DEF OverStaysOver
<1>2. handoff = [d \in HandoffCodes |-> handoff[d]]
  BY DEF HandoffInvariant
<1>3. CASE handoff'[c] \in {handoff[c], NoEntry}
  BY Zenon, <1>1, <1>3, EmptyRows DEF StaleInvariant
<1>4. ASSUME NEW t \in Tabs, VisitStep(t)
      PROVE  handoff'[c].key \in keyHistory'
  <2>1. CASE ReadSecret(t) /\ ~UNCHANGED handoffVars
    <3>1. Visiting(t, "secret") /\ apiKey[visit[t].key] # NoKey /\ issue(visit[t].key, visit[t].at)
          /\ keyHistory' = keyHistory
      BY Zenon, <2>1 DEF ReadSecret, resourceVars
    <3>2. visit[t].key \in ApiKeys
      BY ZenonT(30), <3>1, UnderWay
    <3>3. visit[t].key \in keyHistory
      BY Zenon, <3>1, <3>2, KeyMade
    <3>4. handoff'[c] \in {handoff[c], NoEntry, [key |-> visit[t].key, expires |-> visit[t].at + HandoffTTL]}
      BY Zenon, <1>2, <3>1 DEF issue
    <3>5. CASE handoff'[c] = [key |-> visit[t].key, expires |-> visit[t].at + HandoffTTL]
      <4>1. handoff'[c].key = visit[t].key
        BY <3>5
      <4> QED BY Zenon, <3>1, <3>3, <4>1
    <3> QED BY Zenon, <1>3, <3>4, <3>5
  <2>2. CASE handoff' = handoff
    BY Zenon, <1>3, <2>2
  <2>3. ASSUME NEW d \in HandoffCodes, NEW at \in Instants, exchangeBrowserHandoff(t, d, at)
        PROVE  handoff'[c] \in {handoff[c], NoEntry}
    BY <1>2, <2>3 DEF exchangeBrowserHandoff, consume
  <2> QED BY ZenonT(30), <1>3, <1>4, <2>1, <2>2, <2>3 DEF VisitStep, createBrowserHandoff, ReadSession, ReadKey, handoffVars
<1>5. CASE RestartHandoffs
  BY <1>3, <1>5 DEF RestartHandoffs
<1>6. ASSUME NEW k \in ApiKeys, KeyStep(k)
      PROVE  handoff' = handoff
  BY <1>6 DEF KeyStep, createAPIKey, CreateAPIKey, setAPIKeyStatus, SetAPIKeyStatus, deleteAPIKey,
              DeleteAPIKey, requireAPIKey, handoffVars
<1>7. ASSUME KeysTick \/ (\E b \in {"recent", "live", "out"} : SessionTurns(b))
             \/ (\E d \in Calls : RecordAPIKeyUse(d)) \/ UNCHANGED <<now, keyVars>>
      PROVE  handoff' = handoff
  BY <1>7 DEF KeysTick, SessionTurns, RecordAPIKeyUse, keyVars, handoffVars
<1> QED BY <1>3, <1>4, <1>5, <1>6, <1>7 DEF KeysNext

\* A code is consumed with what it finds, and what it finds over is over.
LEMMA OpensChecked ==
    ASSUME HandoffInvariant, UseInvariant, StaleInvariant, OverStaysOver, NEW t \in Tabs, VisitStep(t)
    PROVE  \A u \in Tabs : Checked(visit[u])'
<1>1. CASE ReadSession(t) \/ ReadKey(t) \/ ReadSecret(t)
  BY <1>1, MovesChecked
<1>2. visit = [x \in Tabs |-> visit[x]] /\ \A u \in Tabs : Checked(visit[u])
  BY Zenon DEF HandoffInvariant, StaleInvariant
<1>3. ASSUME NEW v, visit' = [visit EXCEPT ![t] = v], Checked(v)'
      PROVE  \A u \in Tabs : Checked(visit[u])'
  <2> SUFFICES ASSUME NEW u \in Tabs PROVE Checked(visit[u])'
    OBVIOUS
  <2>1. PICK w : w = visit'[u]
    OBVIOUS
  <2>2. w = v \/ w = visit[u]
    BY ZenonT(30), <1>2, <1>3, <2>1
  <2>3. Checked(w)'
    BY <1>2, <1>3, <2>2, CheckedStays DEF Checked, OverStaysOver, Visits
  <2> QED BY <2>1, <2>3 DEF Checked
<1>4. ASSUME NEW k \in ApiKeys, createBrowserHandoff(t, k)
      PROVE  \A u \in Tabs : Checked(visit[u])'
  <2>1. PICK v : v = [step |-> "session", asks |-> TRUE, key |-> k, at |-> now, out |-> FALSE, gone |-> FALSE]
    BY Zenon
  <2>2. visit' = [visit EXCEPT ![t] = v]
    BY Zenon, <1>4, <2>1 DEF createBrowserHandoff
  <2>3. Checked(v)'
    BY <2>1 DEF Checked
  <2> QED BY Zenon, <1>3, <2>2, <2>3
<1>5. ASSUME NEW c \in HandoffCodes, NEW at \in Instants, exchangeBrowserHandoff(t, c, at)
      PROVE  \A u \in Tabs : Checked(visit[u])'
  <2> DEFINE opened == [step |-> "session", asks |-> FALSE, key |-> handoff[c].key, at |-> now,
                        out |-> browser = "out", gone |-> apiKey[handoff[c].key] = NoKey]
  <2>1. PICK v : v = IF handoff[c].expires > at THEN opened ELSE NoVisit
    BY ZenonT(30)
  <2>2. visit' = [visit EXCEPT ![t] = v] /\ UNCHANGED <<apiKey, keyHistory, browser>>
    BY ZenonT(30), <1>5, <2>1 DEF exchangeBrowserHandoff, resourceVars
  <2>3. CASE handoff[c].expires > at
    <3>1. at \in Nat /\ handoff[c] \in Handoffs \cup {NoEntry}
      BY InstantsBehind DEF HandoffInvariant
    <3>2. handoff[c] \in Handoffs
      BY <2>3, <3>1, EmptyRows
    <3>3. handoff[c].key \in keyHistory
      BY ZenonT(30), <3>2 DEF StaleInvariant
    <3>4. /\ v.step = "session" /\ v.key = handoff[c].key
          /\ v.out = (browser = "out") /\ v.gone = (apiKey[handoff[c].key] = NoKey)
      BY Zenon, <2>1, <2>3
    <3>5. Checked(v)'
      BY Zenon, <2>2, <3>3, <3>4 DEF Checked
    <3> QED BY ZenonT(30), <1>3, <2>2, <3>5
  <2>4. CASE ~(handoff[c].expires > at)
    <3>1. Checked(v)'
      BY Zenon, <2>1, <2>4, EmptyRows DEF Checked, Visits
    <3> QED BY Zenon, <1>3, <2>2, <3>1
  <2> QED BY <2>3, <2>4
<1> QED BY <1>1, <1>4, <1>5 DEF VisitStep

\* Every step keeps the visits checked.
LEMMA StaleStep ==
    ASSUME HandoffInvariant, UseInvariant, StaleInvariant, [KeysNext]_<<now, keyVars>>
    PROVE  StaleInvariant'
<1>1. OverStaysOver
  BY OverForGood
<1>2. \A c \in HandoffCodes : handoff'[c] \in Handoffs => handoff'[c].key \in keyHistory'
  BY Zenon, CodesNameKeys
<1>3. ASSUME NEW u \in Tabs, visit'[u] \in {visit[u], NoVisit}
      PROVE  Checked(visit[u])'
  <2>1. PICK w : w = visit'[u]
    OBVIOUS
  <2>2. Checked(visit[u])
    BY Zenon DEF StaleInvariant
  <2>3. Checked(w)'
    BY <1>1, <1>3, <2>1, <2>2, EmptyRows DEF Checked, OverStaysOver, Visits
  <2> QED BY <2>1, <2>3 DEF Checked
<1>4. \A u \in Tabs : Checked(visit[u])'
  <2>1. CASE visit' = visit
    BY Zenon, <1>3, <2>1
  <2>2. CASE RestartHandoffs
    BY <1>3, <2>2 DEF RestartHandoffs
  <2>3. ASSUME NEW t \in Tabs, VisitStep(t)
        PROVE  \A u \in Tabs : Checked(visit[u])'
    BY <1>1, <2>3, OpensChecked
  <2>4. ASSUME NEW k \in ApiKeys, KeyStep(k)
        PROVE  visit' = visit
    BY <2>4 DEF KeyStep, createAPIKey, CreateAPIKey, setAPIKeyStatus, SetAPIKeyStatus, deleteAPIKey,
                DeleteAPIKey, requireAPIKey
  <2>5. ASSUME KeysTick \/ (\E b \in {"recent", "live", "out"} : SessionTurns(b))
               \/ (\E d \in Calls : RecordAPIKeyUse(d)) \/ UNCHANGED <<now, keyVars>>
        PROVE  visit' = visit
    BY <2>5 DEF KeysTick, SessionTurns, RecordAPIKeyUse, keyVars
  <2> QED BY <2>1, <2>2, <2>3, <2>4, <2>5 DEF KeysNext
<1> QED BY <1>2, <1>4 DEF StaleInvariant

\* A code that is consumed after the session ended, or after its key was
\* deleted, delivers no key: browserHandoffKey reads session, key and secret
\* again after consume, one at a time, and what was over then stays over
\* whatever happens between its reads.
THEOREM StaleCodeHolds == KeysSpec => []StaleCodeDeliversNothing
<1>1. now = 0 /\ KeysInit => HandoffInvariant /\ UseInvariant /\ StaleInvariant
  <2> SUFFICES ASSUME now = 0, KeysInit PROVE HandoffInvariant /\ UseInvariant /\ StaleInvariant
    BY Zenon
  <2>1. \A t \in Tabs : visit[t] = NoVisit
    BY Zenon DEF KeysInit
  <2>2. NoVisit \notin Visits
    BY EmptyRows DEF Visits
  <2>3. HandoffInvariant
    BY KeyAssumption, <2>1, <2>2 DEF KeysInit, HandoffInvariant
  <2>4. UseInvariant
    <3>1. NoCall.step = "none"
      BY DEF NoCall
    <3> QED BY Zenon, <3>1 DEF KeysInit, UseInvariant
  <2>5. \A c \in HandoffCodes : handoff[c] \notin Handoffs
    BY Zenon, EmptyRows DEF KeysInit
  <2>6. StaleInvariant
    BY Zenon, <2>1, <2>2, <2>5 DEF StaleInvariant, Checked
  <2> QED BY Zenon, <2>3, <2>4, <2>6
<1>2. HandoffInvariant /\ UseInvariant /\ StaleInvariant /\ [KeysNext]_<<now, keyVars>>
         => (HandoffInvariant /\ UseInvariant /\ StaleInvariant)'
  BY Zenon, HandoffStep, UseStep, StaleStep
<1>3. HandoffInvariant /\ StaleInvariant => StaleCodeDeliversNothing
  <2> SUFFICES ASSUME HandoffInvariant, StaleInvariant, NEW t \in Tabs, visit[t].step = "given"
               PROVE  ~visit[t].out /\ ~visit[t].gone
    BY DEF StaleCodeDeliversNothing, Visiting
  <2>1. visit[t] \in Visits
    BY EmptyRows DEF HandoffInvariant
  <2> QED BY <2>1 DEF StaleInvariant, Checked
<1> QED BY <1>1, <1>2, <1>3, PTL DEF KeysSpec

=============================================================================
