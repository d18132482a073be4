--------------------------- MODULE SessionsProofs ---------------------------
(***************************************************************************)
(* Proofs about Sessions, for any tabs, calls and bounds.                  *)
(*                                                                         *)
(* The argument for the tables: a call between its first look and its      *)
(* commit holds its lock, so nobody else commits and what it has looked at *)
(* is still so when it commits.  A row's current token therefore has not   *)
(* been exchanged, is no other row's, and gives way to a new one together  *)
(* with its exchange; a row that is revoked stays revoked.                 *)
(*                                                                         *)
(* The argument for the tabs: a refresh is flagged stale as soon as its    *)
(* tab is cleared, and a tab with a stale refresh or with a login during   *)
(* one is torn (KeepsOK), so that in any other tab every answer is of the  *)
(* session the tab holds.  A stale success that a connection attempt       *)
(* awaits clears the tab, which holds nothing then.  While nothing has     *)
(* exposed a session, one tab at most holds it, with its current token,    *)
(* and one refresh of it at most runs (CauseInv); a replay needs an older  *)
(* token, and who sends one was exposed before.                            *)
(*                                                                         *)
(* The refinement: LivesMove says how a step of one row shows in the       *)
(* abstract states, and one lemma for each kind of commit names the        *)
(* abstract action it is.                                                  *)
(***************************************************************************)
EXTENDS Sessions, TLAPS, SequenceTheorems

Doings == {"none", "rotate", "expired", "replay", "issue", "revoke"}

Answers == {"none", "ok", "failed", "refused", "replay", "invalid"}

Rows == [cur : Nat, prev : Nat, issued : Int, revoked : BOOLEAN,
         reason : {"none", "expired", "replay", "user"}, updated : Int]

Auths == [refresh : Nat, session : Nat, issued : Nat]

CallStates ==
    [stage : Stages, kind : Kinds, tab : Tabs \cup {NoTab}, token : Nat, sid : Nat,
     target : Nat, doing : Doings, answer : Answers, stale : BOOLEAN,
     connect : BOOLEAN, retried : BOOLEAN, on : Calls \cup {NoCall}]

TabStates == [auth : Auths, promise : Calls \cup {NoCall}, shown : BOOLEAN]

DbTypes ==
    /\ now \in 0..MaxTime
    /\ rows \in Seq(Rows) /\ Len(rows) <= MaxSessions
    /\ parent \in Seq(Nat)

CallTypes ==
    /\ lock \in [Tx -> Locks]
    /\ calls \in [Calls -> CallStates]

TabTypes ==
    /\ tabs \in [Tabs -> TabStates]
    /\ storage \in Auths
    /\ own \in [Tabs -> Nat]
    /\ torn \in SUBSET Tabs /\ exposed \in SUBSET Nat

\* A session's current token was exchanged for its previous one, has not been
\* exchanged itself and is no other session's.
RowsOK ==
    /\ \A j \in DOMAIN parent : parent[j] < j
    /\ \A i \in DOMAIN rows : rows[i] # Gone =>
          /\ rows[i].cur \in DOMAIN parent
          /\ rows[i].prev = parent[rows[i].cur]
          /\ \A j \in DOMAIN parent : parent[j] # rows[i].cur
          /\ \A k \in DOMAIN rows : rows[k].cur = rows[i].cur => k = i

\* The token has been drawn and no session but s answers to it.
Belongs(token, s) ==
    /\ token \in DOMAIN parent /\ s \in DOMAIN rows
    /\ \A i \in DOMAIN rows :
          rows[i] # Gone /\ token \in {rows[i].cur, rows[i].prev} => i = s

AuthOK(auth) == auth = NoAuth \/ Belongs(auth.refresh, auth.session)

AuthsOK == AuthOK(storage) /\ \A t \in Tabs : AuthOK(tabs[t].auth)

\* What a call of a kind can be doing at a stage.
StageOK(call) ==
    /\ call.stage = "idle" <=> call.kind = "none"
    /\ call.stale => call.kind = "refresh"
    /\ call.stage \in {"answered", "waiting"} => call.tab # NoTab
    /\ call.stage \notin {"answered", "waiting"} => call.answer = "none"
    /\ call.stage \in {"valid", "waiting"} => call.kind \in {"logout", "revoke"}
    /\ call.stage = "looked" => call.kind = "refresh"
    /\ call.stage = "written" /\ call.kind = "login" => call.doing = "issue"
    /\ call.stage = "written" /\ call.kind \in {"logout", "revoke"} => call.doing = "revoke"
    /\ call.answer = "replay" => call.kind = "refresh"
    /\ call.answer = "invalid" => call.kind \in {"logout", "revoke"}

\* What a call carries, which holds whatever other transactions do.
CarriesOK(call) ==
    /\ call.kind = "refresh" => Belongs(call.token, call.sid)
    /\ call.kind = "login" /\ call.answer = "ok" => Belongs(call.token, call.sid)
    /\ call.kind \in {"logout", "revoke"} =>
          call.target \in DOMAIN rows /\ call.sid \in DOMAIN rows
    /\ call.token \in 0..Len(parent) /\ call.sid \in 0..Len(rows)
    /\ call.kind = "refresh" /\ call.answer = "replay" => rows[call.sid].revoked

\* What the transaction of a call has read, which its lock preserves.
HasReadOK(call) ==
    /\ call.stage \in {"looked", "written"} /\ call.kind = "refresh" =>
          /\ call.doing = Verdict(rows, call.token, now)
          /\ call.doing \in {"rotate", "expired", "replay"}
          /\ call.sid = SessionWith(rows, call.token)
    /\ call.stage = "written" /\ call.kind \in {"logout", "revoke"} =>
          rows[call.target] # Gone
    /\ call.stage = "written" /\ call.kind = "login" => Len(rows) < MaxSessions

CallOK(call) == StageOK(call) /\ CarriesOK(call) /\ HasReadOK(call)

\* The lock of a call at this stage.
HeldAt(stage) ==
    IF stage = "looked" THEN "shared" ELSE IF stage = "written" THEN "reserved" ELSE "none"

CallsOK == \A c \in Calls : lock[c] = HeldAt(calls[c].stage) /\ CallOK(calls[c])

\* The inductive invariant of the server and of what the tabs know of it.
IInv ==
    /\ DbTypes /\ CallTypes /\ TabTypes
    /\ RowsOK
    /\ OneSuccessor
    /\ CallsOK
    /\ AuthsOK

-----------------------------------------------------------------------------
(* What a transaction reads.                                                *)

\* What RefreshSession has found out when it goes on.
LEMMA VerdictMeans ==
    ASSUME NEW tok \in Nat, rows \in Seq(Rows), NEW s, s = SessionWith(rows, tok),
           NEW v, v = Verdict(rows, tok, now), v # "refuse"
    PROVE  /\ v \in {"rotate", "expired", "replay"}
           /\ s \in DOMAIN rows /\ ~rows[s].revoked /\ rows[s] # Gone
           /\ tok \in {rows[s].cur, rows[s].prev}
           /\ v = "expired" <=> Expired(rows[s], now)
           /\ v = "rotate" => rows[s].cur = tok
           /\ v = "replay" => rows[s].prev = tok
<1> DEFINE found == {i \in DOMAIN rows : tok \in {rows[i].cur, rows[i].prev}}
<1>1. DOMAIN rows = 1..Len(rows) /\ Len(rows) \in Nat
  OBVIOUS
<1>2. s # 0
  BY DEF Verdict
<1>3. found # {} /\ s = CHOOSE i \in found : TRUE
  BY <1>2 DEF SessionWith
<1>4. s \in found
  BY <1>3
<1>5. s \in DOMAIN rows /\ tok \in {rows[s].cur, rows[s].prev}
  BY <1>4
<1>6. ~rows[s].revoked /\ rows[s] # Gone
  BY <1>2 DEF Verdict, Gone
<1>7. QED
  BY <1>2, <1>5, <1>6 DEF Verdict

\* The session a refresh finds is the one its caller holds the token of.
LEMMA FindsOwn ==
    ASSUME NEW tok \in Nat, rows \in Seq(Rows), NEW s, Belongs(tok, s),
           Verdict(rows, tok, now) # "refuse"
    PROVE  SessionWith(rows, tok) = s
BY VerdictMeans DEF Belongs

-----------------------------------------------------------------------------
(* What happens to the table.  Nothing a call carries is disturbed by any   *)
(* of it.                                                                   *)

DbKeeps ==
    /\ Len(rows) <= Len(rows') /\ Len(parent) <= Len(parent')
    /\ \A i \in DOMAIN rows' : rows'[i] # Gone =>
          \A tok \in {rows'[i].cur, rows'[i].prev} \cap DOMAIN parent :
              i \in DOMAIN rows /\ rows[i] # Gone /\ tok \in {rows[i].cur, rows[i].prev}
    /\ \A i \in DOMAIN rows : rows[i].revoked => rows'[i].revoked

\* No session gets a new token or comes into being.
RowsCalm ==
    /\ DOMAIN rows' = DOMAIN rows
    /\ \A i \in DOMAIN rows : rows'[i].revoked \/ rows'[i] = rows[i]

DbOK == DbTypes /\ RowsOK /\ OneSuccessor

LEMMA DbStays ==
    ASSUME DbOK, UNCHANGED <<rows, parent, now>>
    PROVE  DbOK' /\ DbKeeps /\ RowsCalm
BY DEF DbOK, DbTypes, RowsOK, OneSuccessor, DbKeeps, RowsCalm

LEMMA IssueKeeps ==
    ASSUME DbOK, Len(rows) < MaxSessions, MaxSessions \in Nat,
           NEW n, n = Len(parent) + 1, NEW m, m = Len(rows) + 1,
           rows' = IssueSession(rows, n, now),
           parent' = Append(parent, 0), UNCHANGED now
    PROVE  DbOK' /\ DbKeeps /\ Belongs(n, m)'
<1> DEFINE row == [cur |-> n, prev |-> 0, issued |-> now, revoked |-> FALSE,
                   reason |-> "none", updated |-> now]
<1>1. now \in Int /\ rows \in Seq(Rows) /\ parent \in Seq(Nat) /\ n \in Nat /\ m \in Nat
  BY DEF DbOK, DbTypes
<1>2. row \in Rows /\ row # Gone
  BY <1>1 DEF Rows, Gone
<1> HIDE DEF row
<1>3. /\ rows' \in Seq(Rows) /\ Len(rows') = m /\ rows'[m] = row
      /\ DOMAIN rows = 1..Len(rows) /\ DOMAIN rows' = 1..m
      /\ \A i \in DOMAIN rows : rows'[i] = rows[i]
  BY <1>1, <1>2 DEF IssueSession, row
<1>4. /\ parent' \in Seq(Nat) /\ Len(parent') = n /\ parent'[n] = 0
      /\ DOMAIN parent = 1..Len(parent) /\ DOMAIN parent' = 1..n
      /\ \A j \in DOMAIN parent : parent'[j] = parent[j] /\ parent[j] \in Nat
  BY <1>1
<1>5. row.cur = n /\ row.prev = 0 /\ ~row.revoked
  BY DEF row
<1>6. \A i \in DOMAIN rows' : i = m \/ i \in DOMAIN rows
  BY <1>3, <1>1
<1>7. \A j \in DOMAIN parent' : j = n \/ j \in DOMAIN parent
  BY <1>4, <1>1
<1>8. \A i \in DOMAIN rows : rows[i].cur # n
  BY <1>1, <1>4 DEF DbOK, RowsOK, Gone
<1>9. DbTypes'
  BY <1>1, <1>3, <1>4 DEF DbOK, DbTypes
<1>10. OneSuccessor'
  BY <1>4, <1>7 DEF DbOK, OneSuccessor
<1>11. RowsOK'
  <2>1. \A j \in DOMAIN parent' : parent'[j] < j
    BY <1>1, <1>4, <1>7 DEF DbOK, RowsOK
  <2>2. ASSUME NEW i \in DOMAIN rows', rows'[i] # Gone
        PROVE  /\ rows'[i].cur \in DOMAIN parent'
               /\ rows'[i].prev = parent'[rows'[i].cur]
               /\ \A j \in DOMAIN parent' : parent'[j] # rows'[i].cur
               /\ \A k \in DOMAIN rows' : rows'[k].cur = rows'[i].cur => k = i
    <3>1. CASE i = m
      BY <3>1, <1>1, <1>3, <1>4, <1>5, <1>6, <1>7, <1>8, <2>1
    <3>2. CASE i \in DOMAIN rows
      <4>1. /\ rows'[i] = rows[i] /\ rows[i] # Gone
            /\ rows[i].cur \in DOMAIN parent
            /\ rows[i].prev = parent[rows[i].cur]
            /\ \A j \in DOMAIN parent : parent[j] # rows[i].cur
            /\ \A k \in DOMAIN rows : rows[k].cur = rows[i].cur => k = i
        BY <3>2, <2>2, <1>3 DEF DbOK, RowsOK
      <4>2. rows[i].cur # 0 /\ rows[i].cur # n
        BY <4>1, <1>4, <1>1
      <4>3. \A j \in DOMAIN parent' : parent'[j] # rows[i].cur
        BY <4>1, <4>2, <1>4, <1>7
      <4>4. \A k \in DOMAIN rows' : rows'[k].cur = rows[i].cur => k = i
        BY <4>1, <4>2, <1>3, <1>5, <1>6
      <4>5. rows[i].cur \in DOMAIN parent' /\ parent'[rows[i].cur] = parent[rows[i].cur]
        BY <4>1, <1>1, <1>4
      <4>6. QED
        BY <4>1, <4>3, <4>4, <4>5
    <3>3. QED
      BY <3>1, <3>2, <1>6
  <2>3. QED
    BY <2>1, <2>2 DEF RowsOK
<1>12. DbKeeps
  BY <1>1, <1>2, <1>3, <1>4, <1>5, <1>6 DEF DbKeeps
<1>13. Belongs(n, m)'
  <2>1. \A i \in DOMAIN rows : rows[i] # Gone => rows[i].cur # n /\ rows[i].prev # n
    BY <1>1, <1>4 DEF DbOK, RowsOK
  <2>2. QED
    BY <2>1, <1>1, <1>3, <1>4, <1>6 DEF Belongs
<1>14. QED
  BY <1>9, <1>10, <1>11, <1>12, <1>13 DEF DbOK

LEMMA MovesTo ==
    ASSUME NEW S, NEW f, NEW g, NEW c \in S, NEW r,
           f = [d \in S |-> f[d]], g = [d \in S |-> g[d]],
           g[c] = r, \A d \in S \ {c} : g[d] = f[d]
    PROVE  g = [f EXCEPT ![c] = r]
OBVIOUS

\* One row is rewritten.
LEMMA RowTo ==
    ASSUME rows \in Seq(Rows), NEW i \in DOMAIN rows, NEW r \in Rows, NEW new,
           new = [k \in DOMAIN rows |-> new[k]],
           new[i] = r, \A k \in DOMAIN rows \ {i} : new[k] = rows[k]
    PROVE  /\ new \in Seq(Rows) /\ Len(new) = Len(rows)
           /\ DOMAIN new = DOMAIN rows
<1>1. DOMAIN rows = 1..Len(rows) /\ Len(rows) \in Nat /\ rows = [k \in DOMAIN rows |-> rows[k]]
  OBVIOUS
<1>2. new = [rows EXCEPT ![i] = r]
  BY <1>1, MovesTo
<1>3. QED
  BY <1>1, <1>2

LEMMA RowShape ==
    ASSUME rows \in Seq(Rows), NEW i \in DOMAIN rows
    PROVE  /\ rows[i] \in Rows
           /\ rows = [k \in DOMAIN rows |-> rows[k]]
           /\ rows[i] = [cur |-> rows[i].cur, prev |-> rows[i].prev, issued |-> rows[i].issued,
                         revoked |-> rows[i].revoked, reason |-> rows[i].reason,
                         updated |-> rows[i].updated]
<1>1. rows[i] \in Rows /\ rows = [k \in DOMAIN rows |-> rows[k]]
  OBVIOUS
<1>2. QED
  BY <1>1 DEF Rows

LEMMA RotateTo ==
    ASSUME rows \in Seq(Rows), NEW i \in DOMAIN rows, ~rows[i].revoked, NEW n \in Nat,
           now \in Int, rows' = Rotate(rows, i, n, now)
    PROVE  /\ rows' \in Seq(Rows) /\ Len(rows') = Len(rows) /\ DOMAIN rows' = DOMAIN rows
           /\ rows'[i] = [cur |-> n, prev |-> rows[i].cur, issued |-> now, revoked |-> FALSE,
                           reason |-> rows[i].reason, updated |-> now]
           /\ \A k \in DOMAIN rows : k = i \/ rows'[k] = rows[k]
<1> DEFINE r == [cur |-> n, prev |-> rows[i].cur, issued |-> now, revoked |-> FALSE,
                 reason |-> rows[i].reason, updated |-> now]
<1>1. /\ rows[i] \in Rows
      /\ rows = [k \in DOMAIN rows |-> rows[k]]
      /\ rows[i] = [cur |-> rows[i].cur, prev |-> rows[i].prev, issued |-> rows[i].issued,
                    revoked |-> rows[i].revoked, reason |-> rows[i].reason,
                    updated |-> rows[i].updated]
  BY RowShape
<1>1a. rows[i].revoked = FALSE
  BY <1>1 DEF Rows
<1>2. r \in Rows
  BY <1>1 DEF Rows
<1>3. /\ rows' = [k \in DOMAIN rows |-> rows'[k]]
      /\ rows'[i] = r /\ \A k \in DOMAIN rows \ {i} : rows'[k] = rows[k]
  BY <1>1, <1>1a DEF Rotate
<1>4. QED
  BY <1>2, <1>3, RowTo

LEMMA RotateKeeps ==
    ASSUME DbOK, NEW i \in DOMAIN rows, ~rows[i].revoked, NEW n, n = Len(parent) + 1,
           rows' = Rotate(rows, i, n, now),
           parent' = Append(parent, rows[i].cur), UNCHANGED now
    PROVE  DbOK' /\ DbKeeps /\ Belongs(n, i)'
<1> DEFINE tok == rows[i].cur
<1>1. now \in Int /\ rows \in Seq(Rows) /\ parent \in Seq(Nat) /\ n \in Nat
  BY DEF DbOK, DbTypes
<1>2. /\ rows' \in Seq(Rows) /\ Len(rows') = Len(rows) /\ DOMAIN rows' = DOMAIN rows
      /\ rows'[i].cur = n /\ rows'[i].prev = tok /\ ~rows'[i].revoked
      /\ \A k \in DOMAIN rows : k = i \/ rows'[k] = rows[k]
  <2>1. /\ rows' \in Seq(Rows) /\ Len(rows') = Len(rows) /\ DOMAIN rows' = DOMAIN rows
        /\ rows'[i] = [cur |-> n, prev |-> tok, issued |-> now, revoked |-> FALSE,
                       reason |-> rows[i].reason, updated |-> now]
        /\ \A k \in DOMAIN rows : k = i \/ rows'[k] = rows[k]
    BY <1>1, RotateTo
  <2>2. QED
    BY <2>1
<1>3. /\ rows[i] # Gone /\ tok \in DOMAIN parent /\ tok \in Nat
      /\ \A j \in DOMAIN parent : parent[j] # tok
      /\ \A k \in DOMAIN rows : rows[k].cur = tok => k = i
  BY <1>1 DEF DbOK, RowsOK, Gone
<1>4. /\ parent' \in Seq(Nat) /\ Len(parent') = n /\ parent'[n] = tok
      /\ DOMAIN parent = 1..Len(parent) /\ DOMAIN parent' = 1..n
      /\ \A j \in DOMAIN parent : parent'[j] = parent[j] /\ parent[j] \in Nat
  BY <1>1, <1>3
<1> HIDE DEF tok
<1>5. /\ \A j \in DOMAIN parent' : j = n \/ j \in DOMAIN parent
      /\ \A j \in DOMAIN parent : j \in DOMAIN parent' /\ j < n /\ j # n
      /\ n \in DOMAIN parent' /\ tok < n /\ n # tok
  BY <1>4, <1>1, <1>3
<1>6. \A k \in DOMAIN rows : rows[k].cur # n /\ (rows[k] # Gone => rows[k].prev # n)
  BY <1>1, <1>4 DEF DbOK, RowsOK, Gone
<1>7. DbTypes'
  BY <1>1, <1>2, <1>4 DEF DbOK, DbTypes
<1>8. OneSuccessor'
  BY <1>3, <1>4, <1>5 DEF DbOK, OneSuccessor
<1>9. RowsOK'
  <2>1. \A j \in DOMAIN parent' : parent'[j] < j
    BY <1>4, <1>5 DEF DbOK, RowsOK
  <2>2. ASSUME NEW k \in DOMAIN rows', rows'[k] # Gone
        PROVE  /\ rows'[k].cur \in DOMAIN parent'
               /\ rows'[k].prev = parent'[rows'[k].cur]
               /\ \A j \in DOMAIN parent' : parent'[j] # rows'[k].cur
               /\ \A l \in DOMAIN rows' : rows'[l].cur = rows'[k].cur => l = k
    <3>1. CASE k = i
      <4>1. \A j \in DOMAIN parent' : parent'[j] # n
        BY <2>1, <1>4, <1>5, <1>1, <1>3
      <4>2. \A l \in DOMAIN rows' : rows'[l].cur = n => l = i
        BY <1>2, <1>6
      <4>3. QED
        BY <3>1, <4>1, <4>2, <1>2, <1>4, <1>5
    <3>2. CASE k # i
      <4>1. /\ rows'[k] = rows[k] /\ rows[k] # Gone
            /\ rows[k].cur \in DOMAIN parent
            /\ rows[k].prev = parent[rows[k].cur]
            /\ \A j \in DOMAIN parent : parent[j] # rows[k].cur
            /\ \A l \in DOMAIN rows : rows[l].cur = rows[k].cur => l = k
        BY <3>2, <2>2, <1>2 DEF DbOK, RowsOK
      <4>2. rows[k].cur # tok /\ rows[k].cur # n
        BY <4>1, <3>2, <1>2, <1>3, <1>6
      <4>3. \A j \in DOMAIN parent' : parent'[j] # rows[k].cur
        BY <4>1, <4>2, <1>4, <1>5
      <4>4. \A l \in DOMAIN rows' : rows'[l].cur = rows[k].cur => l = k
        BY <4>1, <4>2, <1>2
      <4>5. QED
        BY <4>1, <4>3, <4>4, <1>4, <1>5
    <3>3. QED
      BY <3>1, <3>2
  <2>3. QED
    BY <2>1, <2>2 DEF RowsOK
<1>10. DbKeeps
  <2>1. Len(rows) <= Len(rows') /\ Len(parent) <= Len(parent')
    BY <1>1, <1>2, <1>4
  <2>2. ASSUME NEW k \in DOMAIN rows', rows'[k] # Gone,
               NEW t \in {rows'[k].cur, rows'[k].prev} \cap DOMAIN parent
        PROVE  k \in DOMAIN rows /\ rows[k] # Gone /\ t \in {rows[k].cur, rows[k].prev}
    <3>1. CASE k = i
      BY <3>1, <2>2, <1>2, <1>3, <1>4, <1>5 DEF tok
    <3>2. CASE k # i
      BY <3>2, <2>2, <1>2
    <3>3. QED
      BY <3>1, <3>2
  <2>3. \A k \in DOMAIN rows : rows[k].revoked => rows'[k].revoked
    BY <1>2
  <2>4. QED
    BY <2>1, <2>2, <2>3 DEF DbKeeps
<1>11. Belongs(n, i)'
  BY <1>2, <1>5, <1>6 DEF Belongs
<1>12. QED
  BY <1>7, <1>8, <1>9, <1>10, <1>11 DEF DbOK

LEMMA RevokeTo ==
    ASSUME rows \in Seq(Rows), NEW i \in DOMAIN rows, now \in Int,
           NEW reason \in {"expired", "replay", "user"},
           rows' = RevokeSession(rows, i, reason, now)
    PROVE  /\ rows' \in Seq(Rows) /\ Len(rows') = Len(rows) /\ DOMAIN rows' = DOMAIN rows
           /\ rows'[i] = [cur |-> rows[i].cur, prev |-> rows[i].prev, issued |-> rows[i].issued,
                           revoked |-> TRUE,
                           reason |-> IF rows[i].reason = "none" THEN reason ELSE rows[i].reason,
                           updated |-> now]
           /\ \A k \in DOMAIN rows : k = i \/ rows'[k] = rows[k]
<1>1. /\ rows[i] \in Rows
      /\ rows = [k \in DOMAIN rows |-> rows[k]]
      /\ rows[i] = [cur |-> rows[i].cur, prev |-> rows[i].prev, issued |-> rows[i].issued,
                    revoked |-> rows[i].revoked, reason |-> rows[i].reason,
                    updated |-> rows[i].updated]
  BY RowShape
<1>2. PICK w \in {"none", "expired", "replay", "user"} :
          w = IF rows[i].reason = "none" THEN reason ELSE rows[i].reason
  BY <1>1 DEF Rows
<1> DEFINE r == [cur |-> rows[i].cur, prev |-> rows[i].prev, issued |-> rows[i].issued,
                 revoked |-> TRUE, reason |-> w, updated |-> now]
<1>3. r \in Rows
  BY <1>2, <1>1 DEF Rows
<1>4. /\ rows' = [k \in DOMAIN rows |-> rows'[k]]
      /\ rows'[i] = r /\ \A k \in DOMAIN rows \ {i} : rows'[k] = rows[k]
  BY <1>2, <1>1 DEF RevokeSession
<1>5. rows' \in Seq(Rows) /\ Len(rows') = Len(rows) /\ DOMAIN rows' = DOMAIN rows
  BY <1>3, <1>4, RowTo
<1>6. QED
  BY <1>2, <1>4, <1>5

LEMMA RevokeKeeps ==
    ASSUME DbOK, NEW i \in DOMAIN rows, rows[i] # Gone,
           NEW reason \in {"expired", "replay", "user"},
           rows' = RevokeSession(rows, i, reason, now), UNCHANGED <<parent, now>>
    PROVE  DbOK' /\ DbKeeps /\ RowsCalm /\ rows'[i].revoked
<1>1. now \in Int /\ rows \in Seq(Rows) /\ parent \in Seq(Nat)
  BY DEF DbOK, DbTypes
<1>2. /\ rows' \in Seq(Rows) /\ Len(rows') = Len(rows) /\ DOMAIN rows' = DOMAIN rows
      /\ rows'[i].cur = rows[i].cur /\ rows'[i].prev = rows[i].prev /\ rows'[i].revoked
      /\ \A k \in DOMAIN rows : k = i \/ rows'[k] = rows[k]
  <2>1. /\ rows' \in Seq(Rows) /\ Len(rows') = Len(rows) /\ DOMAIN rows' = DOMAIN rows
        /\ rows'[i] = [cur |-> rows[i].cur, prev |-> rows[i].prev, issued |-> rows[i].issued,
                       revoked |-> TRUE,
                       reason |-> IF rows[i].reason = "none" THEN reason ELSE rows[i].reason,
                       updated |-> now]
        /\ \A k \in DOMAIN rows : k = i \/ rows'[k] = rows[k]
    BY <1>1, RevokeTo
  <2>2. QED
    BY <2>1
<1>3. DbTypes'
  BY <1>1, <1>2 DEF DbOK, DbTypes
<1>4. OneSuccessor' /\ RowsOK'
  <2>1. \A k \in DOMAIN rows : /\ rows'[k].cur = rows[k].cur /\ rows'[k].prev = rows[k].prev
                               /\ rows'[k] # Gone => rows[k] # Gone
    BY <1>2
  <2>2. OneSuccessor'
    BY DEF DbOK, OneSuccessor
  <2>3. RowsOK'
    BY <2>1, <1>2 DEF DbOK, RowsOK
  <2>4. QED
    BY <2>2, <2>3
<1>5. DbKeeps
  <2>1. Len(rows) \in Nat /\ Len(parent) \in Nat /\ parent' = parent
    BY <1>1
  <2>2. Len(rows) <= Len(rows') /\ Len(parent) <= Len(parent')
    BY <1>2, <2>1
  <2>3. \A k \in DOMAIN rows : /\ rows'[k].cur = rows[k].cur /\ rows'[k].prev = rows[k].prev
                               /\ rows'[k] # Gone => rows[k] # Gone
                               /\ rows[k].revoked => rows'[k].revoked
    BY <1>2
  <2>4. QED
    BY <1>2, <2>2, <2>3 DEF DbKeeps
<1>6. RowsCalm
  BY <1>2 DEF RowsCalm
<1>7. QED
  BY <1>2, <1>3, <1>4, <1>5, <1>6 DEF DbOK

LEMMA CleanedTo ==
    ASSUME rows \in Seq(Rows), rows' = Cleaned(rows, now)
    PROVE  /\ rows' \in Seq(Rows) /\ Len(rows') = Len(rows) /\ DOMAIN rows' = DOMAIN rows
           /\ \A i \in DOMAIN rows : rows'[i] \in {rows[i], Gone}
<1>1. DOMAIN rows = 1..Len(rows) /\ Len(rows) \in Nat /\ \A i \in DOMAIN rows : rows[i] \in Rows
  OBVIOUS
<1>2. Gone \in Rows
  BY DEF Gone, Rows
<1>3. /\ rows' = [i \in 1..Len(rows) |-> rows'[i]]
      /\ \A i \in 1..Len(rows) : rows'[i] \in {rows[i], Gone}
  BY <1>1 DEF Cleaned
<1>4. rows' \in [1..Len(rows) -> Rows]
  BY <1>1, <1>2, <1>3
<1>5. QED
  BY <1>1, <1>3, <1>4

LEMMA CleanedKeeps ==
    ASSUME DbOK, rows' = Cleaned(rows, now), UNCHANGED <<parent, now>>
    PROVE  DbOK' /\ DbKeeps /\ RowsCalm
<1>1. /\ rows' \in Seq(Rows) /\ Len(rows') = Len(rows) /\ DOMAIN rows' = DOMAIN rows
      /\ \A i \in DOMAIN rows : rows'[i] \in {rows[i], Gone}
      /\ rows \in Seq(Rows) /\ parent \in Seq(Nat)
  BY CleanedTo DEF DbOK, DbTypes
<1>2. DbTypes'
  BY <1>1 DEF DbOK, DbTypes
<1>3. OneSuccessor' /\ RowsOK'
  <2>1. \A i \in DOMAIN rows : rows'[i] # Gone => rows'[i] = rows[i] /\ rows[i].cur # 0
    BY <1>1 DEF DbOK, RowsOK
  <2>2. \A i \in DOMAIN rows : rows'[i] = Gone => rows'[i].cur = 0
    BY DEF Gone
  <2>3. QED
    BY <1>1, <2>1, <2>2 DEF DbOK, OneSuccessor, RowsOK
<1>4. DbKeeps /\ RowsCalm
  BY <1>1 DEF DbKeeps, RowsCalm, Gone
<1>5. QED
  BY <1>2, <1>3, <1>4 DEF DbOK

LEMMA TickKeeps ==
    ASSUME DbOK, now < MaxTime, MaxTime \in Nat, now' = now + 1, UNCHANGED <<rows, parent>>
    PROVE  DbOK' /\ DbKeeps /\ RowsCalm
BY DEF DbOK, DbTypes, RowsOK, OneSuccessor, DbKeeps, RowsCalm

-----------------------------------------------------------------------------
(* What a step makes of the calls.                                          *)

\* The call c with these fields and the others as they were.
CallWith(c, stage, token, sid, doing, answer) ==
    [stage |-> stage, kind |-> calls[c].kind, tab |-> calls[c].tab, token |-> token,
     sid |-> sid, target |-> calls[c].target, doing |-> doing, answer |-> answer,
     stale |-> calls[c].stale, connect |-> calls[c].connect, retried |-> calls[c].retried,
     on |-> calls[c].on]

LEMMA CallShape ==
    ASSUME CallTypes, NEW c \in Calls
    PROVE  /\ calls = [d \in Calls |-> calls[d]]
           /\ calls[c] = CallWith(c, calls[c].stage, calls[c].token, calls[c].sid,
                                  calls[c].doing, calls[c].answer)
<1>1. calls[c] \in CallStates /\ calls = [d \in Calls |-> calls[d]]
  BY DEF CallTypes
<1>2. QED
  BY <1>1 DEF CallStates, CallWith

LEMMA CallWithType ==
    ASSUME CallTypes, NEW c \in Calls, NEW stage \in Stages, NEW token \in Nat, NEW sid \in Nat,
           NEW doing \in Doings, NEW answer \in Answers
    PROVE  CallWith(c, stage, token, sid, doing, answer) \in CallStates
<1>1. calls[c] \in CallStates
  BY DEF CallTypes
<1>2. QED
  BY <1>1 DEF CallStates, CallWith

LEMMA IdleType == Idle \in CallStates /\ CallOK(Idle)
<1>1. Idle \in CallStates
  BY DEF Idle, CallStates, Stages, Kinds, Doings, Answers
<1>2. StageOK(Idle) /\ CarriesOK(Idle) /\ HasReadOK(Idle)
  BY DEF Idle, StageOK, CarriesOK, HasReadOK
<1>3. QED
  BY <1>1, <1>2 DEF CallOK

\* Where an answered call goes: back to its tab, or nowhere.
AnswerGoes(c, token, sid, a) ==
    calls' = [calls EXCEPT ![c] =
        IF calls[c].tab = NoTab THEN Idle
        ELSE CallWith(c, "answered", token, sid, calls[c].doing, a)]

Fields == {"stage", "kind", "tab", "token", "sid", "target", "doing", "answer", "stale",
           "connect", "retried", "on"}

LEMMA AnsweredWith ==
    ASSUME NEW c, NEW r, NEW stage, NEW token, NEW sid, NEW doing, NEW answer,
           r = CallWith(c, stage, token, sid, doing, answer)
    PROVE  [r EXCEPT !.stage = "answered"] = CallWith(c, "answered", token, sid, doing, answer)
BY DEF CallWith

LEMMA AnswerTo ==
    ASSUME CallTypes, NEW c \in Calls, NEW a, Answer(c, a)
    PROVE  AnswerGoes(c, calls[c].token, calls[c].sid, a)
<1>1. calls[c] = CallWith(c, calls[c].stage, calls[c].token, calls[c].sid,
                          calls[c].doing, calls[c].answer)
  BY CallShape
<1>2. PICK r : r = [calls[c] EXCEPT !.answer = a]
  OBVIOUS
<1>3. r = CallWith(c, calls[c].stage, calls[c].token, calls[c].sid, calls[c].doing, a)
  BY <1>1, <1>2 DEF CallWith
<1>4. [r EXCEPT !.stage = "answered"] =
        CallWith(c, "answered", calls[c].token, calls[c].sid, calls[c].doing, a)
  BY <1>3, AnsweredWith
<1>5. QED
  BY <1>2, <1>4 DEF Answer, Answered, AnswerGoes

LEMMA GrantedTo ==
    ASSUME CallTypes, NEW c \in Calls, NEW sid, NEW n, n = Len(parent) + 1, Granted(c, sid)
    PROVE  AnswerGoes(c, n, sid, "ok")
<1>1. calls[c] = CallWith(c, calls[c].stage, calls[c].token, calls[c].sid,
                          calls[c].doing, calls[c].answer)
  BY CallShape
<1>2. PICK r : r = [calls[c] EXCEPT !.answer = "ok", !.token = n, !.sid = sid]
  OBVIOUS
<1>3. r = [f \in Fields |-> IF f = "answer" THEN "ok" ELSE IF f = "token" THEN n
                           ELSE IF f = "sid" THEN sid ELSE calls[c][f]]
  BY <1>1, <1>2 DEF CallWith, Fields
<1>4. r = CallWith(c, calls[c].stage, n, sid, calls[c].doing, "ok")
  BY <1>1, <1>3 DEF CallWith, Fields
<1>5. [r EXCEPT !.stage = "answered"] = CallWith(c, "answered", n, sid, calls[c].doing, "ok")
  BY <1>4, AnsweredWith
<1>6. QED
  BY <1>2, <1>5 DEF Granted, Answered, AnswerGoes

\* No refresh begins or brings a token, none that has brought one ends, and no
\* login is accepted.
Quiet(d) ==
    /\ calls'[d].kind = "refresh" =>
          /\ calls[d].kind = "refresh" /\ calls'[d].tab = calls[d].tab
          /\ calls'[d].sid = calls[d].sid /\ calls'[d].token = calls[d].token
    /\ calls'[d].kind = "login" /\ calls'[d].answer = "ok" =>
          /\ calls[d].kind = "login" /\ calls[d].answer = "ok"
          /\ calls'[d].sid = calls[d].sid /\ calls'[d].token = calls[d].token
    /\ calls[d].kind = "refresh" /\ calls[d].answer = "ok" =>
          calls'[d].kind = "refresh" /\ calls'[d].answer = "ok"

CallsCalm == \A d \in Calls : Quiet(d) /\ (calls'[d].stale => calls[d].stale)

Calm == RowsCalm /\ CallsCalm

LEMMA CallsUnchanged ==
    ASSUME UNCHANGED calls
    PROVE  CallsCalm
BY DEF CallsCalm, Quiet

LEMMA AnswerQuiet ==
    ASSUME CallTypes, NEW c \in Calls, NEW a, AnswerGoes(c, calls[c].token, calls[c].sid, a),
           a = "ok" => calls[c].kind # "login",
           calls[c].answer = "none"
    PROVE  CallsCalm
<1>1. /\ \A d \in Calls \ {c} : calls'[d] = calls[d]
      /\ calls'[c] = IF calls[c].tab = NoTab THEN Idle
                     ELSE CallWith(c, "answered", calls[c].token, calls[c].sid, calls[c].doing, a)
  BY DEF AnswerGoes, CallTypes
<1>2. Quiet(c) /\ (calls'[c].stale => calls[c].stale)
  BY <1>1 DEF Quiet, Idle, CallWith
<1>3. QED
  BY <1>1, <1>2 DEF CallsCalm, Quiet

LEMMA StageQuiet ==
    ASSUME CallTypes, NEW c \in Calls, NEW stage, NEW doing,
           calls' = [calls EXCEPT ![c] =
               CallWith(c, stage, calls[c].token, calls[c].sid, doing, calls[c].answer)]
    PROVE  CallsCalm
<1>1. /\ \A d \in Calls \ {c} : calls'[d] = calls[d]
      /\ calls'[c] = CallWith(c, stage, calls[c].token, calls[c].sid, doing, calls[c].answer)
  BY DEF CallTypes
<1>2. Quiet(c) /\ (calls'[c].stale => calls[c].stale)
  BY <1>1 DEF Quiet, CallWith
<1>3. QED
  BY <1>1, <1>2 DEF CallsCalm, Quiet

\* What a call carries stays true whatever is committed.
LEMMA CarriesStays ==
    ASSUME DbOK, DbOK', DbKeeps, NEW call \in CallStates, CarriesOK(call)
    PROVE  CarriesOK(call)'
<1>1. /\ DOMAIN rows = 1..Len(rows) /\ DOMAIN rows' = 1..Len(rows') /\ Len(rows) \in Nat
      /\ DOMAIN parent = 1..Len(parent) /\ DOMAIN parent' = 1..Len(parent') /\ Len(parent) \in Nat
      /\ Len(rows') \in Nat /\ Len(parent') \in Nat
  BY DEF DbOK, DbTypes
<1>2. DOMAIN rows \subseteq DOMAIN rows' /\ DOMAIN parent \subseteq DOMAIN parent'
  BY <1>1 DEF DbKeeps
<1>3. ASSUME NEW token, NEW s, Belongs(token, s)
      PROVE  Belongs(token, s)'
  BY <1>3, <1>2 DEF Belongs, DbKeeps
<1>4. call.token \in 0..Len(parent') /\ call.sid \in 0..Len(rows')
  BY <1>1 DEF CarriesOK, DbKeeps
<1>5. call.kind = "refresh" => call.sid \in DOMAIN rows
  BY DEF CarriesOK, Belongs
<1>6. call.kind = "refresh" /\ call.answer = "replay" => rows'[call.sid].revoked
  BY <1>5 DEF CarriesOK, DbKeeps
<1>7. QED
  BY <1>4, <1>6, <1>2, <1>3 DEF CarriesOK

\* What a call has read stays true as long as its lock keeps others from
\* committing, or it has none and needs none.
LEMMA CallStays ==
    ASSUME DbOK, DbOK', DbKeeps, NEW call \in CallStates, CallOK(call),
           \/ UNCHANGED <<rows, parent, now>>
           \/ call.stage \notin {"looked", "written"}
    PROVE  CallOK(call)'
<1>1. StageOK(call)' /\ CarriesOK(call)'
  BY CarriesStays DEF CallOK, StageOK
<1>2. HasReadOK(call)'
  <2>1. CASE call.stage \notin {"looked", "written"}
    BY <2>1 DEF HasReadOK
  <2>2. CASE UNCHANGED <<rows, parent, now>>
    BY <2>2 DEF CallOK, HasReadOK
  <2>3. QED
    BY <2>1, <2>2
<1>3. QED
  BY <1>1, <1>2 DEF CallOK

\* One call moves to r, and the others are left alone.
LEMMA OneCallMoves ==
    ASSUME CallTypes, CallsOK, DbOK, DbOK', DbKeeps,
           NEW c \in Calls, NEW r \in CallStates, calls' = [calls EXCEPT ![c] = r],
           lock' \in [Tx -> Locks], lock'[c] = HeldAt(r.stage),
           \A d \in Calls \ {c} : lock'[d] = lock[d],
           CallOK(r)',
           \/ UNCHANGED <<rows, parent, now>>
           \/ \A d \in Calls \ {c} : lock[d] = "none"
    PROVE  CallTypes' /\ CallsOK'
<1>1. calls' \in [Calls -> CallStates] /\ calls'[c] = r
      /\ \A d \in Calls \ {c} : calls'[d] = calls[d] /\ calls[d] \in CallStates
  BY DEF CallTypes
<1>2. CallOK(calls[c])'
  BY <1>1 DEF CallOK, StageOK, CarriesOK, HasReadOK, Belongs
<1>3. ASSUME NEW d \in Calls \ {c}
      PROVE  lock'[d] = HeldAt(calls'[d].stage) /\ CallOK(calls[d])'
  <2>1. PICK call \in CallStates : call = calls[d]
    BY <1>1
  <2>2. CallOK(call) /\ lock[d] = HeldAt(call.stage) /\ calls'[d] = call
    BY <2>1, <1>1 DEF CallsOK
  <2>3. CallOK(call)'
    BY <2>2, CallStays DEF HeldAt
  <2>4. StageOK(calls[d])' /\ CarriesOK(calls[d])' /\ HasReadOK(calls[d])'
    <3>1. StageOK(call)' /\ CarriesOK(call)' /\ HasReadOK(call)'
      BY <2>3 DEF CallOK
    <3>2. StageOK(calls[d])'
      BY <2>2, <3>1 DEF StageOK
    <3>3. CarriesOK(calls[d])'
      BY <2>2, <3>1, Zenon DEF CarriesOK, Belongs
    <3>4. HasReadOK(calls[d])'
      BY <2>2, <3>1, Zenon DEF HasReadOK
    <3>5. QED
      BY <3>2, <3>3, <3>4
  <2>5. lock'[d] = HeldAt(calls'[d].stage)
    BY <2>2
  <2>6. QED
    BY <2>4, <2>5 DEF CallOK
<1>4. QED
  BY <1>1, <1>2, <1>3 DEF CallTypes, CallsOK

\* Neither what a call carries nor what it has read depends on the calls.
LEMMA IdleIsOK ==
    ASSUME DbOK', NEW r, r = Idle
    PROVE  CallOK(r)'
<1>1. Len(rows') \in Nat /\ Len(parent') \in Nat
  BY DEF DbOK, DbTypes
<1>2. /\ r.stage = "idle" /\ r.kind = "none" /\ r.answer = "none" /\ r.token = 0 /\ r.sid = 0
      /\ r.stale = FALSE
  BY DEF Idle
<1>3. StageOK(r)' /\ CarriesOK(r)' /\ HasReadOK(r)'
  BY <1>1, <1>2 DEF StageOK, CarriesOK, HasReadOK
<1>4. QED
  BY <1>3 DEF CallOK

\* A call is answered, with or without new tokens.
LEMMA AnswerMoves ==
    ASSUME CallTypes, CallsOK, DbOK, DbOK', DbKeeps,
           NEW c \in Calls, calls[c].kind # "none", NEW a \in Answers \ {"none"},
           NEW token \in Nat, NEW sid \in Nat, AnswerGoes(c, token, sid, a),
           lock' \in [Tx -> Locks], lock'[c] = "none",
           \A d \in Calls \ {c} : lock'[d] = lock[d],
           \/ token = calls[c].token /\ sid = calls[c].sid /\ (a = "ok" => calls[c].kind # "login")
           \/ calls[c].kind \in {"login", "refresh"} /\ Belongs(token, sid)',
           a = "replay" => calls[c].kind = "refresh" /\ rows'[sid].revoked,
           a = "invalid" => calls[c].kind \in {"logout", "revoke"},
           \/ UNCHANGED <<rows, parent, now>>
           \/ \A d \in Calls \ {c} : lock[d] = "none"
    PROVE  CallTypes' /\ CallsOK'
<1>1. CASE calls[c].tab = NoTab
  <2>1. PICK r : r = Idle
    OBVIOUS
  <2>2. calls' = [calls EXCEPT ![c] = r] /\ r \in CallStates
    BY <1>1, <2>1, IdleType DEF AnswerGoes
  <2>3. CallOK(r)' /\ HeldAt(r.stage) = "none"
    BY <2>1, IdleIsOK DEF Idle, HeldAt
  <2>4. QED
    BY <2>2, <2>3, OneCallMoves
<1>2. CASE calls[c].tab # NoTab
  <2>1. PICK r : r = CallWith(c, "answered", token, sid, calls[c].doing, a)
    OBVIOUS
  <2>2. calls[c].doing \in Doings /\ "answered" \in Stages
    BY DEF CallTypes, CallStates, Stages
  <2>3. calls' = [calls EXCEPT ![c] = r] /\ r \in CallStates
    BY <1>2, <2>1, <2>2, CallWithType DEF AnswerGoes
  <2>4. /\ r.stage = "answered" /\ r.kind = calls[c].kind /\ r.tab = calls[c].tab
        /\ r.token = token /\ r.sid = sid /\ r.target = calls[c].target /\ r.answer = a
        /\ r.stale = calls[c].stale /\ (calls[c].stale => calls[c].kind = "refresh")
    BY <2>1 DEF CallWith, CallsOK, CallOK, StageOK
  <2>5. PICK old \in CallStates : old = calls[c]
    BY DEF CallTypes
  <2>6. CarriesOK(old)'
    BY <2>5, CarriesStays DEF CallsOK, CallOK
  <2>7. StageOK(r)'
    BY <1>2, <2>4 DEF StageOK
  <2>8. CarriesOK(r)'
    <3>1. CASE token = calls[c].token /\ sid = calls[c].sid /\ (a = "ok" => calls[c].kind # "login")
      BY <3>1, <2>4, <2>5, <2>6 DEF CarriesOK
    <3>2. CASE calls[c].kind \in {"login", "refresh"} /\ Belongs(token, sid)'
      <4>1. token \in 0..Len(parent') /\ sid \in 0..Len(rows')
        BY <3>2 DEF Belongs, DbOK, DbTypes
      <4>2. QED
        BY <4>1, <3>2, <2>4 DEF CarriesOK
    <3>3. QED
      BY <3>1, <3>2
  <2>9. HasReadOK(r)'
    BY <2>4 DEF HasReadOK
  <2>10. QED
    BY <2>3, <2>4, <2>7, <2>8, <2>9, OneCallMoves DEF CallOK, HeldAt
<1>3. QED
  BY <1>1, <1>2

\* A call goes on with its transaction, which has read and not committed.
LEMMA StageMoves ==
    ASSUME CallTypes, CallsOK, DbOK, UNCHANGED <<rows, parent, now>>,
           NEW c \in Calls, calls[c].answer = "none", NEW stage \in {"looked", "valid", "written"},
           NEW sid \in Nat, NEW doing \in Doings,
           calls' = [calls EXCEPT ![c] =
                        CallWith(c, stage, calls[c].token, sid, doing, calls[c].answer)],
           lock' \in [Tx -> Locks], lock'[c] = HeldAt(stage),
           \A d \in Calls \ {c} : lock'[d] = lock[d],
           calls[c].kind # "none", sid = calls[c].sid,
           stage = "valid" => calls[c].kind \in {"logout", "revoke"},
           stage = "looked" => calls[c].kind = "refresh",
           stage = "written" /\ calls[c].kind = "login" =>
               doing = "issue" /\ Len(rows) < MaxSessions,
           stage = "written" /\ calls[c].kind \in {"logout", "revoke"} =>
               doing = "revoke" /\ rows[calls[c].target] # Gone,
           calls[c].kind = "refresh" =>
               /\ doing = Verdict(rows, calls[c].token, now)
               /\ doing \in {"rotate", "expired", "replay"}
               /\ sid = SessionWith(rows, calls[c].token)
    PROVE  CallTypes' /\ CallsOK'
<1>1. PICK r : r = CallWith(c, stage, calls[c].token, sid, doing, "none")
  OBVIOUS
<1>2. calls[c].token \in Nat /\ stage \in Stages /\ "none" \in Answers
  BY DEF CallTypes, CallStates, Stages, Answers
<1>3. calls' = [calls EXCEPT ![c] = r] /\ r \in CallStates
  BY <1>1, <1>2, CallWithType
<1>4. /\ r.stage = stage /\ r.kind = calls[c].kind /\ r.tab = calls[c].tab
      /\ r.token = calls[c].token /\ r.sid = sid /\ r.target = calls[c].target
      /\ r.answer = "none" /\ r.doing = doing
      /\ r.stale = calls[c].stale /\ (calls[c].stale => calls[c].kind = "refresh")
  BY <1>1 DEF CallWith, CallsOK, CallOK, StageOK
<1>5. DbOK' /\ DbKeeps
  BY DbStays
<1>6. StageOK(r)'
  BY <1>4 DEF StageOK
<1>7. CarriesOK(r)'
  BY <1>4 DEF CarriesOK, Belongs, CallsOK, CallOK
<1>8. HasReadOK(r)'
  BY <1>4 DEF HasReadOK
<1>9. QED
  BY <1>3, <1>4, <1>5, <1>6, <1>7, <1>8, OneCallMoves DEF CallOK

-----------------------------------------------------------------------------
(* The steps of the server.                                                 *)

ServerOK == DbOK /\ CallTypes /\ CallsOK

\* c's lock becomes h and the others keep theirs.
LockTo(c, h) ==
    /\ lock' \in [Tx -> Locks] /\ lock'[c] = h
    /\ \A d \in Calls \ {c} : lock'[d] = lock[d]

LEMMA LocksMove ==
    ASSUME CallTypes, NEW c \in Calls
    PROVE  /\ Share(c) => LockTo(c, "shared")
           /\ Reserve(c) => LockTo(c, "reserved")
           /\ Release(c) => LockTo(c, "none")
           /\ CommitLock(c) => LockTo(c, "none") /\ \A d \in Calls \ {c} : lock[d] = "none"
           /\ UNCHANGED lock /\ lock[c] = "none" => LockTo(c, "none")
BY DEF CallTypes, Calls, Locks, LockTo, Share, Reserve, Release, CommitLock

\* What is known of a call by its stage.
LEMMA CallFacts ==
    ASSUME CallTypes, CallsOK, NEW c \in Calls
    PROVE  /\ calls[c] \in CallStates /\ CallOK(calls[c])
           /\ lock[c] = HeldAt(calls[c].stage)
           /\ calls[c].token \in Nat /\ calls[c].sid \in Nat /\ calls[c].target \in Nat
           /\ calls[c].stage # "idle" => calls[c].kind # "none"
           /\ calls[c].kind \in Kinds /\ calls[c].doing \in Doings
           /\ calls[c].answer \in Answers
           /\ calls[c].stage \notin {"answered", "waiting"} => calls[c].answer = "none"
BY DEF CallTypes, CallStates, CallsOK, CallOK, StageOK

LEMMA NotServedOK ==
    ASSUME ServerOK, NEW c \in Calls, NotServed(c)
    PROVE  ServerOK' /\ DbKeeps /\ Calm
<1>1. DbOK' /\ DbKeeps /\ RowsCalm /\ UNCHANGED <<rows, parent, now>>
  BY DbStays DEF NotServed, server, db, ServerOK
<1>2. /\ calls[c].token \in Nat /\ calls[c].sid \in Nat /\ calls[c].kind # "none" /\ calls[c].answer = "none"
      /\ lock[c] = "none"
  BY CallFacts DEF ServerOK, NotServed, At, HeldAt
<1>3. AnswerGoes(c, calls[c].token, calls[c].sid, "failed")
  BY AnswerTo DEF ServerOK, NotServed
<1>4. LockTo(c, "none")
  BY <1>2, LocksMove DEF ServerOK, NotServed, server, db
<1>5. CallTypes' /\ CallsOK'
  BY <1>1, <1>2, <1>3, <1>4, AnswerMoves DEF ServerOK, LockTo, Answers
<1>6. CallsCalm
  BY <1>2, <1>3, AnswerQuiet DEF ServerOK
<1>7. QED
  BY <1>1, <1>5, <1>6 DEF ServerOK, Calm

LEMMA LookupOK ==
    ASSUME ServerOK, NEW c \in Calls, Lookup(c)
    PROVE  ServerOK' /\ DbKeeps /\ Calm
<1>1. DbOK' /\ DbKeeps /\ RowsCalm /\ UNCHANGED <<rows, parent>>
  BY DbStays DEF Lookup, ServerOK
<1>2. /\ calls[c].token \in Nat /\ calls[c].sid \in Nat /\ calls[c].kind = "refresh"
      /\ lock[c] = "none" /\ CallOK(calls[c]) /\ calls[c].answer = "none"
      /\ Belongs(calls[c].token, calls[c].sid) /\ UNCHANGED now
  BY CallFacts DEF ServerOK, Lookup, At, HeldAt, CallOK, CarriesOK, StageOK
<1>3. CASE Verdict(rows, calls[c].token, now) = "refuse"
  <2>1. AnswerGoes(c, calls[c].token, calls[c].sid, "refused")
    BY <1>3, AnswerTo DEF ServerOK, Lookup
  <2>2. LockTo(c, "none")
    BY <1>3, <1>2, LocksMove DEF ServerOK, Lookup
  <2>3. QED
    BY <1>1, <1>2, <2>1, <2>2, AnswerMoves, AnswerQuiet DEF ServerOK, LockTo, Answers, Calm
<1>4. CASE Verdict(rows, calls[c].token, now) # "refuse"
  <2>1. PICK v : v = Verdict(rows, calls[c].token, now)
    OBVIOUS
  <2>2. rows \in Seq(Rows)
    BY DEF ServerOK, DbOK, DbTypes
  <2>3. /\ SessionWith(rows, calls[c].token) = calls[c].sid
        /\ v \in {"rotate", "expired", "replay"}
    BY <1>2, <1>4, <2>1, <2>2, VerdictMeans, FindsOwn
  <2>4. calls' = [calls EXCEPT ![c] =
                     CallWith(c, "looked", calls[c].token, calls[c].sid, v, calls[c].answer)]
    <3>1. /\ calls = [d \in Calls |-> calls[d]]
          /\ calls[c] = CallWith(c, calls[c].stage, calls[c].token, calls[c].sid,
                                 calls[c].doing, calls[c].answer)
      BY CallShape DEF ServerOK
    <3>2. calls' = [calls EXCEPT ![c].stage = "looked", ![c].doing = v,
                                 ![c].sid = calls[c].sid]
      BY <1>4, <2>1, <2>3 DEF Lookup
    <3>3. /\ calls' = [d \in Calls |-> calls'[d]]
          /\ calls'[c] = CallWith(c, "looked", calls[c].token, calls[c].sid, v, calls[c].answer)
          /\ \A d \in Calls \ {c} : calls'[d] = calls[d]
      BY <3>1, <3>2 DEF CallWith
    <3>4. QED
      BY <3>1, <3>3, MovesTo
  <2>5. LockTo(c, "shared")
    BY <1>4, LocksMove DEF ServerOK, Lookup
  <2>6. QED
    BY <1>1, <1>2, <2>1, <2>3, <2>4, <2>5, StageMoves, StageQuiet DEF ServerOK, LockTo, HeldAt, Doings, Calm
<1>5. QED
  BY <1>3, <1>4 DEF Calm

LEMMA WriteOK ==
    ASSUME ServerOK, NEW c \in Calls, Write(c)
    PROVE  ServerOK' /\ DbKeeps /\ Calm
<1>1. DbOK' /\ DbKeeps /\ RowsCalm /\ UNCHANGED <<rows, parent, now>>
  BY DbStays DEF Write, ServerOK
<1>2. /\ calls[c].token \in Nat /\ calls[c].sid \in Nat /\ calls[c].kind = "refresh"
      /\ CallOK(calls[c]) /\ calls[c].answer = "none" /\ calls[c].doing \in Doings
      /\ HasReadOK(calls[c]) /\ calls[c].stage = "looked"
  BY CallFacts DEF ServerOK, Write, At, CallOK, StageOK
<1>3. calls' = [calls EXCEPT ![c] = CallWith(c, "written", calls[c].token, calls[c].sid,
                                             calls[c].doing, calls[c].answer)]
  <2>1. /\ calls = [d \in Calls |-> calls[d]]
        /\ calls[c] = CallWith(c, calls[c].stage, calls[c].token, calls[c].sid,
                               calls[c].doing, calls[c].answer)
    BY CallShape DEF ServerOK
  <2>2. /\ calls' = [d \in Calls |-> calls'[d]]
        /\ calls'[c] = CallWith(c, "written", calls[c].token, calls[c].sid,
                                calls[c].doing, calls[c].answer)
        /\ \A d \in Calls \ {c} : calls'[d] = calls[d]
    BY <2>1 DEF Write, CallWith
  <2>3. QED
    BY <2>1, <2>2, MovesTo
<1>4. LockTo(c, "reserved")
  BY LocksMove DEF ServerOK, Write
<1>5. CallTypes' /\ CallsOK' /\ CallsCalm
  BY <1>1, <1>2, <1>3, <1>4, StageMoves, StageQuiet DEF ServerOK, LockTo, HeldAt, HasReadOK
<1>6. QED
  BY <1>1, <1>5 DEF ServerOK, Calm

LEMMA WriteLoginOK ==
    ASSUME ServerOK, NEW c \in Calls, WriteLogin(c)
    PROVE  ServerOK' /\ DbKeeps /\ Calm
<1>1. DbOK' /\ DbKeeps /\ RowsCalm /\ UNCHANGED <<rows, parent, now>>
  BY DbStays DEF WriteLogin, ServerOK
<1>2. /\ calls[c].token \in Nat /\ calls[c].sid \in Nat /\ calls[c].kind = "login"
      /\ CallOK(calls[c]) /\ calls[c].answer = "none"
  BY CallFacts DEF ServerOK, WriteLogin, At, CallOK, StageOK
<1>3. calls' = [calls EXCEPT ![c] = CallWith(c, "written", calls[c].token, calls[c].sid,
                                             "issue", calls[c].answer)]
  <2>1. /\ calls = [d \in Calls |-> calls[d]]
        /\ calls[c] = CallWith(c, calls[c].stage, calls[c].token, calls[c].sid,
                               calls[c].doing, calls[c].answer)
    BY CallShape DEF ServerOK
  <2>2. /\ calls' = [d \in Calls |-> calls'[d]]
        /\ calls'[c] = CallWith(c, "written", calls[c].token, calls[c].sid,
                                "issue", calls[c].answer)
        /\ \A d \in Calls \ {c} : calls'[d] = calls[d]
    BY <2>1 DEF WriteLogin, CallWith
  <2>3. QED
    BY <2>1, <2>2, MovesTo
<1>4. LockTo(c, "reserved")
  BY LocksMove DEF ServerOK, WriteLogin
<1>5. CallTypes' /\ CallsOK' /\ CallsCalm
  BY <1>1, <1>2, <1>3, <1>4, StageMoves, StageQuiet DEF ServerOK, LockTo, HeldAt, Doings, WriteLogin
<1>6. QED
  BY <1>1, <1>5 DEF ServerOK, Calm

LEMMA ValidateOK ==
    ASSUME ServerOK, NEW c \in Calls, Validate(c)
    PROVE  ServerOK' /\ DbKeeps /\ Calm
<1>1. DbOK' /\ DbKeeps /\ RowsCalm /\ UNCHANGED <<rows, parent, now, lock>>
  BY DbStays DEF Validate, ServerOK, server, db
<1>2. /\ calls[c].token \in Nat /\ calls[c].sid \in Nat /\ calls[c].kind \in {"logout", "revoke"}
      /\ CallOK(calls[c]) /\ calls[c].answer = "none" /\ calls[c].doing \in Doings
      /\ lock[c] = "none"
  BY CallFacts DEF ServerOK, Validate, At, CallOK, StageOK, HeldAt
<1>3. LockTo(c, "none")
  BY <1>1, <1>2, LocksMove DEF ServerOK
<1>4. CASE Answer(c, "invalid")
  <2>1. AnswerGoes(c, calls[c].token, calls[c].sid, "invalid")
    BY <1>4, AnswerTo DEF ServerOK
  <2>2. QED
    BY <1>1, <1>2, <1>3, <2>1, AnswerMoves, AnswerQuiet DEF ServerOK, LockTo, Answers, Calm
<1>5. CASE calls' = [calls EXCEPT ![c].stage = "valid"]
  <2>1. calls' = [calls EXCEPT ![c] = CallWith(c, "valid", calls[c].token, calls[c].sid,
                                               calls[c].doing, calls[c].answer)]
    <3>1. /\ calls = [d \in Calls |-> calls[d]]
          /\ calls[c] = CallWith(c, calls[c].stage, calls[c].token, calls[c].sid,
                                 calls[c].doing, calls[c].answer)
      BY CallShape DEF ServerOK
    <3>2. /\ calls' = [d \in Calls |-> calls'[d]]
          /\ calls'[c] = CallWith(c, "valid", calls[c].token, calls[c].sid,
                                  calls[c].doing, calls[c].answer)
          /\ \A d \in Calls \ {c} : calls'[d] = calls[d]
      BY <1>5, <3>1 DEF CallWith
    <3>3. QED
      BY <3>1, <3>2, MovesTo
  <2>2. QED
    BY <1>1, <1>2, <1>3, <2>1, StageMoves, StageQuiet DEF ServerOK, LockTo, HeldAt, Calm
<1>6. QED
  BY <1>4, <1>5 DEF Validate, Calm

LEMMA WriteRevocationOK ==
    ASSUME ServerOK, NEW c \in Calls, WriteRevocation(c)
    PROVE  ServerOK' /\ DbKeeps /\ Calm
<1>1. DbOK' /\ DbKeeps /\ RowsCalm /\ UNCHANGED <<rows, parent, now>>
  BY DbStays DEF WriteRevocation, ServerOK
<1>2. /\ calls[c].token \in Nat /\ calls[c].sid \in Nat /\ calls[c].kind \in {"logout", "revoke"}
      /\ CallOK(calls[c]) /\ calls[c].answer = "none" /\ lock[c] = "none"
  BY CallFacts DEF ServerOK, WriteRevocation, At, CallOK, StageOK, HeldAt
<1>3. CASE rows[calls[c].target] = Gone
  <2>1. AnswerGoes(c, calls[c].token, calls[c].sid, "failed")
    BY <1>3, AnswerTo DEF ServerOK, WriteRevocation
  <2>2. LockTo(c, "none")
    BY <1>2, <1>3, LocksMove DEF ServerOK, WriteRevocation
  <2>3. QED
    BY <1>1, <1>2, <2>1, <2>2, AnswerMoves, AnswerQuiet DEF ServerOK, LockTo, Answers, Calm
<1>4. CASE rows[calls[c].target] # Gone
  <2>1. calls' = [calls EXCEPT ![c] = CallWith(c, "written", calls[c].token, calls[c].sid,
                                               "revoke", calls[c].answer)]
    <3>1. /\ calls = [d \in Calls |-> calls[d]]
          /\ calls[c] = CallWith(c, calls[c].stage, calls[c].token, calls[c].sid,
                                 calls[c].doing, calls[c].answer)
      BY CallShape DEF ServerOK
    <3>2. /\ calls' = [d \in Calls |-> calls'[d]]
          /\ calls'[c] = CallWith(c, "written", calls[c].token, calls[c].sid,
                                  "revoke", calls[c].answer)
          /\ \A d \in Calls \ {c} : calls'[d] = calls[d]
      BY <1>4, <3>1 DEF WriteRevocation, CallWith
    <3>3. QED
      BY <3>1, <3>2, MovesTo
  <2>2. LockTo(c, "reserved")
    BY <1>4, LocksMove DEF ServerOK, WriteRevocation
  <2>3. QED
    BY <1>1, <1>2, <1>4, <2>1, <2>2, StageMoves, StageQuiet DEF ServerOK, LockTo, HeldAt, Doings, Calm
<1>5. QED
  BY <1>3, <1>4 DEF Calm

\* What a transaction that commits has read.
LEMMA WrittenFacts ==
    ASSUME ServerOK, NEW c \in Calls, At(c, "written")
    PROVE  /\ calls[c].doing = "issue" => calls[c].kind = "login" /\ Len(rows) < MaxSessions
           /\ calls[c].doing = "revoke" =>
                 /\ calls[c].kind \in {"logout", "revoke"}
                 /\ calls[c].target \in DOMAIN rows /\ rows[calls[c].target] # Gone
           /\ calls[c].doing \in {"rotate", "expired", "replay"} =>
                 /\ calls[c].kind = "refresh"
                 /\ calls[c].sid \in DOMAIN rows /\ ~rows[calls[c].sid].revoked
                 /\ rows[calls[c].sid] # Gone
                 /\ calls[c].doing = "expired" <=> Expired(rows[calls[c].sid], now)
                 /\ calls[c].doing = "rotate" => rows[calls[c].sid].cur = calls[c].token
                 /\ calls[c].doing = "replay" => rows[calls[c].sid].prev = calls[c].token
           /\ calls[c].kind # "none" /\ calls[c].kind \in Kinds
<1>1. /\ calls[c].stage = "written" /\ CallOK(calls[c]) /\ calls[c].token \in Nat
      /\ calls[c].kind # "none" /\ calls[c].kind \in Kinds /\ rows \in Seq(Rows)
  BY CallFacts DEF At, ServerOK, DbOK, DbTypes
<1>2. calls[c].kind = "refresh" =>
        /\ calls[c].doing \in {"rotate", "expired", "replay"}
        /\ calls[c].doing = Verdict(rows, calls[c].token, now)
        /\ calls[c].sid = SessionWith(rows, calls[c].token)
  BY <1>1 DEF CallOK, HasReadOK
<1>3. calls[c].kind = "login" => calls[c].doing = "issue" /\ Len(rows) < MaxSessions
  BY <1>1 DEF CallOK, HasReadOK, StageOK
<1>4. calls[c].kind \in {"logout", "revoke"} =>
        calls[c].doing = "revoke" /\ calls[c].target \in DOMAIN rows /\ rows[calls[c].target] # Gone
  BY <1>1 DEF CallOK, HasReadOK, StageOK, CarriesOK
<1>5. ASSUME calls[c].kind = "refresh"
      PROVE  /\ calls[c].sid \in DOMAIN rows /\ ~rows[calls[c].sid].revoked
             /\ rows[calls[c].sid] # Gone
             /\ calls[c].doing = "expired" <=> Expired(rows[calls[c].sid], now)
             /\ calls[c].doing = "rotate" => rows[calls[c].sid].cur = calls[c].token
             /\ calls[c].doing = "replay" => rows[calls[c].sid].prev = calls[c].token
  <2>1. PICK v : v = calls[c].doing
    OBVIOUS
  <2>2. PICK i : i = calls[c].sid
    OBVIOUS
  <2>3. v # "refuse" /\ v = Verdict(rows, calls[c].token, now) /\ i = SessionWith(rows, calls[c].token)
    BY <1>2, <1>5, <2>1, <2>2
  <2>4. QED
    BY <1>1, <2>1, <2>2, <2>3, VerdictMeans
<1>6. QED
  BY <1>1, <1>2, <1>3, <1>4, <1>5 DEF Kinds

LEMMA CommitLoginOK ==
    ASSUME ServerOK, NEW c \in Calls, CommitLogin(c)
    PROVE  ServerOK' /\ DbKeeps
<1>1. calls[c].kind = "login" /\ Len(rows) < MaxSessions /\ MaxSessions \in Nat
  BY WrittenFacts, SessionConstants DEF CommitLogin
<1>2. PICK n, m : n = Len(parent) + 1 /\ m = Len(rows) + 1
  OBVIOUS
<1>3. n \in Nat /\ m \in Nat
  BY <1>2 DEF ServerOK, DbOK, DbTypes
<1>4. DbOK' /\ DbKeeps /\ Belongs(n, m)'
  BY <1>1, <1>2, IssueKeeps DEF ServerOK, CommitLogin
<1>5. AnswerGoes(c, n, m, "ok")
  BY <1>2, GrantedTo DEF ServerOK, CommitLogin
<1>6. LockTo(c, "none") /\ \A d \in Calls \ {c} : lock[d] = "none"
  BY LocksMove DEF ServerOK, CommitLogin
<1>7. CallTypes' /\ CallsOK'
  BY <1>1, <1>3, <1>4, <1>5, <1>6, AnswerMoves DEF ServerOK, LockTo, Answers
<1>8. QED
  BY <1>4, <1>7 DEF ServerOK

LEMMA CommitRotationOK ==
    ASSUME ServerOK, NEW c \in Calls, CommitRotation(c)
    PROVE  ServerOK' /\ DbKeeps
<1>1. /\ calls[c].kind = "refresh" /\ calls[c].sid \in DOMAIN rows
      /\ ~rows[calls[c].sid].revoked /\ rows[calls[c].sid].cur = calls[c].token
  BY WrittenFacts DEF CommitRotation
<1>2. PICK n, i : n = Len(parent) + 1 /\ i = calls[c].sid
  OBVIOUS
<1>3. n \in Nat /\ i \in Nat
  BY <1>2, CallFacts DEF ServerOK, DbOK, DbTypes
<1>4. DbOK' /\ DbKeeps /\ Belongs(n, i)'
  BY <1>1, <1>2, RotateKeeps DEF ServerOK, CommitRotation
<1>5. AnswerGoes(c, n, i, "ok")
  BY <1>2, GrantedTo DEF ServerOK, CommitRotation
<1>6. LockTo(c, "none") /\ \A d \in Calls \ {c} : lock[d] = "none"
  BY LocksMove DEF ServerOK, CommitRotation
<1>7. CallTypes' /\ CallsOK'
  BY <1>1, <1>3, <1>4, <1>5, <1>6, AnswerMoves DEF ServerOK, LockTo, Answers
<1>8. QED
  BY <1>4, <1>7 DEF ServerOK

LEMMA CommitEndOK ==
    ASSUME ServerOK, NEW c \in Calls, CommitEnd(c)
    PROVE  ServerOK' /\ DbKeeps /\ Calm
<1>1. /\ calls[c].kind = "refresh" /\ calls[c].sid \in DOMAIN rows
      /\ rows[calls[c].sid] # Gone /\ calls[c].doing \in {"expired", "replay"}
  BY WrittenFacts DEF CommitEnd
<1>2. PICK i, reason : i = calls[c].sid /\ reason = calls[c].doing
  OBVIOUS
<1>3. i \in Nat /\ calls[c].token \in Nat /\ calls[c].answer = "none"
  BY <1>2, CallFacts DEF ServerOK, CommitEnd, At
<1>4. DbOK' /\ DbKeeps /\ RowsCalm /\ rows'[i].revoked
  BY <1>1, <1>2, RevokeKeeps DEF ServerOK, CommitEnd
<1>5. PICK a \in {"replay", "refused"} :
          a = IF calls[c].doing = "replay" THEN "replay" ELSE "refused"
  OBVIOUS
<1>6. AnswerGoes(c, calls[c].token, i, a) /\ AnswerGoes(c, calls[c].token, calls[c].sid, a)
  BY <1>2, <1>5, AnswerTo DEF ServerOK, CommitEnd
<1>7. LockTo(c, "none") /\ \A d \in Calls \ {c} : lock[d] = "none"
  BY LocksMove DEF ServerOK, CommitEnd
<1>8. CallTypes' /\ CallsOK' /\ CallsCalm
  BY <1>1, <1>2, <1>3, <1>4, <1>5, <1>6, <1>7, AnswerMoves, AnswerQuiet DEF ServerOK, LockTo, Answers
<1>9. QED
  BY <1>4, <1>8 DEF ServerOK, Calm

LEMMA CommitRevocationOK ==
    ASSUME ServerOK, NEW c \in Calls, CommitRevocation(c)
    PROVE  ServerOK' /\ DbKeeps /\ Calm
<1>1. /\ calls[c].kind \in {"logout", "revoke"} /\ calls[c].target \in DOMAIN rows
      /\ rows[calls[c].target] # Gone
  BY WrittenFacts DEF CommitRevocation
<1>2. calls[c].sid \in Nat /\ calls[c].token \in Nat /\ calls[c].answer = "none"
  BY CallFacts DEF ServerOK, CommitRevocation, At
<1>3. DbOK' /\ DbKeeps /\ RowsCalm
  BY <1>1, RevokeKeeps DEF ServerOK, CommitRevocation
<1>4. AnswerGoes(c, calls[c].token, calls[c].sid, "ok")
  BY AnswerTo DEF ServerOK, CommitRevocation
<1>5. LockTo(c, "none") /\ \A d \in Calls \ {c} : lock[d] = "none"
  BY LocksMove DEF ServerOK, CommitRevocation
<1>6. CallTypes' /\ CallsOK' /\ CallsCalm
  BY <1>1, <1>2, <1>3, <1>4, <1>5, AnswerMoves, AnswerQuiet DEF ServerOK, LockTo, Answers
<1>7. QED
  BY <1>3, <1>6 DEF ServerOK, Calm

LEMMA FailOK ==
    ASSUME ServerOK, NEW c \in Calls, Fail(c)
    PROVE  ServerOK' /\ DbKeeps /\ Calm
<1>1. DbOK' /\ DbKeeps /\ RowsCalm /\ UNCHANGED <<rows, parent, now>>
  BY DbStays DEF Fail, ServerOK
<1>2. calls[c].sid \in Nat /\ calls[c].token \in Nat /\ calls[c].kind # "none" /\ calls[c].answer = "none"
  BY CallFacts DEF ServerOK, Fail, At
<1>3. PICK a \in {"failed", "refused"} :
          a = IF calls[c].kind = "refresh" THEN "refused" ELSE "failed"
  OBVIOUS
<1>4. AnswerGoes(c, calls[c].token, calls[c].sid, a)
  BY <1>3, AnswerTo DEF ServerOK, Fail
<1>5. LockTo(c, "none")
  BY LocksMove DEF ServerOK, Fail
<1>6. CallTypes' /\ CallsOK' /\ CallsCalm
  BY <1>1, <1>2, <1>3, <1>4, <1>5, AnswerMoves, AnswerQuiet DEF ServerOK, LockTo, Answers
<1>7. QED
  BY <1>1, <1>6 DEF ServerOK, Calm

\* A change of the table that happens while nobody has a lock.
LEMMA CallsStay ==
    ASSUME ServerOK, DbOK', DbKeeps, UNCHANGED <<calls, lock>>, \A c \in Calls : lock[c] = "none"
    PROVE  ServerOK'
<1>1. CallTypes'
  BY DEF ServerOK, CallTypes
<1>2. ASSUME NEW c \in Calls
      PROVE  lock'[c] = HeldAt(calls'[c].stage) /\ CallOK(calls[c])'
  <2>1. PICK call \in CallStates : call = calls[c]
    BY DEF ServerOK, CallTypes
  <2>2. CallOK(call) /\ lock[c] = HeldAt(call.stage) /\ calls'[c] = call
    BY <2>1 DEF CallsOK, ServerOK
  <2>3. CallOK(call)'
    BY <2>2, CallStays DEF HeldAt, ServerOK
  <2>4. QED
    BY <2>2, <2>3 DEF CallOK, StageOK, CarriesOK, HasReadOK, Belongs
<1>3. QED
  BY <1>1, <1>2 DEF CallsOK, ServerOK

LEMMA MaybeCleanupOK ==
    ASSUME ServerOK, NEW c \in Calls, MaybeCleanup(c)
    PROVE  ServerOK' /\ DbKeeps /\ Calm
<1>1. DbOK' /\ DbKeeps /\ RowsCalm
  BY CleanedKeeps DEF ServerOK, MaybeCleanup
<1>2. QED
  BY <1>1, CallsStay, CallsUnchanged DEF MaybeCleanup, AutoCommit, Calls, Calm

LEMMA TickOK ==
    ASSUME ServerOK, Tick
    PROVE  ServerOK' /\ DbKeeps /\ Calm
<1>1. MaxTime \in Nat
  BY SessionConstants
<1>2. DbOK' /\ DbKeeps /\ RowsCalm
  BY <1>1, TickKeeps DEF ServerOK, Tick, server, db
<1>3. \A c \in Calls : lock[c] = "none"
  BY DEF Tick, At, ServerOK, CallsOK, HeldAt
<1>4. QED
  BY <1>2, <1>3, CallsStay, CallsUnchanged DEF Tick, server, db, Calm

\* What the tabs hold stays true whatever the server does.
LEMMA AuthsStay ==
    ASSUME DbOK, DbOK', DbKeeps, AuthsOK, UNCHANGED <<tabs, storage>>
    PROVE  AuthsOK'
<1>1. /\ DOMAIN rows = 1..Len(rows) /\ DOMAIN rows' = 1..Len(rows') /\ Len(rows) \in Nat
      /\ DOMAIN parent = 1..Len(parent) /\ DOMAIN parent' = 1..Len(parent') /\ Len(parent) \in Nat
      /\ Len(rows') \in Nat /\ Len(parent') \in Nat
  BY DEF DbOK, DbTypes
<1>2. DOMAIN rows \subseteq DOMAIN rows' /\ DOMAIN parent \subseteq DOMAIN parent'
  BY <1>1 DEF DbKeeps
<1>3. ASSUME NEW token, NEW s, Belongs(token, s)
      PROVE  Belongs(token, s)'
  BY <1>3, <1>2 DEF Belongs, DbKeeps
<1>4. ASSUME NEW auth, AuthOK(auth)
      PROVE  AuthOK(auth)'
  BY <1>3, <1>4 DEF AuthOK
<1>5. QED
  BY <1>4 DEF AuthsOK

LEMMA ServerStepOK ==
    ASSUME IInv, NEW c \in Calls, ServerStep(c)
    PROVE  IInv'
<1>1. ServerOK
  BY DEF IInv, ServerOK, DbOK
<1>2. ServerOK' /\ DbKeeps
  BY <1>1, NotServedOK, LookupOK, WriteOK, WriteLoginOK, ValidateOK, WriteRevocationOK,
     CommitLoginOK, CommitRotationOK, CommitEndOK, CommitRevocationOK, FailOK, MaybeCleanupOK
     DEF ServerStep
<1>3. UNCHANGED <<tabs, storage, own, torn, exposed>>
  BY DEF ServerStep, client, NotServed, Lookup, Write, WriteLogin, Validate, WriteRevocation,
         CommitLogin, CommitRotation, CommitEnd, CommitRevocation, Fail, MaybeCleanup
<1>4. AuthsOK'
  BY <1>1, <1>2, <1>3, AuthsStay DEF IInv, ServerOK
<1>5. TabTypes'
  BY <1>3 DEF IInv, TabTypes
<1>6. QED
  BY <1>2, <1>4, <1>5 DEF IInv, ServerOK, DbOK

-----------------------------------------------------------------------------
(* The steps of the tabs.                                                   *)

\* A request as it is sent.
Sent(kind, t, token, sid, target, connect) ==
    [stage |-> "sent", kind |-> kind, tab |-> t, token |-> token, sid |-> sid,
     target |-> target, doing |-> "none", answer |-> "none", stale |-> FALSE,
     connect |-> connect, retried |-> FALSE, on |-> NoCall]

NewFields(kind, t) ==
    [f \in Fields |->
        IF f = "stage" THEN "sent" ELSE IF f = "kind" THEN kind ELSE IF f = "tab" THEN t
        ELSE IF f = "sid" THEN tabs[t].auth.session ELSE Idle[f]]

LEMMA NewCallIs ==
    ASSUME NEW kind, NEW t
    PROVE  NewCall(kind, t) = NewFields(kind, t)
BY DEF NewCall, NewFields, Idle, Fields

LEMMA RefreshCallIs ==
    ASSUME NEW t, NEW connect
    PROVE  RefreshCall(t, connect) =
             Sent("refresh", t, tabs[t].auth.refresh, tabs[t].auth.session, 0, connect)
<1>1. PICK r : r = RefreshCall(t, connect)
  OBVIOUS
<1>2. r = [f \in Fields |-> IF f = "token" THEN tabs[t].auth.refresh ELSE IF f = "connect" THEN connect
                           ELSE NewFields("refresh", t)[f]]
  BY <1>1, NewCallIs DEF RefreshCall, NewFields, Idle, Fields
<1>3. /\ r = [f \in Fields |-> r[f]]
      /\ r.stage = "sent" /\ r.kind = "refresh" /\ r.tab = t /\ r.token = tabs[t].auth.refresh
      /\ r.sid = tabs[t].auth.session /\ r.target = 0 /\ r.doing = "none"
      /\ r.answer = "none" /\ r.stale = FALSE /\ r.connect = connect
      /\ r.retried = FALSE /\ r.on = NoCall
  BY <1>2 DEF NewFields, Idle, Fields
<1>4. r = [stage |-> r.stage, kind |-> r.kind, tab |-> r.tab, token |-> r.token, sid |-> r.sid,
           target |-> r.target, doing |-> r.doing, answer |-> r.answer, stale |-> r.stale,
           connect |-> r.connect, retried |-> r.retried, on |-> r.on]
  BY <1>3 DEF Fields
<1>5. QED
  BY <1>1, <1>3, <1>4, Zenon DEF Sent

LEMMA TargetCallIs ==
    ASSUME NEW kind, NEW t, NEW target
    PROVE  [NewCall(kind, t) EXCEPT !.target = target] =
             Sent(kind, t, 0, tabs[t].auth.session, target, FALSE)
<1>1. PICK r : r = [NewCall(kind, t) EXCEPT !.target = target]
  OBVIOUS
<1>2. r = [f \in Fields |-> IF f = "target" THEN target ELSE NewFields(kind, t)[f]]
  BY <1>1, NewCallIs DEF NewFields, Idle, Fields
<1>3. /\ r = [f \in Fields |-> r[f]]
      /\ r.stage = "sent" /\ r.kind = kind /\ r.tab = t /\ r.token = 0
      /\ r.sid = tabs[t].auth.session /\ r.target = target /\ r.doing = "none"
      /\ r.answer = "none" /\ r.stale = FALSE /\ r.connect = FALSE
      /\ r.retried = FALSE /\ r.on = NoCall
  BY <1>2 DEF NewFields, Idle, Fields
<1>4. r = [stage |-> r.stage, kind |-> r.kind, tab |-> r.tab, token |-> r.token, sid |-> r.sid,
           target |-> r.target, doing |-> r.doing, answer |-> r.answer, stale |-> r.stale,
           connect |-> r.connect, retried |-> r.retried, on |-> r.on]
  BY <1>3 DEF Fields
<1>5. QED
  BY <1>1, <1>3, <1>4, Zenon DEF Sent

LEMMA LoginCallIs ==
    ASSUME NEW t
    PROVE  [NewCall("login", t) EXCEPT !.sid = 0] = Sent("login", t, 0, 0, 0, FALSE)
<1>1. PICK r : r = [NewCall("login", t) EXCEPT !.sid = 0]
  OBVIOUS
<1>2. r = [f \in Fields |-> IF f = "sid" THEN 0 ELSE NewFields("login", t)[f]]
  BY <1>1, NewCallIs DEF NewFields, Idle, Fields
<1>3. /\ r = [f \in Fields |-> r[f]]
      /\ r.stage = "sent" /\ r.kind = "login" /\ r.tab = t /\ r.token = 0
      /\ r.sid = 0 /\ r.target = 0 /\ r.doing = "none"
      /\ r.answer = "none" /\ r.stale = FALSE /\ r.connect = FALSE
      /\ r.retried = FALSE /\ r.on = NoCall
  BY <1>2 DEF NewFields, Idle, Fields
<1>4. r = [stage |-> r.stage, kind |-> r.kind, tab |-> r.tab, token |-> r.token, sid |-> r.sid,
           target |-> r.target, doing |-> r.doing, answer |-> r.answer, stale |-> r.stale,
           connect |-> r.connect, retried |-> r.retried, on |-> r.on]
  BY <1>3 DEF Fields
<1>5. QED
  BY <1>1, <1>3, <1>4, Zenon DEF Sent

\* What a request must carry when it is sent.
LEMMA SentOK ==
    ASSUME DbOK, NEW kind \in {"login", "refresh", "logout", "revoke"}, NEW t \in Tabs,
           NEW token \in Nat, NEW sid \in Nat, NEW target \in Nat, NEW connect \in BOOLEAN,
           token \in 0..Len(parent), sid \in 0..Len(rows),
           kind = "refresh" => Belongs(token, sid),
           kind \in {"logout", "revoke"} => target \in DOMAIN rows /\ sid \in DOMAIN rows
    PROVE  /\ Sent(kind, t, token, sid, target, connect) \in CallStates
           /\ CallOK(Sent(kind, t, token, sid, target, connect))
           /\ HeldAt(Sent(kind, t, token, sid, target, connect).stage) = "none"
<1>1. PICK r : r = Sent(kind, t, token, sid, target, connect)
  OBVIOUS
<1>2. r \in CallStates
  BY <1>1 DEF Sent, CallStates, Stages, Kinds, Doings, Answers
<1>3. /\ r.stage = "sent" /\ r.kind = kind /\ r.token = token /\ r.sid = sid
      /\ r.target = target /\ r.answer = "none" /\ r.stale = FALSE
  BY <1>1 DEF Sent
<1>4. StageOK(r) /\ CarriesOK(r) /\ HasReadOK(r)
  BY <1>3 DEF StageOK, CarriesOK, HasReadOK
<1>5. QED
  BY <1>1, <1>2, <1>3, <1>4 DEF CallOK, HeldAt

\* What a tab is logged in with.
LEMMA AuthFacts ==
    ASSUME IInv, NEW t \in Tabs
    PROVE  /\ tabs[t] \in TabStates /\ tabs[t].auth \in Auths
           /\ tabs[t].auth.refresh \in Nat /\ tabs[t].auth.session \in Nat
           /\ tabs[t].auth.session \in 0..Len(rows) /\ tabs[t].auth.refresh \in 0..Len(parent)
           /\ tabs[t].auth.refresh = 0 <=> tabs[t].auth.session = 0
           /\ tabs[t].auth.refresh # 0 =>
                 /\ Belongs(tabs[t].auth.refresh, tabs[t].auth.session)
                 /\ tabs[t].auth.session \in DOMAIN rows
           /\ tabs[t].shown \in BOOLEAN
<1>1. /\ tabs[t] \in TabStates /\ tabs[t].auth \in Auths /\ AuthOK(tabs[t].auth)
      /\ DOMAIN rows = 1..Len(rows) /\ DOMAIN parent = 1..Len(parent)
      /\ Len(rows) \in Nat /\ Len(parent) \in Nat
  BY DEF IInv, TabTypes, TabStates, AuthsOK, DbTypes
<1>2. PICK auth \in Auths : auth = tabs[t].auth
  BY <1>1
<1>3. auth.refresh \in Nat /\ auth.session \in Nat /\ tabs[t].shown \in BOOLEAN
  BY <1>1, <1>2 DEF Auths, TabStates
<1>4. CASE auth = NoAuth
  BY <1>1, <1>2, <1>3, <1>4 DEF NoAuth
<1>5. CASE Belongs(auth.refresh, auth.session)
  BY <1>1, <1>2, <1>3, <1>5 DEF Belongs
<1>6. QED
  BY <1>1, <1>2, <1>4, <1>5 DEF AuthOK

\* Calls that move without a transaction.
LEMMA CallsMove ==
    ASSUME ServerOK, UNCHANGED <<rows, parent, now, lock>>,
           calls' = [w \in Calls |-> calls'[w]],
           \A w \in Calls : \/ calls'[w] = calls[w]
                            \/ /\ calls'[w] \in CallStates
                               /\ lock[w] = HeldAt(calls'[w].stage)
                               /\ CallOK(calls'[w])
    PROVE  ServerOK'
<1>1. \A w \in Calls : /\ calls'[w] \in CallStates /\ lock[w] = HeldAt(calls'[w].stage)
                       /\ CallOK(calls'[w])
  BY CallFacts DEF ServerOK
<1>2. CallTypes'
  BY <1>1 DEF ServerOK, CallTypes
<1>3. ASSUME NEW w \in Calls
      PROVE  lock'[w] = HeldAt(calls'[w].stage) /\ CallOK(calls[w])'
  BY <1>1 DEF CallOK, StageOK, CarriesOK, HasReadOK, Belongs
<1>4. DbOK'
  BY DbStays DEF ServerOK
<1>5. QED
  BY <1>2, <1>3, <1>4 DEF ServerOK, CallsOK

\* Tabs whose auth state is replaced by one that is as good.
LEMMA TabsMove ==
    ASSUME IInv, UNCHANGED <<rows, parent, now>>, NEW t \in Tabs, NEW auth \in Auths, AuthOK(auth),
           NEW promise \in Calls \cup {NoCall}, NEW shown \in BOOLEAN,
           SetAuth(t, auth, promise, shown)
    PROVE  tabs' \in [Tabs -> TabStates] /\ storage' \in Auths /\ AuthsOK'
<1>1. [auth |-> auth, promise |-> promise, shown |-> shown] \in TabStates
  BY DEF TabStates
<1>2. tabs' \in [Tabs -> TabStates] /\ storage' \in Auths
  BY <1>1 DEF IInv, TabTypes, SetAuth
<1>3. \A u \in Tabs : tabs'[u].auth = IF u = t THEN auth ELSE tabs[u].auth
  BY DEF IInv, TabTypes, SetAuth
<1>4. AuthsOK'
  BY <1>3 DEF IInv, AuthsOK, AuthOK, Belongs, SetAuth
<1>5. QED
  BY <1>2, <1>4

LEMMA ServerIs == IInv <=> ServerOK /\ TabTypes /\ AuthsOK
BY DEF IInv, ServerOK, DbOK

\* One call becomes r, without a transaction.
LEMMA OneMoves ==
    ASSUME ServerOK, UNCHANGED <<rows, parent, now, lock>>, NEW c \in Calls, NEW r \in CallStates,
           calls' = [calls EXCEPT ![c] = r],
           lock[c] = HeldAt(r.stage), CallOK(r)
    PROVE  ServerOK'
<1>1. /\ calls' = [w \in Calls |-> calls'[w]] /\ calls'[c] = r
      /\ \A w \in Calls \ {c} : calls'[w] = calls[w]
  BY DEF ServerOK, CallTypes
<1>2. QED
  BY <1>1, CallsMove

LEMMA StartLoginOK ==
    ASSUME IInv, NEW t \in Tabs, NEW c \in Calls, StartLogin(t, c)
    PROVE  IInv'
<1>1. UNCHANGED <<rows, parent, lock, now, tabs, storage, own, torn, exposed>>
  BY DEF StartLogin, db, client
<1>2. lock[c] = "none" /\ DbOK /\ ServerOK
  BY CallFacts, ServerIs DEF StartLogin, At, HeldAt, ServerOK
<1>3. PICK r : r = Sent("login", t, 0, 0, 0, FALSE)
  OBVIOUS
<1>4. Len(rows) \in Nat /\ Len(parent) \in Nat
  BY DEF IInv, DbTypes
<1>5. calls' = [calls EXCEPT ![c] = r] /\ r \in CallStates /\ CallOK(r) /\ HeldAt(r.stage) = "none"
  <2>1. r \in CallStates /\ CallOK(r) /\ HeldAt(r.stage) = "none"
    <3>1. PICK kind \in {"login", "refresh", "logout", "revoke"}, none \in Nat, no \in BOOLEAN :
              kind = "login" /\ none = 0 /\ no = FALSE
      OBVIOUS
    <3>2. r = Sent(kind, t, none, none, none, no) /\ kind \notin {"refresh", "logout", "revoke"}
      BY <1>3, <3>1
    <3>3. none \in 0..Len(parent) /\ none \in 0..Len(rows)
      BY <1>4, <3>1
    <3>4. QED
      BY <1>2, <3>2, <3>3, SentOK, Zenon
  <2>2. QED
    BY <1>3, <2>1, LoginCallIs DEF StartLogin
<1>6. ServerOK'
  BY <1>1, <1>2, <1>5, OneMoves
<1>7. TabTypes' /\ AuthsOK'
  BY <1>1 DEF IInv, TabTypes, AuthsOK, AuthOK, Belongs
<1>8. QED
  BY <1>6, <1>7 DEF IInv, ServerOK, DbOK

\* The refresh a tab may start when it has a token.
LEMMA RefreshCallOK ==
    ASSUME IInv, NEW t \in Tabs, tabs[t].auth.refresh # 0, NEW connect \in BOOLEAN,
           NEW r, r = RefreshCall(t, connect)
    PROVE  r \in CallStates /\ CallOK(r) /\ HeldAt(r.stage) = "none"
<1>1. DbOK
  BY DEF IInv, DbOK
<1>2. PICK token \in Nat, sid \in Nat : token = tabs[t].auth.refresh /\ sid = tabs[t].auth.session
  BY AuthFacts
<1>3. token \in 0..Len(parent) /\ sid \in 0..Len(rows) /\ Belongs(token, sid)
  BY <1>2, AuthFacts
<1>4. r = Sent("refresh", t, token, sid, 0, connect)
  BY <1>2, RefreshCallIs
<1>5. PICK kind \in {"login", "refresh", "logout", "revoke"}, none \in Nat :
          kind = "refresh" /\ none = 0
  OBVIOUS
<1>6. r = Sent(kind, t, token, sid, none, connect) /\ kind \notin {"logout", "revoke"}
  BY <1>4, <1>5
<1>7. /\ Sent(kind, t, token, sid, none, connect) \in CallStates
      /\ CallOK(Sent(kind, t, token, sid, none, connect))
      /\ HeldAt(Sent(kind, t, token, sid, none, connect).stage) = "none"
  <2>1. /\ kind = "refresh" => Belongs(token, sid)
        /\ kind \in {"logout", "revoke"} => none \in DOMAIN rows /\ sid \in DOMAIN rows
    BY <1>3, <1>6
  <2>2. QED
    BY <1>1, <1>3, <2>1, SentOK
<1>8. QED
  BY <1>6, <1>7

LEMMA PromiseTo ==
    ASSUME IInv, NEW t \in Tabs, NEW p \in Calls \cup {NoCall}, tabs' = [tabs EXCEPT ![t].promise = p],
           UNCHANGED <<rows, parent, now, storage>>
    PROVE  tabs' \in [Tabs -> TabStates] /\ AuthsOK'
<1>1. tabs[t] \in TabStates /\ tabs = [u \in Tabs |-> tabs[u]]
  BY DEF IInv, TabTypes
<1>2. tabs[t] = [auth |-> tabs[t].auth, promise |-> tabs[t].promise, shown |-> tabs[t].shown]
  BY <1>1 DEF TabStates
<1>3. /\ tabs' = [u \in Tabs |-> tabs'[u]]
      /\ tabs'[t] = [auth |-> tabs[t].auth, promise |-> p, shown |-> tabs[t].shown]
      /\ \A u \in Tabs \ {t} : tabs'[u] = tabs[u]
  BY <1>1, <1>2
<1>4. PICK auth \in Auths, shown \in BOOLEAN :
          auth = tabs[t].auth /\ AuthOK(auth) /\ shown = tabs[t].shown
  BY <1>1 DEF TabStates, IInv, AuthsOK
<1>5. tabs'[t] \in TabStates
  BY <1>1, <1>3, <1>4 DEF TabStates
<1>6. tabs' \in [Tabs -> TabStates] /\ \A u \in Tabs : tabs'[u].auth = tabs[u].auth
  BY <1>3, <1>5 DEF IInv, TabTypes
<1>7. QED
  BY <1>6 DEF IInv, AuthsOK, AuthOK, Belongs

LEMMA StartRefreshOK ==
    ASSUME IInv, NEW t \in Tabs, NEW c \in Calls, StartRefresh(t, c)
    PROVE  IInv'
<1>1. UNCHANGED <<rows, parent, lock, now, storage, own, torn, exposed>>
  BY DEF StartRefresh, db
<1>2. lock[c] = "none" /\ ServerOK
  BY CallFacts, ServerIs DEF StartRefresh, At, HeldAt, ServerOK
<1>3. PICK r : r = RefreshCall(t, TRUE)
  OBVIOUS
<1>4. calls' = [calls EXCEPT ![c] = r] /\ r \in CallStates /\ CallOK(r) /\ HeldAt(r.stage) = "none"
  BY <1>3, RefreshCallOK DEF StartRefresh
<1>5. ServerOK'
  BY <1>1, <1>2, <1>4, OneMoves
<1>6. tabs' \in [Tabs -> TabStates] /\ AuthsOK'
  BY <1>1, PromiseTo DEF StartRefresh
<1>7. TabTypes'
  BY <1>1, <1>6 DEF IInv, TabTypes
<1>8. QED
  BY <1>5, <1>6, <1>7 DEF IInv, ServerOK, DbOK

LEMMA StaleCall ==
    ASSUME ServerOK, NEW w \in Calls, calls[w].kind = "refresh",
           NEW r, r = [calls[w] EXCEPT !.stale = TRUE]
    PROVE  /\ r \in CallStates /\ lock[w] = HeldAt(r.stage) /\ CallOK(r)
           /\ r.kind = "refresh" /\ r.sid = calls[w].sid /\ r.tab = calls[w].tab
           /\ r.token = calls[w].token /\ r.answer = calls[w].answer
<1>1. calls[w] \in CallStates /\ lock[w] = HeldAt(calls[w].stage) /\ CallOK(calls[w])
  BY CallFacts DEF ServerOK
<1>2. r \in CallStates
  BY <1>1 DEF CallStates
<1>3. /\ r.stage = calls[w].stage /\ r.kind = calls[w].kind /\ r.tab = calls[w].tab
      /\ r.token = calls[w].token /\ r.sid = calls[w].sid /\ r.target = calls[w].target
      /\ r.doing = calls[w].doing /\ r.answer = calls[w].answer
  BY <1>1 DEF CallStates
<1>4. StageOK(r) /\ CarriesOK(r) /\ HasReadOK(r)
  BY <1>1, <1>3 DEF CallOK, StageOK, CarriesOK, HasReadOK
<1>5. QED
  BY <1>1, <1>2, <1>3, <1>4 DEF CallOK

LEMMA OutdatedOK ==
    ASSUME ServerOK, NEW w \in Calls, NEW t, NEW r, r = Outdated(w, t)
    PROVE  /\ r \in CallStates /\ lock[w] = HeldAt(r.stage) /\ CallOK(r)
           /\ r.kind = calls[w].kind /\ r.sid = calls[w].sid /\ r.tab = calls[w].tab
           /\ r.token = calls[w].token /\ r.answer = calls[w].answer
<1>1. CASE w \in Refreshing(t)
  <2>1. calls[w].kind = "refresh" /\ r = [calls[w] EXCEPT !.stale = TRUE]
    BY <1>1 DEF Refreshing, Outdated
  <2>2. QED
    BY <2>1, StaleCall, Zenon
<1>2. CASE w \notin Refreshing(t)
  BY <1>2, CallFacts DEF Outdated, ServerOK
<1>3. QED
  BY <1>1, <1>2

LEMMA ClearTabOK ==
    ASSUME IInv, NEW t \in Tabs, NEW done, ClearTab(t, done), UNCHANGED <<rows, parent, now>>
    PROVE  /\ tabs' \in [Tabs -> TabStates] /\ storage' \in Auths /\ AuthsOK'
           /\ own' \in [Tabs -> Nat] /\ torn' \in SUBSET Tabs
<1>1. PICK auth, no : auth = NoAuth /\ no = FALSE
  OBVIOUS
<1>2. auth \in Auths /\ AuthOK(auth) /\ no \in BOOLEAN
  BY <1>1 DEF NoAuth, Auths, AuthOK
<1>3. SetAuth(t, auth, NoCall, no)
  BY <1>1 DEF ClearTab
<1>4. tabs' \in [Tabs -> TabStates] /\ storage' \in Auths /\ AuthsOK'
  BY <1>2, <1>3, TabsMove
<1>5. own' \in [Tabs -> Nat] /\ torn' \in SUBSET Tabs
  BY DEF ClearTab, IInv, TabTypes
<1>6. QED
  BY <1>4, <1>5

LEMMA ClearOK ==
    ASSUME IInv, NEW t \in Tabs, NEW done \in SUBSET Calls, \A d \in done : lock[d] = "none",
           ClearLoggedIn(t, done), UNCHANGED <<rows, parent, now, lock, exposed>>
    PROVE  IInv'
<1>1. ServerOK
  BY ServerIs
<1>2. ServerOK'
  <2>1. calls' = [w \in Calls |-> calls'[w]]
    BY DEF ClearLoggedIn
  <2>2. ASSUME NEW w \in Calls
        PROVE  /\ calls'[w] \in CallStates
               /\ lock[w] = HeldAt(calls'[w].stage)
               /\ CallOK(calls'[w])
    <3>1. CASE w \in done
      <4>1. calls'[w] = Idle /\ lock[w] = "none"
        BY <3>1 DEF ClearLoggedIn
      <4>2. Idle.stage = "idle"
        BY DEF Idle
      <4>3. QED
        BY <4>1, <4>2, IdleType DEF HeldAt
    <3>2. CASE w \notin done
      <4>1. calls'[w] = Outdated(w, t)
        BY <3>2 DEF ClearLoggedIn
      <4>2. QED
        BY <1>1, <4>1, OutdatedOK
    <3>3. QED
      BY <3>1, <3>2
  <2>3. QED
    BY <1>1, <2>1, <2>2, CallsMove
<1>3. ClearTab(t, done)
  BY DEF ClearLoggedIn
<1>4. /\ tabs' \in [Tabs -> TabStates] /\ storage' \in Auths /\ AuthsOK'
      /\ own' \in [Tabs -> Nat] /\ torn' \in SUBSET Tabs
  BY <1>3, ClearTabOK
<1>5. QED
  BY <1>2, <1>4 DEF IInv, ServerOK, DbOK, TabTypes

LEMMA ClientExpiresOK ==
    ASSUME IInv, NEW t \in Tabs, ClientExpires(t)
    PROVE  IInv'
BY ClearOK DEF ClientExpires, server, db

LEMMA ConnectsWithoutOK ==
    ASSUME IInv, NEW t \in Tabs, ConnectsWithout(t)
    PROVE  IInv'
BY ClearOK DEF ConnectsWithout, server, db

\* A connection attempt joins a refresh.
LEMMA JoinedCall ==
    ASSUME ServerOK, NEW w \in Calls, calls[w].kind = "refresh",
           NEW r, r = [calls[w] EXCEPT !.connect = TRUE]
    PROVE  /\ r \in CallStates /\ lock[w] = HeldAt(r.stage) /\ CallOK(r)
           /\ r.kind = "refresh" /\ r.sid = calls[w].sid /\ r.tab = calls[w].tab
           /\ r.token = calls[w].token /\ r.answer = calls[w].answer /\ r.stale = calls[w].stale
<1>1. calls[w] \in CallStates /\ lock[w] = HeldAt(calls[w].stage) /\ CallOK(calls[w])
  BY CallFacts DEF ServerOK
<1>2. r \in CallStates
  BY <1>1 DEF CallStates
<1>3. /\ r.stage = calls[w].stage /\ r.kind = calls[w].kind /\ r.tab = calls[w].tab
      /\ r.token = calls[w].token /\ r.sid = calls[w].sid /\ r.target = calls[w].target
      /\ r.doing = calls[w].doing /\ r.answer = calls[w].answer /\ r.stale = calls[w].stale
  BY <1>1 DEF CallStates
<1>4. StageOK(r) /\ CarriesOK(r) /\ HasReadOK(r)
  BY <1>1, <1>3 DEF CallOK, StageOK, CarriesOK, HasReadOK
<1>5. QED
  BY <1>1, <1>2, <1>3, <1>4 DEF CallOK

LEMMA ShareRefreshOK ==
    ASSUME IInv, NEW t \in Tabs, ShareRefresh(t)
    PROVE  IInv'
<1>1. UNCHANGED <<rows, parent, lock, now, tabs, storage, own, torn, exposed>>
  BY DEF ShareRefresh, server, db, client
<1>2. PICK c \in Refreshing(t) : calls' = [calls EXCEPT ![c].connect = TRUE]
  BY DEF ShareRefresh
<1>3. c \in Calls /\ calls[c].kind = "refresh" /\ ServerOK
  BY <1>2, ServerIs DEF Refreshing
<1>4. PICK r : r = [calls[c] EXCEPT !.connect = TRUE]
  OBVIOUS
<1>5. r \in CallStates /\ lock[c] = HeldAt(r.stage) /\ CallOK(r)
  BY <1>3, <1>4, JoinedCall
<1>6. calls' = [calls EXCEPT ![c] = r]
  BY <1>2, <1>4
<1>7. ServerOK'
  BY <1>1, <1>3, <1>5, <1>6, OneMoves
<1>8. TabTypes' /\ AuthsOK'
  BY <1>1 DEF IInv, TabTypes, AuthsOK, AuthOK, Belongs
<1>9. QED
  BY <1>7, <1>8 DEF IInv, ServerOK, DbOK

LEMMA StartLogoutOK ==
    ASSUME IInv, NEW t \in Tabs, NEW c \in Calls, StartLogout(t, c)
    PROVE  IInv'
<1>1. UNCHANGED <<rows, parent, lock, now, exposed>>
  BY DEF StartLogout, db
<1>2. CASE tabs[t].auth.session = 0
  BY <1>1, <1>2, ClearOK DEF StartLogout
<1>3. CASE tabs[t].auth.session # 0
  <2>1. UNCHANGED <<tabs, storage, own, torn>>
    BY <1>3 DEF StartLogout, client
  <2>2. lock[c] = "none" /\ ServerOK /\ DbOK
    BY CallFacts, ServerIs DEF StartLogout, At, HeldAt, ServerOK
  <2>3. PICK sid \in Nat : sid = tabs[t].auth.session
    BY AuthFacts
  <2>4. sid \in DOMAIN rows /\ sid \in 0..Len(rows) /\ 0 \in 0..Len(parent)
    BY <1>3, <2>3, AuthFacts DEF IInv, DbTypes
  <2>5. PICK r : r = Sent("logout", t, 0, sid, sid, FALSE)
    OBVIOUS
  <2>6. r \in CallStates /\ CallOK(r) /\ HeldAt(r.stage) = "none"
    BY <2>2, <2>4, <2>5, SentOK
  <2>7. calls' = [calls EXCEPT ![c] = r]
    <3>1. ASSUME NEW x
          PROVE  [NewCall("logout", t) EXCEPT !.target = x] =
                   Sent("logout", t, 0, tabs[t].auth.session, x, FALSE)
      BY TargetCallIs
    <3>2. QED
      BY <1>3, <2>3, <2>5, <3>1 DEF StartLogout
  <2>8. ServerOK'
    BY <1>1, <2>2, <2>6, <2>7, OneMoves
  <2>9. TabTypes' /\ AuthsOK'
    BY <1>1, <2>1 DEF IInv, TabTypes, AuthsOK, AuthOK, Belongs
  <2>10. QED
    BY <2>8, <2>9 DEF IInv, ServerOK, DbOK
<1>4. QED
  BY <1>2, <1>3

LEMMA StartRevokeOK ==
    ASSUME IInv, NEW t \in Tabs, NEW c \in Calls, StartRevoke(t, c)
    PROVE  IInv'
<1>1. UNCHANGED <<rows, parent, lock, now, exposed, tabs, storage, own, torn>>
  BY DEF StartRevoke, db, client
<1>2. lock[c] = "none" /\ ServerOK /\ DbOK
  BY CallFacts, ServerIs DEF StartRevoke, At, HeldAt, ServerOK
<1>3. PICK sid \in Nat : sid = tabs[t].auth.session
  BY AuthFacts
<1>4. sid \in DOMAIN rows /\ sid \in 0..Len(rows) /\ 0 \in 0..Len(parent)
  BY <1>3, AuthFacts DEF IInv, DbTypes, StartRevoke
<1>5. PICK target \in DOMAIN rows :
          calls' = [calls EXCEPT ![c] = [NewCall("revoke", t) EXCEPT !.target = target]]
  BY DEF StartRevoke
<1>6. target \in Nat
  BY DEF IInv, DbTypes
<1>7. PICK r : r = Sent("revoke", t, 0, sid, target, FALSE)
  OBVIOUS
<1>8. r \in CallStates /\ CallOK(r) /\ HeldAt(r.stage) = "none"
  BY <1>2, <1>4, <1>6, <1>7, SentOK
<1>9. calls' = [calls EXCEPT ![c] = r]
  <2>1. ASSUME NEW x
        PROVE  [NewCall("revoke", t) EXCEPT !.target = x] =
                 Sent("revoke", t, 0, tabs[t].auth.session, x, FALSE)
    BY TargetCallIs
  <2>2. QED
    BY <1>3, <1>5, <1>7, <2>1
<1>10. ServerOK'
  BY <1>1, <1>2, <1>8, <1>9, OneMoves
<1>11. TabTypes' /\ AuthsOK'
  BY <1>1 DEF IInv, TabTypes, AuthsOK, AuthOK, Belongs
<1>12. QED
  BY <1>10, <1>11 DEF IInv, ServerOK, DbOK

LEMMA LostOK ==
    ASSUME IInv, NEW c \in Calls, Lost(c)
    PROVE  IInv'
<1>1. UNCHANGED <<rows, parent, lock, now, tabs, storage, own, torn>>
  BY DEF Lost, server, db, client
<1>2. ServerOK /\ DbOK' /\ DbKeeps
  BY <1>1, ServerIs, DbStays DEF ServerOK
<1>3. /\ calls[c].token \in Nat /\ calls[c].sid \in Nat /\ calls[c].kind # "none"
      /\ lock[c] = "none"
  BY <1>2, CallFacts DEF ServerOK, Lost, At, HeldAt
<1>4. AnswerGoes(c, calls[c].token, calls[c].sid, "failed")
  BY <1>2, AnswerTo DEF ServerOK, Lost
<1>5. LockTo(c, "none")
  BY <1>1, <1>2, <1>3, LocksMove DEF ServerOK
<1>6. CallTypes' /\ CallsOK'
  BY <1>1, <1>2, <1>3, <1>4, <1>5, AnswerMoves DEF ServerOK, LockTo, Answers
<1>7. exposed' \in SUBSET Nat
  BY <1>3 DEF Lost, IInv, TabTypes
<1>8. TabTypes' /\ AuthsOK'
  BY <1>1, <1>7 DEF IInv, TabTypes, AuthsOK, AuthOK, Belongs
<1>9. QED
  BY <1>2, <1>6, <1>8 DEF IInv, ServerOK, DbOK

\* An answered call, its tab and the tokens it may have brought.
LEMMA ArrivedFacts ==
    ASSUME IInv, NEW c \in Calls, At(c, "answered")
    PROVE  /\ calls[c].tab \in Tabs /\ lock[c] = "none" /\ calls[c].kind # "none"
           /\ ServerOK /\ calls[c].sid \in Nat
           /\ calls[c].kind \in {"login", "refresh"} /\ calls[c].answer = "ok" =>
                 Payload(c) \in Auths /\ AuthOK(Payload(c))
           /\ calls[c].kind = "refresh" => calls[c].sid \in DOMAIN rows
<1>1. /\ ServerOK /\ calls[c] \in CallStates /\ CallOK(calls[c]) /\ calls[c].stage = "answered"
      /\ lock[c] = HeldAt(calls[c].stage) /\ calls[c].sid \in Nat /\ calls[c].token \in Nat
  BY ServerIs, CallFacts DEF ServerOK, At
<1>2. calls[c].tab \in Tabs /\ lock[c] = "none" /\ calls[c].kind # "none"
  BY <1>1 DEF CallOK, StageOK, HeldAt, CallStates
<1>3. calls[c].kind = "refresh" => calls[c].sid \in DOMAIN rows
  BY <1>1 DEF CallOK, CarriesOK, Belongs
<1>4. ASSUME calls[c].kind \in {"login", "refresh"}, calls[c].answer = "ok"
      PROVE  Payload(c) \in Auths /\ AuthOK(Payload(c))
  <2>1. Belongs(calls[c].token, calls[c].sid)
    BY <1>1, <1>4 DEF CallOK, CarriesOK
  <2>2. now \in Nat
    BY SessionConstants DEF IInv, DbTypes
  <2>3. PICK p : p = Payload(c)
    OBVIOUS
  <2>4. p \in Auths
    BY <1>1, <2>2, <2>3 DEF Payload, Auths
  <2>5. p.refresh = calls[c].token /\ p.session = calls[c].sid
    BY <2>3 DEF Payload
  <2>6. QED
    BY <2>1, <2>3, <2>4, <2>5 DEF AuthOK
<1>5. QED
  BY <1>1, <1>2, <1>3, <1>4

\* A call is over.
LEMMA IdleMoves ==
    ASSUME IInv, NEW c \in Calls, lock[c] = "none", calls' = [calls EXCEPT ![c] = Idle],
           UNCHANGED <<rows, parent, now, lock>>
    PROVE  ServerOK'
<1>1. PICK r : r = Idle
  OBVIOUS
<1>2. r \in CallStates /\ CallOK(r) /\ HeldAt(r.stage) = "none"
  <2>1. r.stage = "idle"
    BY <1>1 DEF Idle
  <2>2. QED
    BY <1>1, <2>1, IdleType DEF HeldAt
<1>3. QED
  BY <1>1, <1>2, ServerIs, OneMoves

LEMMA LoginArrivesOK ==
    ASSUME IInv, NEW c \in Calls, LoginArrives(c)
    PROVE  IInv'
<1>1. /\ UNCHANGED <<rows, parent, now, lock>> /\ At(c, "answered") /\ calls[c].kind = "login"
      /\ calls' = [calls EXCEPT ![c] = Idle]
  BY DEF LoginArrives, Arrives, server, db
<1>2. ServerOK'
  BY <1>1, ArrivedFacts, IdleMoves
<1>3. CASE calls[c].answer = "ok"
  <2>1. PICK t \in Tabs, auth \in Auths : t = calls[c].tab /\ auth = Payload(c) /\ AuthOK(auth)
    BY <1>1, <1>3, ArrivedFacts
  <2>2. PICK yes \in BOOLEAN : yes = TRUE
    OBVIOUS
  <2>3. PICK p \in Calls \cup {NoCall} : p = tabs[t].promise
    BY AuthFacts DEF TabStates
  <2>4. SetAuth(t, auth, p, yes)
    BY <1>3, <2>1, <2>2, <2>3 DEF LoginArrives
  <2>5. tabs' \in [Tabs -> TabStates] /\ storage' \in Auths /\ AuthsOK'
    BY <1>1, <2>1, <2>4, TabsMove
  <2>6. own' \in [Tabs -> Nat] /\ torn' \in SUBSET Tabs
    <3>1. calls[c].sid \in Nat
      BY <1>1, ArrivedFacts
    <3>2. QED
      BY <1>3, <2>1, <3>1 DEF LoginArrives, IInv, TabTypes, Tear
  <2>7. exposed' \in SUBSET Nat
    <3>1. \A r \in Calls : calls[r].sid \in Nat
      BY CallFacts, ServerIs DEF ServerOK
    <3>2. exposed' = exposed \/ exposed' = exposed \cup {calls[r].sid : r \in Refreshing(t) \cup {c}}
      BY <1>3, <2>1 DEF LoginArrives
    <3>3. Refreshing(t) \cup {c} \in SUBSET Calls
      BY DEF Refreshing
    <3>4. exposed \subseteq Nat /\ {calls[r].sid : r \in Refreshing(t) \cup {c}} \subseteq Nat
      BY <3>1, <3>3 DEF IInv, TabTypes
    <3>5. QED
      BY <3>2, <3>4
  <2>8. QED
    BY <1>2, <2>5, <2>6, <2>7 DEF IInv, ServerOK, DbOK, TabTypes
<1>4. CASE calls[c].answer # "ok"
  <2>1. UNCHANGED <<client, exposed>>
    BY <1>4 DEF LoginArrives
  <2>2. /\ tabs' = tabs /\ storage' = storage /\ own' = own /\ torn' = torn /\ exposed' = exposed
        /\ rows' = rows /\ parent' = parent
    BY <1>1, <2>1 DEF client
  <2>3. TabTypes'
    BY <2>2 DEF IInv, TabTypes
  <2>4. ASSUME NEW auth, AuthOK(auth) PROVE AuthOK(auth)'
    BY <2>2, <2>4 DEF AuthOK, Belongs
  <2>5. AuthsOK'
    <3>1. AuthOK(storage)'
      BY <2>2, <2>4 DEF IInv, AuthsOK, AuthOK, Belongs
    <3>2. ASSUME NEW t \in Tabs PROVE AuthOK(tabs[t].auth)'
      <4>1. AuthOK(tabs[t].auth)
        BY DEF IInv, AuthsOK
      <4>2. QED
        BY <2>2, <4>1 DEF AuthOK, Belongs
    <3>3. QED
      BY <3>1, <3>2 DEF AuthsOK
  <2>6. QED
    BY <1>2, <2>3, <2>5 DEF IInv, ServerOK, DbOK
<1>5. QED
  BY <1>3, <1>4

\* A waiting call, sent again with the token of session s.
LEMMA ResentIs ==
    ASSUME ServerOK, NEW w \in Calls, At(w, "waiting"), NEW s \in DOMAIN rows, NEW r, r = Resent(w, s)
    PROVE  /\ r \in CallStates /\ lock[w] = HeldAt(r.stage) /\ CallOK(r)
           /\ r.kind \in {"logout", "revoke"} /\ r.kind = calls[w].kind
           /\ r.tab = calls[w].tab /\ r.stale = calls[w].stale /\ r.answer = "none"
<1>1. /\ calls[w] \in CallStates /\ CallOK(calls[w]) /\ calls[w].stage = "waiting"
      /\ lock[w] = HeldAt(calls[w].stage) /\ s \in Nat /\ s \in 0..Len(rows)
  BY CallFacts DEF ServerOK, At, DbOK, DbTypes
<1>2. calls[w].kind \in {"logout", "revoke"}
  BY <1>1 DEF CallOK, StageOK
<1>3. r = [f \in Fields |-> IF f = "stage" THEN "sent" ELSE IF f = "sid" THEN s
             ELSE IF f = "retried" THEN TRUE ELSE IF f = "on" THEN NoCall
             ELSE IF f = "answer" THEN "none"
             ELSE IF f = "target" THEN IF calls[w].kind = "logout" THEN s ELSE calls[w].target
             ELSE calls[w][f]]
  BY <1>1 DEF Resent, CallStates, Fields
<1>4. PICK target : target = IF calls[w].kind = "logout" THEN s ELSE calls[w].target
  OBVIOUS
<1>5. target \in DOMAIN rows /\ target \in Nat
  BY <1>1, <1>2, <1>4 DEF CallOK, CarriesOK, ServerOK, DbOK, DbTypes
<1>6. /\ r = [f \in Fields |-> r[f]]
      /\ r.stage = "sent" /\ r.kind = calls[w].kind /\ r.tab = calls[w].tab
      /\ r.token = calls[w].token /\ r.sid = s /\ r.target = target
      /\ r.doing = calls[w].doing /\ r.answer = "none" /\ r.stale = calls[w].stale
      /\ r.connect = calls[w].connect /\ r.retried = TRUE /\ r.on = NoCall
  BY <1>3, <1>4 DEF Fields
<1>7. r = [stage |-> r.stage, kind |-> r.kind, tab |-> r.tab, token |-> r.token, sid |-> r.sid,
           target |-> r.target, doing |-> r.doing, answer |-> r.answer, stale |-> r.stale,
           connect |-> r.connect, retried |-> r.retried, on |-> r.on]
  BY <1>6 DEF Fields
<1>8. /\ r.stage \in Stages /\ r.kind \in Kinds /\ r.tab \in Tabs \cup {NoTab}
      /\ r.token \in Nat /\ r.sid \in Nat /\ r.target \in Nat /\ r.doing \in Doings
      /\ r.answer \in Answers /\ r.stale \in BOOLEAN /\ r.connect \in BOOLEAN
      /\ r.retried \in BOOLEAN /\ r.on \in Calls \cup {NoCall}
  BY <1>1, <1>5, <1>6 DEF CallStates, Stages, Answers
<1>9. r \in CallStates
  BY <1>7, <1>8 DEF CallStates
<1>10. StageOK(r) /\ CarriesOK(r) /\ HasReadOK(r)
  BY <1>1, <1>2, <1>5, <1>6 DEF CallOK, StageOK, CarriesOK, HasReadOK
<1>11. QED
  BY <1>1, <1>2, <1>6, <1>9, <1>10 DEF CallOK, HeldAt

LEMMA RefreshArrivesOK ==
    ASSUME IInv, NEW c \in Calls, RefreshArrives(c)
    PROVE  IInv'
<1>1. /\ UNCHANGED <<rows, parent, now, lock, exposed>> /\ At(c, "answered")
      /\ calls[c].kind = "refresh" /\ calls[c].answer = "ok"
  BY DEF RefreshArrives, Arrives, server, db
<1>2. ServerOK /\ calls[c].sid \in DOMAIN rows /\ lock[c] = "none"
  BY <1>1, ArrivedFacts
<1>3. ServerOK'
  <2>1. calls' = [w \in Calls |-> calls'[w]]
    BY DEF RefreshArrives
  <2>2. ASSUME NEW w \in Calls
        PROVE  \/ calls'[w] = calls[w]
               \/ /\ calls'[w] \in CallStates
                  /\ lock[w] = HeldAt(calls'[w].stage)
                  /\ CallOK(calls'[w])
    <3>1. CASE w = c
      <4>1. calls'[w] = Idle
        BY <3>1 DEF RefreshArrives
      <4>2. Idle.stage = "idle"
        BY DEF Idle
      <4>3. QED
        BY <3>1, <1>2, <4>1, <4>2, IdleType DEF HeldAt
    <3>2. CASE w # c /\ w \in Waiters(c)
      <4>1. PICK s \in DOMAIN rows : s = calls[c].sid
        BY <1>2
      <4>2. PICK r : r = Resent(w, s)
        OBVIOUS
      <4>3. calls'[w] = r /\ At(w, "waiting")
        BY <3>2, <4>1, <4>2 DEF RefreshArrives, Waiters
      <4>4. r \in CallStates /\ lock[w] = HeldAt(r.stage) /\ CallOK(r)
        BY <1>2, <4>1, <4>2, <4>3, ResentIs
      <4>5. QED
        BY <4>3, <4>4
    <3>3. CASE w # c /\ w \notin Waiters(c)
      <4>1. calls'[w] = calls[w] \/ calls'[w] = Outdated(w, calls[c].tab)
        BY <3>3 DEF RefreshArrives
      <4>2. QED
        BY <1>2, <4>1, OutdatedOK
    <3>4. QED
      BY <3>1, <3>2, <3>3
  <2>3. QED
    BY <1>1, <1>2, <2>1, <2>2, CallsMove
<1>4. PICK t \in Tabs, auth \in Auths : t = calls[c].tab /\ auth = Payload(c) /\ AuthOK(auth)
  BY <1>1, ArrivedFacts
<1>5. /\ tabs' \in [Tabs -> TabStates] /\ storage' \in Auths /\ AuthsOK'
      /\ own' \in [Tabs -> Nat] /\ torn' \in SUBSET Tabs
  <2>1. CASE Cancelled(c)
    <3>1. ClearTab(t, {c})
      BY <1>4, <2>1 DEF RefreshArrives
    <3>2. QED
      BY <1>1, <3>1, ClearTabOK
  <2>2. CASE ~Cancelled(c)
    <3>1. PICK shown \in BOOLEAN : shown = tabs[t].shown
      BY AuthFacts
    <3>2. SetAuth(t, auth, NoCall, shown) /\ own' = own /\ torn' = torn
      BY <1>4, <2>2, <3>1 DEF RefreshArrives
    <3>3. tabs' \in [Tabs -> TabStates] /\ storage' \in Auths /\ AuthsOK'
      BY <1>1, <1>4, <3>2, TabsMove
    <3>4. QED
      BY <3>2, <3>3 DEF IInv, TabTypes
  <2>3. QED
    BY <2>1, <2>2
<1>6. QED
  BY <1>1, <1>3, <1>5 DEF IInv, ServerOK, DbOK, TabTypes

\* Calls that wait hold no lock.
LEMMA WaitersIdle ==
    ASSUME IInv, NEW c \in Calls
    PROVE  Waiters(c) \in SUBSET Calls /\ \A w \in Waiters(c) : lock[w] = "none"
BY DEF Waiters, At, IInv, CallsOK, HeldAt

LEMMA RefusalArrivesOK ==
    ASSUME IInv, NEW c \in Calls, RefusalArrives(c)
    PROVE  IInv'
<1>1. /\ UNCHANGED <<rows, parent, now, lock, exposed>> /\ At(c, "answered")
      /\ calls[c].kind = "refresh"
  BY DEF RefusalArrives, Arrives, server, db
<1>2. PICK t \in Tabs : t = calls[c].tab /\ lock[c] = "none"
  BY <1>1, ArrivedFacts
<1>3. CASE calls[c].stale /\ Waiters(c) = {}
  <2>1. ServerOK'
    BY <1>1, <1>2, <1>3, IdleMoves DEF RefusalArrives
  <2>2. PICK shown \in BOOLEAN : shown = tabs[t].shown
    BY AuthFacts
  <2>3. PICK auth \in Auths : auth = NoAuth
    BY DEF NoAuth, Auths
  <2>4. AuthOK(auth)
    BY <2>3 DEF AuthOK
  <2>5. SetAuth(t, auth, NoCall, shown)
    BY <1>2, <1>3, <2>2, <2>3 DEF RefusalArrives
  <2>6. tabs' \in [Tabs -> TabStates] /\ storage' \in Auths /\ AuthsOK'
    BY <1>1, <2>4, <2>5, TabsMove
  <2>7. own' \in [Tabs -> Nat] /\ torn' \in SUBSET Tabs
    BY <1>2, <1>3 DEF RefusalArrives, IInv, TabTypes, Tear
  <2>8. QED
    BY <1>1, <2>1, <2>6, <2>7 DEF IInv, ServerOK, DbOK, TabTypes
<1>4. CASE ~(calls[c].stale /\ Waiters(c) = {})
  <2>1. PICK done \in SUBSET Calls : done = Waiters(c) \cup {c} /\ \A d \in done : lock[d] = "none"
    BY <1>2, WaitersIdle
  <2>2. ClearLoggedIn(t, done)
    BY <1>2, <1>4, <2>1 DEF RefusalArrives
  <2>3. QED
    BY <1>1, <2>1, <2>2, ClearOK
<1>5. QED
  BY <1>3, <1>4

LEMMA RefreshFailsOK ==
    ASSUME IInv, NEW c \in Calls, RefreshFails(c)
    PROVE  IInv'
<1>1. /\ UNCHANGED <<rows, parent, now, lock, exposed>> /\ At(c, "answered")
      /\ calls[c].kind = "refresh"
  BY DEF RefreshFails, Arrives, server, db
<1>2. PICK t \in Tabs : t = calls[c].tab /\ lock[c] = "none" /\ ServerOK
  BY <1>1, ArrivedFacts
<1>3. PICK done \in SUBSET Calls : done = Waiters(c) \cup {c} /\ \A d \in done : lock[d] = "none"
  BY <1>2, WaitersIdle
<1>4. CASE ClearLoggedIn(t, done)
  BY <1>1, <1>3, <1>4, ClearOK
<1>5. CASE /\ tabs' = [tabs EXCEPT ![t].promise = NoCall]
           /\ calls' = [w \in Calls |-> IF w \in done THEN Idle ELSE calls[w]]
           /\ UNCHANGED <<storage, own, torn>>
  <2>1. ServerOK'
    <3>1. calls' = [w \in Calls |-> calls'[w]]
      BY <1>5
    <3>2. ASSUME NEW w \in Calls
          PROVE  \/ calls'[w] = calls[w]
                 \/ /\ calls'[w] \in CallStates
                    /\ lock[w] = HeldAt(calls'[w].stage)
                    /\ CallOK(calls'[w])
      <4>1. CASE w \in done
        <5>1. calls'[w] = Idle /\ lock[w] = "none"
          BY <1>3, <1>5, <4>1
        <5>2. Idle.stage = "idle"
          BY DEF Idle
        <5>3. QED
          BY <5>1, <5>2, IdleType DEF HeldAt
      <4>2. CASE w \notin done
        BY <1>5, <4>2
      <4>3. QED
        BY <4>1, <4>2
    <3>3. QED
      BY <1>1, <1>2, <3>1, <3>2, CallsMove
  <2>2. tabs' \in [Tabs -> TabStates] /\ AuthsOK'
    BY <1>1, <1>5, PromiseTo
  <2>3. TabTypes'
    BY <1>1, <1>5, <2>2 DEF IInv, TabTypes
  <2>4. QED
    BY <2>1, <2>2, <2>3 DEF IInv, ServerOK, DbOK
<1>6. QED
  BY <1>2, <1>3, <1>4, <1>5 DEF RefreshFails

LEMMA RequestArrivesOK ==
    ASSUME IInv, NEW c \in Calls, RequestArrives(c)
    PROVE  IInv'
<1>1. UNCHANGED <<rows, parent, now, lock, exposed>> /\ At(c, "answered")
  BY DEF RequestArrives, server, db
<1>2. PICK t \in Tabs : t = calls[c].tab /\ lock[c] = "none"
  BY <1>1, ArrivedFacts
<1>3. CASE ClearLoggedIn(t, {c})
  BY <1>1, <1>2, <1>3, ClearOK
<1>4. CASE calls' = [calls EXCEPT ![c] = Idle] /\ UNCHANGED client
  <2>1. ServerOK'
    BY <1>1, <1>2, <1>4, IdleMoves
  <2>2. TabTypes' /\ AuthsOK'
    BY <1>1, <1>4 DEF client, IInv, TabTypes, AuthsOK, AuthOK, Belongs
  <2>3. QED
    BY <2>1, <2>2 DEF IInv, ServerOK, DbOK
<1>5. QED
  BY <1>2, <1>3, <1>4 DEF RequestArrives

\* A call that waits for a refresh.
LEMMA WaitingIs ==
    ASSUME ServerOK, NEW c \in Calls, At(c, "answered"), calls[c].answer = "invalid",
           NEW p \in Calls, NEW r, r = [calls[c] EXCEPT !.stage = "waiting", !.on = p]
    PROVE  /\ r \in CallStates /\ lock[c] = HeldAt(r.stage) /\ CallOK(r)
           /\ r.kind \in {"logout", "revoke"} /\ r.tab = calls[c].tab /\ r.stale = calls[c].stale
           /\ r.kind = calls[c].kind
<1>1. /\ calls[c] \in CallStates /\ CallOK(calls[c]) /\ calls[c].stage = "answered"
      /\ lock[c] = HeldAt(calls[c].stage)
  BY CallFacts DEF ServerOK, At
<1>2. calls[c].kind \in {"logout", "revoke"}
  BY <1>1 DEF CallOK, StageOK
<1>3. r = [f \in Fields |-> IF f = "stage" THEN "waiting" ELSE IF f = "on" THEN p ELSE calls[c][f]]
  BY <1>1 DEF CallStates, Fields
<1>4. /\ r = [f \in Fields |-> r[f]]
      /\ r.stage = "waiting" /\ r.kind = calls[c].kind /\ r.tab = calls[c].tab
      /\ r.token = calls[c].token /\ r.sid = calls[c].sid /\ r.target = calls[c].target
      /\ r.doing = calls[c].doing /\ r.answer = calls[c].answer /\ r.stale = calls[c].stale
      /\ r.connect = calls[c].connect /\ r.retried = calls[c].retried /\ r.on = p
  BY <1>3 DEF Fields
<1>5. r = [stage |-> r.stage, kind |-> r.kind, tab |-> r.tab, token |-> r.token, sid |-> r.sid,
           target |-> r.target, doing |-> r.doing, answer |-> r.answer, stale |-> r.stale,
           connect |-> r.connect, retried |-> r.retried, on |-> r.on]
  BY <1>4 DEF Fields
<1>6. /\ r.stage \in Stages /\ r.kind \in Kinds /\ r.tab \in Tabs \cup {NoTab}
      /\ r.token \in Nat /\ r.sid \in Nat /\ r.target \in Nat /\ r.doing \in Doings
      /\ r.answer \in Answers /\ r.stale \in BOOLEAN /\ r.connect \in BOOLEAN
      /\ r.retried \in BOOLEAN /\ r.on \in Calls \cup {NoCall}
  BY <1>1, <1>4 DEF CallStates, Stages
<1>7. r \in CallStates
  BY <1>5, <1>6 DEF CallStates
<1>8. StageOK(r) /\ CarriesOK(r) /\ HasReadOK(r)
  BY <1>1, <1>2, <1>4 DEF CallOK, StageOK, CarriesOK, HasReadOK
<1>9. QED
  BY <1>1, <1>2, <1>4, <1>7, <1>8 DEF CallOK, HeldAt

LEMMA InvalidArrivesOK ==
    ASSUME IInv, NEW c \in Calls, InvalidArrives(c)
    PROVE  IInv'
<1>1. /\ UNCHANGED <<rows, parent, now, lock, exposed>> /\ At(c, "answered")
      /\ calls[c].answer = "invalid"
  BY DEF InvalidArrives, db
<1>2. PICK t \in Tabs : t = calls[c].tab /\ lock[c] = "none" /\ ServerOK
  BY <1>1, ArrivedFacts
<1>3. tabs[t].auth.refresh # 0
  BY <1>2 DEF InvalidArrives
<1>4. CASE ClearLoggedIn(t, {c})
  BY <1>1, <1>2, <1>4, ClearOK
<1>5. ASSUME NEW p \in Calls, UNCHANGED client,
             calls' = [calls EXCEPT ![c] = [calls[c] EXCEPT !.stage = "waiting", !.on = p]]
      PROVE  IInv'
  <2>1. PICK r : r = [calls[c] EXCEPT !.stage = "waiting", !.on = p]
    OBVIOUS
  <2>2. r \in CallStates /\ lock[c] = HeldAt(r.stage) /\ CallOK(r)
    BY <1>1, <1>2, <2>1, WaitingIs
  <2>3. calls' = [calls EXCEPT ![c] = r]
    BY <1>5, <2>1
  <2>4. ServerOK'
    BY <1>1, <1>2, <2>2, <2>3, OneMoves
  <2>5. TabTypes' /\ AuthsOK'
    BY <1>1, <1>5 DEF client, IInv, TabTypes, AuthsOK, AuthOK, Belongs
  <2>6. QED
    BY <2>4, <2>5 DEF IInv, ServerOK, DbOK
<1>6. ASSUME NEW p \in Calls, At(p, "idle"), UNCHANGED <<storage, own, torn>>,
             calls' = [calls EXCEPT ![c] = [calls[c] EXCEPT !.stage = "waiting", !.on = p],
                                    ![p] = RefreshCall(t, FALSE)],
             tabs' = [tabs EXCEPT ![t].promise = p]
      PROVE  IInv'
  <2>1. PICK r, q : r = [calls[c] EXCEPT !.stage = "waiting", !.on = p] /\ q = RefreshCall(t, FALSE)
    OBVIOUS
  <2>2. r \in CallStates /\ lock[c] = HeldAt(r.stage) /\ CallOK(r)
    BY <1>1, <1>2, <1>6, <2>1, WaitingIs
  <2>3. q \in CallStates /\ CallOK(q) /\ HeldAt(q.stage) = "none" /\ lock[p] = "none"
    BY <1>2, <1>3, <1>6, <2>1, RefreshCallOK, CallFacts DEF At, HeldAt, ServerOK
  <2>4. p # c
    BY <1>1, <1>6 DEF At
  <2>5. /\ calls' = [w \in Calls |-> calls'[w]] /\ calls'[c] = r /\ calls'[p] = q
        /\ \A w \in Calls \ {c, p} : calls'[w] = calls[w]
    BY <1>2, <1>6, <2>1, <2>4 DEF ServerOK, CallTypes
  <2>6. ServerOK'
    BY <1>1, <1>2, <2>2, <2>3, <2>5, CallsMove
  <2>7. tabs' \in [Tabs -> TabStates] /\ AuthsOK'
    BY <1>1, <1>6, PromiseTo
  <2>8. TabTypes'
    BY <1>1, <1>6, <2>7 DEF IInv, TabTypes
  <2>9. QED
    BY <2>6, <2>7, <2>8 DEF IInv, ServerOK, DbOK
<1>7. tabs[t].promise \in Calls \cup {NoCall}
  BY AuthFacts DEF TabStates
<1>8. QED
  BY <1>2, <1>4, <1>5, <1>6, <1>7 DEF InvalidArrives

LEMMA ReloadOK ==
    ASSUME IInv, NEW t \in Tabs, Reload(t)
    PROVE  IInv'
<1>1. UNCHANGED <<rows, parent, now, lock, storage>>
  BY DEF Reload, server, db
<1>2. ServerOK
  BY ServerIs
<1>3. ServerOK'
  <2>1. calls' = [w \in Calls |-> calls'[w]]
    BY DEF Reload
  <2>2. ASSUME NEW w \in Calls
        PROVE  \/ calls'[w] = calls[w]
               \/ /\ calls'[w] \in CallStates
                  /\ lock[w] = HeldAt(calls'[w].stage)
                  /\ CallOK(calls'[w])
    <3>1. /\ calls[w] \in CallStates /\ CallOK(calls[w]) /\ lock[w] = HeldAt(calls[w].stage)
      BY <1>2, CallFacts DEF ServerOK
    <3>2. CASE calls[w].tab = t /\ calls[w].stage \in {"waiting", "answered"}
      <4>1. calls'[w] = Idle /\ lock[w] = "none"
        BY <3>1, <3>2 DEF Reload, HeldAt
      <4>2. Idle.stage = "idle"
        BY DEF Idle
      <4>3. QED
        BY <4>1, <4>2, IdleType DEF HeldAt
    <3>3. CASE calls[w].tab = t /\ calls[w].stage \notin {"waiting", "answered"}
      <4>1. PICK r : r = [calls[w] EXCEPT !.tab = NoTab]
        OBVIOUS
      <4>2. calls'[w] = r
        BY <3>3, <4>1 DEF Reload
      <4>3. r \in CallStates
        BY <3>1, <4>1 DEF CallStates
      <4>4. /\ r.stage = calls[w].stage /\ r.kind = calls[w].kind
            /\ r.token = calls[w].token /\ r.sid = calls[w].sid /\ r.target = calls[w].target
            /\ r.doing = calls[w].doing /\ r.answer = calls[w].answer /\ r.stale = calls[w].stale
        BY <3>1, <4>1 DEF CallStates
      <4>5. StageOK(r) /\ CarriesOK(r) /\ HasReadOK(r)
        BY <3>1, <3>3, <4>4 DEF CallOK, StageOK, CarriesOK, HasReadOK
      <4>6. QED
        BY <3>1, <4>2, <4>3, <4>4, <4>5 DEF CallOK
    <3>4. CASE calls[w].tab # t
      BY <3>4 DEF Reload
    <3>5. QED
      BY <3>2, <3>3, <3>4
  <2>3. QED
    BY <1>1, <1>2, <2>1, <2>2, CallsMove
<1>4. PICK auth \in Auths : auth = storage /\ AuthOK(auth) /\ auth.session \in Nat
  BY DEF IInv, TabTypes, AuthsOK, Auths
<1>5. PICK shown \in BOOLEAN : shown = (storage.session # 0)
  OBVIOUS
<1>6. SetAuth(t, auth, NoCall, shown)
  BY <1>1, <1>4, <1>5 DEF Reload, SetAuth
<1>7. tabs' \in [Tabs -> TabStates] /\ storage' \in Auths /\ AuthsOK'
  BY <1>1, <1>4, <1>6, TabsMove
<1>8. own' \in [Tabs -> Nat] /\ torn' \in SUBSET Tabs
  BY <1>4 DEF Reload, IInv, TabTypes
<1>9. exposed' \in SUBSET Nat
  <2>1. \A r \in Calls : calls[r].sid \in Nat
    BY <1>2, CallFacts DEF ServerOK
  <2>2. {calls[c].sid : c \in Refreshing(t)} \subseteq Nat
    BY <2>1 DEF Refreshing
  <2>3. {s \in {storage.session} : \E u \in Tabs \ {t} : tabs[u].auth.session = s} \subseteq Nat
    BY <1>4
  <2>4. QED
    BY <2>2, <2>3 DEF Reload, IInv, TabTypes
<1>10. QED
  BY <1>3, <1>7, <1>8, <1>9 DEF IInv, ServerOK, DbOK, TabTypes

LEMMA TickStepOK ==
    ASSUME IInv, Tick
    PROVE  IInv'
<1>1. ServerOK
  BY ServerIs
<1>2. ServerOK' /\ DbKeeps
  BY <1>1, TickOK
<1>3. UNCHANGED <<tabs, storage, own, torn, exposed>>
  BY DEF Tick, client
<1>4. AuthsOK'
  BY <1>1, <1>2, <1>3, AuthsStay DEF IInv, ServerOK
<1>5. TabTypes'
  BY <1>3 DEF IInv, TabTypes
<1>6. QED
  BY <1>2, <1>4, <1>5 DEF IInv, ServerOK, DbOK

-----------------------------------------------------------------------------
(* The inductive invariant.                                                 *)

LEMMA Initially == Init => IInv
<1> SUFFICES ASSUME Init PROVE IInv
  OBVIOUS
<1> USE DEF Init
<1>1. DbTypes
  BY SessionConstants DEF DbTypes
<1>2. \A c \in Calls : /\ calls[c] \in CallStates /\ CallOK(calls[c])
                       /\ lock[c] = HeldAt(calls[c].stage)
  <2>1. Idle.stage = "idle"
    BY DEF Idle
  <2>2. QED
    BY <2>1, IdleType DEF HeldAt, LocksFree, Calls
<1>3. CallTypes /\ CallsOK
  BY <1>2 DEF CallTypes, CallsOK, LocksFree, Locks, Calls
<1>4. TabTypes
  <2>1. PICK auth \in Auths : auth = NoAuth
    BY DEF NoAuth, Auths
  <2>2. LoggedOut \in TabStates
    BY <2>1 DEF LoggedOut, TabStates
  <2>3. QED
    BY <2>1, <2>2 DEF TabTypes
<1>5. AuthsOK
  BY DEF AuthsOK, AuthOK, LoggedOut
<1>6. RowsOK /\ OneSuccessor
  BY DEF RowsOK, OneSuccessor
<1>7. QED
  BY <1>1, <1>3, <1>4, <1>5, <1>6 DEF IInv

LEMMA Stutters == IInv /\ UNCHANGED vars => IInv'
BY DEF vars, IInv, DbTypes, CallTypes, TabTypes, RowsOK, OneSuccessor, CallsOK, AuthsOK, AuthOK,
       CallOK, StageOK, CarriesOK, HasReadOK, Belongs

LEMMA Preserved == IInv /\ [Next]_vars => IInv'
<1> SUFFICES ASSUME IInv, [Next]_vars PROVE IInv'
  OBVIOUS
<1>1. ASSUME NEW c \in Calls, ServerStep(c) PROVE IInv'
  BY <1>1, ServerStepOK
<1>2. ASSUME NEW c \in Calls, TabStep(c) PROVE IInv'
  BY <1>2, LostOK, LoginArrivesOK, RefreshArrivesOK, RefusalArrivesOK, RefreshFailsOK,
     InvalidArrivesOK, RequestArrivesOK DEF TabStep
<1>3. ASSUME NEW t \in Tabs, UserStep(t) PROVE IInv'
  BY <1>3, ClientExpiresOK, ShareRefreshOK, ConnectsWithoutOK, ReloadOK, StartLoginOK,
     StartRefreshOK, StartLogoutOK, StartRevokeOK DEF UserStep
<1>4. CASE Tick
  BY <1>4, TickStepOK
<1>5. CASE UNCHANGED vars
  BY <1>5, Stutters
<1>6. QED
  BY <1>1, <1>2, <1>3, <1>4, <1>5 DEF Next

\* Whatever the server, the tabs and the users do, the tables, the calls that run
\* and the tabs stay consistent with each other: the invariant the other theorems
\* rest on.
THEOREM Invariance == Spec => []IInv
<1>1. QED
  BY Initially, Preserved, PTL DEF Spec

LEMMA TypesFollow == IInv => TypeOK
<1> SUFFICES ASSUME IInv PROVE TypeOK
  OBVIOUS
<1>1. /\ now \in 0..MaxTime /\ DOMAIN rows \subseteq 1..MaxSessions /\ lock \in [Tx -> Locks]
  BY SessionConstants DEF IInv, DbTypes, CallTypes
<1>2. \A i \in DOMAIN rows : rows[i] # Gone =>
        rows[i].cur \in DOMAIN parent /\ rows[i].prev = parent[rows[i].cur]
  BY DEF IInv, RowsOK
<1>3. ASSUME NEW c \in Calls
      PROVE  /\ calls[c].stage \in Stages /\ calls[c].kind \in Kinds
             /\ calls[c].tab \in Tabs \cup {NoTab}
             /\ calls[c].token \in 0..Len(parent) /\ calls[c].sid \in 0..Len(rows)
  BY CallFacts, ServerIs DEF ServerOK, CallOK, CarriesOK, CallStates
<1>4. \A t \in Tabs : tabs[t].promise \in Calls \cup {NoCall} /\ tabs[t].shown \in BOOLEAN
  BY AuthFacts DEF TabStates
<1>5. QED
  BY <1>1, <1>2, <1>3, <1>4 DEF TypeOK

LEMMA ReplayFollows == IInv => ReplayEndsSession
BY DEF IInv, CallsOK, CallOK, CarriesOK, ReplayEndsSession

\* Every variable keeps its type: a row of auth_sessions names tokens that were
\* issued, and a call that runs carries a token and a session that exist.
THEOREM TypeCorrect == Spec => []TypeOK
<1>1. QED
  BY Invariance, TypesFollow, PTL

\* A refresh token is exchanged at most once, however many tabs send it at the
\* same time and whichever statements of RefreshSession fail: the UPDATE finds the
\* hash that was looked up, because the transaction kept the lock.
THEOREM TokensHaveOneSuccessor == Spec => []OneSuccessor
<1>1. IInv => OneSuccessor
  BY DEF IInv
<1>2. QED
  BY Invariance, <1>1, PTL

\* When RefreshSession answers that a token was replayed, the session is revoked
\* for good: the revocation was committed and nothing takes it back.
THEOREM ReplayIsFinal == Spec => []ReplayEndsSession
<1>1. QED
  BY Invariance, ReplayFollows, PTL

-----------------------------------------------------------------------------
(* What the steps of the tabs make of the calls.                            *)

\* A call that has not brought a new token ends.
LEMMA IdleQuiet ==
    ASSUME CallTypes, NEW c \in Calls, calls' = [calls EXCEPT ![c] = Idle],
           calls[c].kind = "refresh" => calls[c].answer # "ok"
    PROVE  CallsCalm
<1>1. (\A d \in Calls \ {c} : calls'[d] = calls[d]) /\ calls'[c] = Idle
  BY DEF CallTypes
<1>2. Quiet(c) /\ (calls'[c].stale => calls[c].stale)
  BY <1>1 DEF Quiet, Idle
<1>3. QED
  BY <1>1, <1>2 DEF CallsCalm, Quiet

\* A request that is neither a refresh nor a login that was answered.
LEMMA OtherQuiet ==
    ASSUME CallTypes, NEW c \in Calls, NEW r, calls' = [calls EXCEPT ![c] = r],
           r.kind # "refresh", r.kind = "login" => r.answer = "none", r.stale => calls[c].stale,
           calls[c].kind = "refresh" => calls[c].answer # "ok"
    PROVE  CallsCalm
<1>1. (\A d \in Calls \ {c} : calls'[d] = calls[d]) /\ calls'[c] = r
  BY DEF CallTypes
<1>2. Quiet(c) /\ (calls'[c].stale => calls[c].stale)
  BY <1>1 DEF Quiet
<1>3. QED
  BY <1>1, <1>2 DEF CallsCalm, Quiet

LEMMA StartLoginCalm ==
    ASSUME IInv, NEW t \in Tabs, NEW c \in Calls, StartLogin(t, c)
    PROVE  CallsCalm
<1>1. PICK r : r = Sent("login", t, 0, 0, 0, FALSE)
  OBVIOUS
<1>2. r.kind = "login" /\ r.answer = "none" /\ r.stale = FALSE
  BY <1>1 DEF Sent
<1>3. calls' = [calls EXCEPT ![c] = r]
  BY <1>1, LoginCallIs DEF StartLogin
<1>4. calls[c].kind # "refresh"
  BY DEF StartLogin, At, IInv, CallsOK, CallOK, StageOK
<1>5. QED
  BY <1>2, <1>3, <1>4, OtherQuiet DEF IInv

LEMMA StartRevokeCalm ==
    ASSUME IInv, NEW t \in Tabs, NEW c \in Calls, StartRevoke(t, c)
    PROVE  CallsCalm
<1>1. PICK target : calls' = [calls EXCEPT ![c] = [NewCall("revoke", t) EXCEPT !.target = target]]
  BY DEF StartRevoke
<1>2. PICK r : r = Sent("revoke", t, 0, tabs[t].auth.session, target, FALSE)
  OBVIOUS
<1>3. r.kind = "revoke" /\ r.stale = FALSE
  BY <1>2 DEF Sent
<1>4. calls' = [calls EXCEPT ![c] = r]
  <2>1. ASSUME NEW x
        PROVE  [NewCall("revoke", t) EXCEPT !.target = x] =
                 Sent("revoke", t, 0, tabs[t].auth.session, x, FALSE)
    BY TargetCallIs
  <2>2. QED
    BY <1>1, <1>2, <2>1
<1>5. calls[c].kind # "refresh"
  BY DEF StartRevoke, At, IInv, CallsOK, CallOK, StageOK
<1>6. QED
  BY <1>3, <1>4, <1>5, OtherQuiet DEF IInv

LEMMA StartLogoutCalm ==
    ASSUME IInv, NEW t \in Tabs, NEW c \in Calls, StartLogout(t, c), tabs[t].auth.session # 0
    PROVE  CallsCalm /\ UNCHANGED client
<1>1. calls' = [calls EXCEPT ![c] = [NewCall("logout", t) EXCEPT !.target = tabs[t].auth.session]]
  BY DEF StartLogout
<1>2. PICK r : r = Sent("logout", t, 0, tabs[t].auth.session, tabs[t].auth.session, FALSE)
  OBVIOUS
<1>3. r.kind = "logout" /\ r.stale = FALSE
  BY <1>2 DEF Sent
<1>4. calls' = [calls EXCEPT ![c] = r]
  <2>1. ASSUME NEW x
        PROVE  [NewCall("logout", t) EXCEPT !.target = x] =
                 Sent("logout", t, 0, tabs[t].auth.session, x, FALSE)
    BY TargetCallIs
  <2>2. QED
    BY <1>1, <1>2, <2>1
<1>5. calls[c].kind # "refresh"
  BY DEF StartLogout, At, IInv, CallsOK, CallOK, StageOK
<1>6. QED
  BY <1>3, <1>4, <1>5, OtherQuiet DEF IInv, StartLogout

LEMMA ShareRefreshCalm ==
    ASSUME IInv, NEW t \in Tabs, ShareRefresh(t)
    PROVE  CallsCalm /\ UNCHANGED client
<1>1. PICK c \in Refreshing(t) : calls' = [calls EXCEPT ![c].connect = TRUE]
  BY DEF ShareRefresh
<1>2. c \in Calls /\ calls[c].kind = "refresh" /\ ServerOK
  BY <1>1, ServerIs DEF Refreshing
<1>3. PICK r : r = [calls[c] EXCEPT !.connect = TRUE]
  OBVIOUS
<1>4. /\ r.kind = "refresh" /\ r.sid = calls[c].sid /\ r.tab = calls[c].tab
      /\ r.token = calls[c].token /\ r.answer = calls[c].answer /\ r.stale = calls[c].stale
  BY <1>2, <1>3, JoinedCall
<1>5. calls'[c] = r /\ \A d \in Calls \ {c} : calls'[d] = calls[d]
  BY <1>1, <1>2, <1>3 DEF ServerOK, CallTypes
<1>6. Quiet(c) /\ (calls'[c].stale => calls[c].stale)
  BY <1>2, <1>4, <1>5 DEF Quiet
<1>7. CallsCalm
  BY <1>5, <1>6 DEF CallsCalm, Quiet
<1>8. QED
  BY <1>7 DEF ShareRefresh

\* Calls that wait are not refreshes.
LEMMA WaitersOther ==
    ASSUME IInv, NEW c \in Calls, NEW w \in Waiters(c)
    PROVE  w \in Calls /\ At(w, "waiting") /\ calls[w].kind \in {"logout", "revoke"}
BY DEF Waiters, At, IInv, CallsOK, CallOK, StageOK

LEMMA OutdatedQuiet ==
    ASSUME IInv, NEW d \in Calls, NEW t, calls'[d] = Outdated(d, t)
    PROVE  Quiet(d) /\ (calls'[d].stale => calls[d].stale \/ d \in Refreshing(t))
<1>1. PICK r : r = Outdated(d, t)
  OBVIOUS
<1>2. /\ r.kind = calls[d].kind /\ r.sid = calls[d].sid /\ r.tab = calls[d].tab
      /\ r.token = calls[d].token /\ r.answer = calls[d].answer
  BY <1>1, OutdatedOK, ServerIs
<1>3. d \notin Refreshing(t) => r = calls[d]
  BY <1>1 DEF Outdated
<1>4. calls'[d] = r
  BY <1>1
<1>5. QED
  BY <1>2, <1>3, <1>4 DEF Quiet

\* clearLoggedInState ends no call that has brought a new token.
LEMMA ClearQuiet ==
    ASSUME IInv, NEW t \in Tabs, NEW done \in SUBSET Calls, ClearLoggedIn(t, done),
           \A d \in done : calls[d].kind = "refresh" => calls[d].answer # "ok"
    PROVE  /\ \A d \in Calls : Quiet(d)
           /\ \A d \in Calls : /\ calls'[d].kind = "refresh" => d \notin done
                               /\ calls'[d].stale => d \notin done /\ (calls[d].stale \/ d \in Refreshing(t))
<1>1. ASSUME NEW d \in Calls
      PROVE  /\ Quiet(d)
             /\ calls'[d].kind = "refresh" => d \notin done
             /\ calls'[d].stale => d \notin done /\ (calls[d].stale \/ d \in Refreshing(t))
  <2>1. CASE d \in done
    <3>1. calls'[d] = Idle
      BY <2>1 DEF ClearLoggedIn
    <3>2. QED
      BY <2>1, <3>1 DEF Quiet, Idle
  <2>2. CASE d \notin done
    <3>1. calls'[d] = Outdated(d, t)
      BY <2>2 DEF ClearLoggedIn
    <3>2. QED
      BY <2>2, <3>1, OutdatedQuiet
  <2>3. QED
    BY <2>1, <2>2
<1>2. QED
  BY <1>1

LEMMA RefreshFailsCalm ==
    ASSUME IInv, NEW c \in Calls, RefreshFails(c),
           calls' = [w \in Calls |-> IF w \in Waiters(c) \cup {c} THEN Idle ELSE calls[w]]
    PROVE  CallsCalm
<1>1. ASSUME NEW d \in Calls
      PROVE  Quiet(d) /\ (calls'[d].stale => calls[d].stale)
  <2>1. CASE d \in Waiters(c) \cup {c}
    <3>1. calls'[d] = Idle
      BY <2>1
    <3>2. calls[d].kind = "refresh" => calls[d].answer # "ok"
      BY <2>1, WaitersOther DEF RefreshFails, Arrives
    <3>3. QED
      BY <3>1, <3>2 DEF Quiet, Idle
  <2>2. CASE d \notin Waiters(c) \cup {c}
    BY <2>2 DEF Quiet
  <2>3. QED
    BY <2>1, <2>2
<1>2. QED
  BY <1>1 DEF CallsCalm

\* A call waits for the refresh p, which runs already.
LEMMA WaitQuiet ==
    ASSUME IInv, NEW c \in Calls, At(c, "answered"), calls[c].answer = "invalid", NEW p \in Calls,
           calls' = [calls EXCEPT ![c] = [calls[c] EXCEPT !.stage = "waiting", !.on = p]]
    PROVE  CallsCalm
<1>1. PICK r : r = [calls[c] EXCEPT !.stage = "waiting", !.on = p]
  OBVIOUS
<1>2. r.kind \in {"logout", "revoke"} /\ ~r.stale
  <2>1. ServerOK
    BY ServerIs
  <2>2. CallOK(r)
    BY <1>1, <2>1, WaitingIs
  <2>3. r.stage = "waiting"
    BY <1>1 DEF IInv, CallTypes, CallStates
  <2>4. QED
    BY <2>2, <2>3 DEF CallOK, StageOK
<1>3. calls' = [calls EXCEPT ![c] = r]
  BY <1>1
<1>4. QED
  BY <1>2, <1>3, OtherQuiet DEF IInv

LEMMA RefreshArrivesCalls ==
    ASSUME IInv, NEW c \in Calls, RefreshArrives(c)
    PROVE  /\ calls'[c] = Idle
           /\ \A d \in Calls \ {c} :
                 /\ Quiet(d)
                 /\ calls'[d].stale =>
                       calls[d].stale \/ (Cancelled(c) /\ d \in Refreshing(calls[c].tab))
<1>1. PICK s \in DOMAIN rows : s = calls[c].sid /\ ServerOK
  BY ArrivedFacts DEF RefreshArrives, Arrives
<1>2. ASSUME NEW d \in Calls \ {c}
      PROVE  /\ Quiet(d)
             /\ calls'[d].stale =>
                   calls[d].stale \/ (Cancelled(c) /\ d \in Refreshing(calls[c].tab))
  <2>1. CASE d \in Waiters(c)
    <3>1. PICK r : r = Resent(d, s)
      OBVIOUS
    <3>2. calls'[d] = r /\ At(d, "waiting") /\ calls[d].kind \in {"logout", "revoke"}
      BY <1>1, <2>1, <3>1, WaitersOther DEF RefreshArrives
    <3>3. r.kind = calls[d].kind /\ r.stale = calls[d].stale
      BY <1>1, <3>1, <3>2, ResentIs
    <3>4. QED
      BY <3>2, <3>3 DEF Quiet
  <2>2. CASE d \notin Waiters(c) /\ ~Cancelled(c)
    <3>1. calls'[d] = calls[d]
      BY <2>2 DEF RefreshArrives
    <3>2. QED
      BY <3>1 DEF Quiet
  <2>3. CASE d \notin Waiters(c) /\ Cancelled(c)
    <3>1. calls'[d] = Outdated(d, calls[c].tab)
      BY <2>3 DEF RefreshArrives
    <3>2. QED
      BY <2>3, <3>1, OutdatedQuiet
  <2>4. QED
    BY <2>1, <2>2, <2>3
<1>3. QED
  BY <1>2 DEF RefreshArrives

LEMMA ReloadCalls ==
    ASSUME IInv, NEW t \in Tabs, Reload(t), NEW d \in Calls
    PROVE  \/ calls'[d] = calls[d] /\ calls[d].tab # t
           \/ calls'[d] = Idle /\ calls[d].tab = t
           \/ /\ calls[d].tab = t /\ calls'[d].tab = NoTab /\ calls[d].answer = "none"
              /\ calls'[d].answer = "none" /\ calls'[d].kind = calls[d].kind
              /\ calls'[d].sid = calls[d].sid /\ calls'[d].token = calls[d].token
<1>1. /\ calls[d] \in CallStates
      /\ calls[d].stage \notin {"waiting", "answered"} => calls[d].answer = "none"
  BY CallFacts DEF IInv
<1>2. CASE calls[d].tab = t /\ calls[d].stage \in {"waiting", "answered"}
  BY <1>2 DEF Reload
<1>3. CASE calls[d].tab = t /\ calls[d].stage \notin {"waiting", "answered"}
  <2>1. calls'[d] = [calls[d] EXCEPT !.tab = NoTab]
    BY <1>3 DEF Reload
  <2>2. QED
    BY <1>1, <1>3, <2>1 DEF CallStates
<1>4. CASE calls[d].tab # t
  BY <1>4 DEF Reload
<1>5. QED
  BY <1>2, <1>3, <1>4

\* A tab with a token and no refresh under way starts one.
NewRefresh(t, c) ==
    /\ tabs[t].auth.refresh # 0 /\ tabs[t].promise = NoCall
    /\ calls[c].kind = "none"
    /\ calls'[c].kind = "refresh" /\ calls'[c].tab = t
    /\ calls'[c].token = tabs[t].auth.refresh /\ calls'[c].sid = tabs[t].auth.session
    /\ ~calls'[c].stale
    /\ \A d \in Calls \ {c} : Quiet(d) /\ (calls'[d].stale => calls[d].stale)
    /\ \A u \in Tabs : tabs'[u].auth = tabs[u].auth
    /\ tabs'[t].promise = c /\ \A u \in Tabs \ {t} : tabs'[u].promise = tabs[u].promise
    /\ UNCHANGED <<rows, storage, own, torn, exposed>>

LEMMA RefreshCallFields ==
    ASSUME NEW t, NEW r, r = RefreshCall(t, TRUE) \/ r = RefreshCall(t, FALSE)
    PROVE  /\ r.kind = "refresh" /\ r.tab = t /\ r.token = tabs[t].auth.refresh
           /\ r.sid = tabs[t].auth.session /\ r.stale = FALSE
<1>1. PICK connect : r = Sent("refresh", t, tabs[t].auth.refresh, tabs[t].auth.session, 0, connect)
  BY RefreshCallIs
<1>2. QED
  BY <1>1 DEF Sent

LEMMA PromiseFields ==
    ASSUME IInv, NEW t \in Tabs, NEW p, tabs' = [tabs EXCEPT ![t].promise = p]
    PROVE  /\ \A u \in Tabs : tabs'[u].auth = tabs[u].auth
           /\ tabs'[t].promise = p /\ \A u \in Tabs \ {t} : tabs'[u].promise = tabs[u].promise
<1>1. tabs[t] \in TabStates /\ tabs = [u \in Tabs |-> tabs[u]]
  BY DEF IInv, TabTypes
<1>2. QED
  BY <1>1 DEF TabStates

LEMMA StartRefreshIsNew ==
    ASSUME IInv, NEW t \in Tabs, NEW c \in Calls, StartRefresh(t, c)
    PROVE  NewRefresh(t, c)
<1>1. PICK r : r = RefreshCall(t, TRUE)
  OBVIOUS
<1>2. /\ r.kind = "refresh" /\ r.tab = t /\ r.token = tabs[t].auth.refresh
      /\ r.sid = tabs[t].auth.session /\ r.stale = FALSE
  BY <1>1, RefreshCallFields
<1>3. calls'[c] = r /\ \A d \in Calls \ {c} : calls'[d] = calls[d]
  BY <1>1 DEF StartRefresh, IInv, CallTypes
<1>4. calls[c].kind = "none"
  BY DEF StartRefresh, At, IInv, CallsOK, CallOK, StageOK
<1>5. /\ \A u \in Tabs : tabs'[u].auth = tabs[u].auth
      /\ tabs'[t].promise = c /\ \A u \in Tabs \ {t} : tabs'[u].promise = tabs[u].promise
  BY PromiseFields DEF StartRefresh
<1>6. UNCHANGED <<rows, storage, own, torn, exposed>>
  BY DEF StartRefresh, db
<1>7. tabs[t].auth.refresh # 0 /\ tabs[t].promise = NoCall
  BY DEF StartRefresh
<1>8. QED
  BY <1>2, <1>3, <1>4, <1>5, <1>6, <1>7 DEF NewRefresh, Quiet

\* A call that was answered "invalid token": it waits for the refresh that runs
\* or for a new one, or the tab logs out.
LEMMA InvalidArrivesCases ==
    ASSUME IInv, NEW c \in Calls, InvalidArrives(c)
    PROVE  \/ CallsCalm /\ UNCHANGED client
           \/ \E r \in Calls : NewRefresh(calls[c].tab, r)
           \/ ClearLoggedIn(calls[c].tab, {c})
<1>1. PICK t \in Tabs : t = calls[c].tab /\ At(c, "answered") /\ calls[c].answer = "invalid"
  BY ArrivedFacts DEF InvalidArrives
<1>2. UNCHANGED <<rows, exposed>> /\ tabs[t].auth.refresh # 0
  BY <1>1 DEF InvalidArrives, db
<1>3. ASSUME NEW p \in Calls, UNCHANGED client,
             calls' = [calls EXCEPT ![c] = [calls[c] EXCEPT !.stage = "waiting", !.on = p]]
      PROVE  CallsCalm /\ UNCHANGED client
  BY <1>1, <1>3, WaitQuiet
<1>4. ASSUME NEW p \in Calls, At(p, "idle"), UNCHANGED <<storage, own, torn>>,
             tabs[t].promise = NoCall,
             calls' = [calls EXCEPT ![c] = [calls[c] EXCEPT !.stage = "waiting", !.on = p],
                                    ![p] = RefreshCall(t, FALSE)],
             tabs' = [tabs EXCEPT ![t].promise = p]
      PROVE  NewRefresh(t, p)
  <2>1. PICK r, q : r = [calls[c] EXCEPT !.stage = "waiting", !.on = p] /\ q = RefreshCall(t, FALSE)
    OBVIOUS
  <2>2. /\ q.kind = "refresh" /\ q.tab = t /\ q.token = tabs[t].auth.refresh
        /\ q.sid = tabs[t].auth.session /\ q.stale = FALSE
    BY <2>1, RefreshCallFields
  <2>3. r.kind \in {"logout", "revoke"} /\ ~r.stale
    <3>1. ServerOK
      BY ServerIs
    <3>2. CallOK(r)
      BY <1>1, <2>1, <3>1, WaitingIs
    <3>3. r.stage = "waiting"
      BY <2>1 DEF IInv, CallTypes, CallStates
    <3>4. QED
      BY <3>2, <3>3 DEF CallOK, StageOK
  <2>4. p # c /\ calls[p].kind = "none"
    BY <1>1, <1>4 DEF At, IInv, CallsOK, CallOK, StageOK
  <2>5. calls'[c] = r /\ calls'[p] = q /\ \A d \in Calls \ {c, p} : calls'[d] = calls[d]
    BY <1>4, <2>1, <2>4 DEF IInv, CallTypes
  <2>6. \A d \in Calls \ {p} : Quiet(d) /\ (calls'[d].stale => calls[d].stale)
    BY <1>1, <2>3, <2>5 DEF Quiet
  <2>7. /\ \A u \in Tabs : tabs'[u].auth = tabs[u].auth
        /\ tabs'[t].promise = p /\ \A u \in Tabs \ {t} : tabs'[u].promise = tabs[u].promise
    BY <1>4, PromiseFields
  <2>8. QED
    BY <1>2, <1>4, <2>2, <2>4, <2>5, <2>6, <2>7 DEF NewRefresh
<1>5. tabs[t].promise \in Calls \cup {NoCall}
  BY AuthFacts DEF TabStates
<1>6. QED
  BY <1>1, <1>3, <1>4, <1>5 DEF InvalidArrives

-----------------------------------------------------------------------------
(* Whose session a tab acts for.                                            *)

\* As long as nothing disturbs a tab, all it has is of its own session, and
\* the refreshes that belong to an earlier login are known to.
KeepsOK ==
    /\ \A t \in Tabs \ torn :
          /\ tabs[t].auth.session = own[t]
          /\ \A c \in Refreshing(t) : calls[c].sid = own[t]
    /\ \A c \in Calls : calls[c].stale /\ calls[c].tab \in Tabs => calls[c].tab \in torn

\* A call keeps its tab and its session, though the tab may forget it.
Tethered(d) ==
    /\ calls'[d].kind = "refresh" =>
          /\ calls[d].kind = "refresh" /\ calls'[d].sid = calls[d].sid
          /\ calls'[d].tab \in {calls[d].tab, NoTab}
    /\ calls'[d].stale => calls[d].stale /\ calls[d].kind = "refresh"
                          /\ calls'[d].kind = "refresh"

LEMMA CalmTethers ==
    ASSUME CallsOK, CallsOK', NEW d \in Calls, Quiet(d), calls'[d].stale => calls[d].stale
    PROVE  Tethered(d)
BY DEF Quiet, Tethered, CallsOK, CallOK, StageOK

LEMMA AnswerTethers ==
    ASSUME CallTypes, CallsOK, NEW c \in Calls, NEW token, NEW sid, NEW a, AnswerGoes(c, token, sid, a),
           calls[c].kind = "refresh" => sid = calls[c].sid
    PROVE  \A d \in Calls : Tethered(d)
<1>1. /\ \A d \in Calls \ {c} : calls'[d] = calls[d]
      /\ calls'[c] = IF calls[c].tab = NoTab THEN Idle
                     ELSE CallWith(c, "answered", token, sid, calls[c].doing, a)
  BY DEF AnswerGoes, CallTypes
<1>2. \A d \in Calls : calls[d].stale => calls[d].kind = "refresh"
  BY DEF CallsOK, CallOK, StageOK
<1>3. Tethered(c)
  BY <1>1, <1>2 DEF Tethered, Idle, CallWith
<1>4. QED
  BY <1>1, <1>2, <1>3 DEF Tethered

LEMMA ServerTethers ==
    ASSUME IInv, IInv', NEW c \in Calls, ServerStep(c)
    PROVE  \A d \in Calls : Tethered(d)
<1>1. ServerOK /\ CallsOK /\ CallsOK' /\ CallTypes
  BY ServerIs DEF IInv
<1>2. ASSUME CallsCalm
      PROVE  \A d \in Calls : Tethered(d)
  BY <1>1, <1>2, CalmTethers DEF CallsCalm
<1>3. CASE CommitLogin(c)
  <2>1. PICK n, m : n = Len(parent) + 1 /\ m = Len(rows) + 1
    OBVIOUS
  <2>2. AnswerGoes(c, n, m, "ok")
    BY <1>1, <1>3, <2>1, GrantedTo DEF CommitLogin
  <2>3. calls[c].kind = "login"
    BY <1>1, <1>3, WrittenFacts DEF CommitLogin
  <2>4. QED
    BY <1>1, <2>2, <2>3, AnswerTethers
<1>4. CASE CommitRotation(c)
  <2>1. PICK n : n = Len(parent) + 1
    OBVIOUS
  <2>2. AnswerGoes(c, n, calls[c].sid, "ok")
    BY <1>1, <1>4, <2>1, GrantedTo DEF CommitRotation
  <2>3. QED
    BY <1>1, <2>2, AnswerTethers
<1>5. CASE ~CommitLogin(c) /\ ~CommitRotation(c)
  BY <1>1, <1>2, <1>5, NotServedOK, LookupOK, WriteOK, WriteLoginOK, ValidateOK,
     WriteRevocationOK, CommitEndOK, CommitRevocationOK, FailOK, MaybeCleanupOK
     DEF ServerStep, Calm
<1>6. QED
  BY <1>3, <1>4, <1>5

LEMMA KeepsStays ==
    ASSUME KeepsOK, \A d \in Calls : Tethered(d), UNCHANGED <<own, torn>>,
           \A u \in Tabs : tabs'[u].auth = tabs[u].auth
    PROVE  KeepsOK'
BY SessionConstants DEF KeepsOK, Tethered, Refreshing

\* A call that is not over when tab t is cleared; if it is stale, it was before
\* or is a refresh of t.
Survives(d, t, done) ==
    /\ calls'[d].kind = "refresh" =>
          /\ calls[d].kind = "refresh" /\ calls'[d].tab = calls[d].tab
          /\ calls'[d].sid = calls[d].sid /\ d \notin done
    /\ calls'[d].stale => d \notin done /\ (calls[d].stale \/ d \in Refreshing(t))

LEMMA KeepsCleared ==
    ASSUME IInv, IInv', KeepsOK, NEW t \in Tabs, NEW done \in SUBSET Calls, ClearTab(t, done),
           \A d \in Calls : Survives(d, t, done)
    PROVE  KeepsOK'
<1>1. ASSUME NEW d \in Calls
      PROVE  /\ calls'[d].kind = "refresh" =>
                   /\ calls[d].kind = "refresh" /\ calls'[d].tab = calls[d].tab
                   /\ calls'[d].sid = calls[d].sid /\ d \notin done
             /\ calls'[d].stale => d \notin done /\ (calls[d].stale \/ d \in Refreshing(t))
  BY DEF Survives
<1>2. /\ tabs'[t].auth = NoAuth /\ \A u \in Tabs \ {t} : tabs'[u] = tabs[u]
      /\ own'[t] = 0 /\ \A u \in Tabs \ {t} : own'[u] = own[u]
  BY DEF ClearTab, SetAuth, IInv, TabTypes
<1>3. torn' = IF Refreshing(t) \ done = {} THEN torn \ {t} ELSE torn \cup {t}
  BY DEF ClearTab
<1>4. ASSUME NEW d \in Calls, calls'[d].stale, calls'[d].tab \in Tabs
      PROVE  calls'[d].tab \in torn'
  <2>1. calls'[d].kind = "refresh"
    BY <1>4 DEF IInv, CallsOK, CallOK, StageOK
  <2>2. QED
    BY <1>1, <1>3, <1>4, <2>1 DEF KeepsOK, Refreshing
<1>5. ASSUME NEW u \in Tabs \ torn'
      PROVE  /\ tabs'[u].auth.session = own'[u]
             /\ \A d \in Calls : calls'[d].kind = "refresh" /\ calls'[d].tab = u => calls'[d].sid = own'[u]
  <2>1. CASE u = t
    <3>1. Refreshing(t) \ done = {}
      BY <1>3, <2>1, <1>5
    <3>2. QED
      BY <1>1, <1>2, <2>1, <3>1 DEF NoAuth, Refreshing
  <2>2. CASE u # t
    <3>1. u \notin torn
      BY <1>3, <1>5, <2>2
    <3>2. QED
      BY <1>1, <1>2, <2>2, <3>1 DEF KeepsOK, Refreshing
  <2>3. QED
    BY <2>1, <2>2
<1>6. QED
  BY <1>4, <1>5 DEF KeepsOK, Refreshing

LEMMA KeepsClears ==
    ASSUME IInv, IInv', KeepsOK, NEW t \in Tabs, NEW done \in SUBSET Calls, ClearLoggedIn(t, done),
           \A d \in done : calls[d].kind = "refresh" => calls[d].answer # "ok"
    PROVE  KeepsOK'
<1>1. \A d \in Calls : Survives(d, t, done)
  BY ClearQuiet DEF Quiet, Survives
<1>2. ClearTab(t, done)
  BY DEF ClearLoggedIn
<1>3. QED
  BY <1>1, <1>2, KeepsCleared

LEMMA KeepsNewRefresh ==
    ASSUME IInv, IInv', KeepsOK, NEW t \in Tabs, NEW c \in Calls, NewRefresh(t, c)
    PROVE  KeepsOK'
<1>1. \A d \in Calls \ {c} : Tethered(d)
  BY CalmTethers DEF NewRefresh, IInv
<1>2. QED
  BY <1>1, SessionConstants DEF NewRefresh, KeepsOK, Tethered, Refreshing

LEMMA KeepsLogin ==
    ASSUME IInv, IInv', KeepsOK, NEW c \in Calls, LoginArrives(c)
    PROVE  KeepsOK'
<1>1. PICK t \in Tabs : t = calls[c].tab /\ calls[c].kind = "login"
  BY ArrivedFacts DEF LoginArrives, Arrives
<1>2. calls' = [calls EXCEPT ![c] = Idle] /\ CallTypes /\ CallsOK /\ CallsOK'
  BY DEF LoginArrives, IInv
<1>3. CallsCalm /\ calls'[c] = Idle
  BY <1>1, <1>2, IdleQuiet DEF CallTypes
<1>4. \A d \in Calls : Tethered(d)
  BY <1>2, <1>3, CalmTethers DEF CallsCalm
<1>5. CASE calls[c].answer = "ok"
  <2>1. PICK s : s = calls[c].sid
    OBVIOUS
  <2>2. /\ tabs'[t].auth.session = s /\ own'[t] = s
        /\ \A u \in Tabs \ {t} : tabs'[u] = tabs[u] /\ own'[u] = own[u]
    BY <1>1, <1>5, <2>1 DEF LoginArrives, SetAuth, Payload, IInv, TabTypes
  <2>3. torn' = IF Refreshing(t) = {} THEN torn ELSE torn \cup {t}
    BY <1>1, <1>5 DEF LoginArrives, Tear, Refreshing
  <2>4. ASSUME NEW d \in Calls, calls'[d].stale, calls'[d].tab \in Tabs
        PROVE  calls'[d].tab \in torn'
    BY <1>4, <2>3, <2>4, SessionConstants DEF KeepsOK, Tethered
  <2>5. ASSUME NEW u \in Tabs \ torn'
        PROVE  /\ tabs'[u].auth.session = own'[u]
               /\ \A d \in Calls : calls'[d].kind = "refresh" /\ calls'[d].tab = u => calls'[d].sid = own'[u]
    BY <1>4, <2>2, <2>3, <2>5, SessionConstants DEF KeepsOK, Tethered, Refreshing
  <2>6. QED
    BY <2>4, <2>5 DEF KeepsOK, Refreshing
<1>6. CASE calls[c].answer # "ok"
  BY <1>4, <1>6, KeepsStays DEF LoginArrives, client
<1>7. QED
  BY <1>5, <1>6

LEMMA KeepsRefresh ==
    ASSUME IInv, IInv', KeepsOK, NEW c \in Calls, RefreshArrives(c)
    PROVE  KeepsOK'
<1>1. PICK t \in Tabs : t = calls[c].tab /\ c \in Refreshing(t)
  BY ArrivedFacts DEF RefreshArrives, Arrives, Refreshing
<1>2. PICK s : s = calls[c].sid
  OBVIOUS
<1>3. calls'[c] = Idle /\ Idle.kind = "none" /\ Idle.stale = FALSE
  BY RefreshArrivesCalls DEF Idle
<1>4. CASE Cancelled(c)
  <2>1. \A d \in Calls : Survives(d, t, {c})
    BY <1>1, <1>3, RefreshArrivesCalls DEF Quiet, Survives
  <2>2. ClearTab(t, {c})
    BY <1>1, <1>4 DEF RefreshArrives
  <2>3. QED
    BY <2>1, <2>2, KeepsCleared
<1>5. CASE ~Cancelled(c)
  <2>1. \A d \in Calls \ {c} : Tethered(d)
    BY <1>5, RefreshArrivesCalls, CalmTethers DEF IInv
  <2>2. Tethered(c)
    BY <1>3 DEF Tethered
  <2>3. /\ tabs'[t].auth.session = s /\ \A u \in Tabs \ {t} : tabs'[u] = tabs[u]
        /\ own' = own /\ torn' = torn
    BY <1>1, <1>2, <1>5 DEF RefreshArrives, SetAuth, Payload, IInv, TabTypes
  <2>4. t \notin torn => s = own[t]
    BY <1>1, <1>2 DEF KeepsOK
  <2>5. QED
    BY <2>1, <2>2, <2>3, <2>4, SessionConstants DEF KeepsOK, Tethered, Refreshing
<1>6. QED
  BY <1>4, <1>5

LEMMA KeepsRefusal ==
    ASSUME IInv, IInv', KeepsOK, NEW c \in Calls, RefusalArrives(c)
    PROVE  KeepsOK'
<1>1. PICK t \in Tabs : t = calls[c].tab
  BY ArrivedFacts DEF RefusalArrives, Arrives
<1>2. calls[c].answer # "ok"
  BY DEF RefusalArrives, Refusals
<1>3. CASE ClearLoggedIn(t, Waiters(c) \cup {c})
  <2>1. Waiters(c) \cup {c} \in SUBSET Calls
    BY DEF Waiters
  <2>2. \A d \in Waiters(c) \cup {c} : calls[d].kind = "refresh" => calls[d].answer # "ok"
    BY <1>2, WaitersOther
  <2>3. QED
    BY <1>3, <2>1, <2>2, KeepsClears
<1>4. CASE calls[c].stale /\ Waiters(c) = {}
  <2>1. calls' = [calls EXCEPT ![c] = Idle] /\ CallTypes /\ CallsOK /\ CallsOK'
    BY <1>4 DEF RefusalArrives, IInv
  <2>2. CallsCalm
    BY <1>2, <2>1, IdleQuiet
  <2>3. \A d \in Calls : Tethered(d)
    BY <2>1, <2>2, CalmTethers DEF CallsCalm
  <2>4. t \in torn
    BY <1>1, <1>4 DEF KeepsOK
  <2>5. torn' \in {torn, torn \cup {t}} /\ own' = own /\ \A u \in Tabs \ {t} : tabs'[u] = tabs[u]
    BY <1>1, <1>4 DEF RefusalArrives, SetAuth, Tear, IInv, TabTypes
  <2>6. torn' = torn
    BY <2>4, <2>5
  <2>7. QED
    BY <2>3, <2>4, <2>5, <2>6, SessionConstants DEF KeepsOK, Tethered, Refreshing
<1>5. QED
  BY <1>1, <1>3, <1>4 DEF RefusalArrives

LEMMA KeepsFailed ==
    ASSUME IInv, IInv', KeepsOK, NEW c \in Calls, RefreshFails(c)
    PROVE  KeepsOK'
<1>1. PICK t \in Tabs : t = calls[c].tab
  BY ArrivedFacts DEF RefreshFails, Arrives
<1>2. CASE ClearLoggedIn(t, Waiters(c) \cup {c})
  <2>1. Waiters(c) \cup {c} \in SUBSET Calls
    BY DEF Waiters
  <2>2. \A d \in Waiters(c) \cup {c} : calls[d].kind = "refresh" => calls[d].answer # "ok"
    BY WaitersOther DEF RefreshFails
  <2>3. QED
    BY <1>2, <2>1, <2>2, KeepsClears
<1>3. ASSUME tabs' = [tabs EXCEPT ![t].promise = NoCall], UNCHANGED <<storage, own, torn>>,
             calls' = [w \in Calls |-> IF w \in Waiters(c) \cup {c} THEN Idle ELSE calls[w]]
      PROVE  KeepsOK'
  <2>1. \A d \in Calls : Tethered(d)
    BY <1>3, RefreshFailsCalm, CalmTethers DEF CallsCalm, IInv
  <2>2. \A u \in Tabs : tabs'[u].auth = tabs[u].auth
    BY <1>3, PromiseFields
  <2>3. QED
    BY <1>3, <2>1, <2>2, KeepsStays
<1>4. QED
  BY <1>1, <1>2, <1>3 DEF RefreshFails

LEMMA KeepsReload ==
    ASSUME IInv, IInv', KeepsOK, NEW t \in Tabs, Reload(t)
    PROVE  KeepsOK'
<1>1. /\ tabs'[t].auth = storage /\ own'[t] = storage.session /\ torn' = torn \ {t}
      /\ \A u \in Tabs \ {t} : tabs'[u] = tabs[u] /\ own'[u] = own[u]
  BY DEF Reload, IInv, TabTypes
<1>2. ASSUME NEW d \in Calls, calls'[d].kind = "refresh", calls'[d].tab \in Tabs
      PROVE  calls'[d] = calls[d] /\ calls[d].tab # t
  BY <1>2, ReloadCalls, SessionConstants DEF Idle
<1>3. \A d \in Calls : calls'[d].stale => calls'[d].kind = "refresh"
  BY DEF IInv, CallsOK, CallOK, StageOK
<1>4. QED
  BY <1>1, <1>2, <1>3 DEF KeepsOK, Refreshing

LEMMA KeepsPreserved == IInv /\ IInv' /\ KeepsOK /\ [Next]_vars => KeepsOK'
<1> SUFFICES ASSUME IInv, IInv', KeepsOK, [Next]_vars PROVE KeepsOK'
  OBVIOUS
<1>1. CallsOK /\ CallsOK' /\ CallTypes
  BY DEF IInv
<1>2. ASSUME CallsCalm, UNCHANGED client
      PROVE  KeepsOK'
  BY <1>1, <1>2, CalmTethers, KeepsStays DEF CallsCalm, client
<1>3. ASSUME NEW t \in Tabs, ClearLoggedIn(t, {})
      PROVE  KeepsOK'
  BY <1>3, KeepsClears
<1>4. ASSUME NEW c \in Calls, ServerStep(c)
      PROVE  KeepsOK'
  <2>1. UNCHANGED client
    BY <1>4 DEF ServerStep, NotServed, Lookup, Write, WriteLogin, Validate, WriteRevocation,
                CommitLogin, CommitRotation, CommitEnd, CommitRevocation, Fail, MaybeCleanup
  <2>2. QED
    BY <1>4, <2>1, ServerTethers, KeepsStays DEF client
<1>5. ASSUME NEW c \in Calls, Lost(c)
      PROVE  KeepsOK'
  <2>1. AnswerGoes(c, calls[c].token, calls[c].sid, "failed")
    BY <1>1, <1>5, AnswerTo DEF Lost
  <2>2. \A d \in Calls : Tethered(d)
    BY <1>1, <2>1, AnswerTethers
  <2>3. QED
    BY <1>5, <2>2, KeepsStays DEF Lost, client
<1>6. ASSUME NEW c \in Calls, InvalidArrives(c)
      PROVE  KeepsOK'
  <2>1. calls[c].tab \in Tabs /\ calls[c].answer = "invalid"
    BY <1>6, ArrivedFacts DEF InvalidArrives
  <2>2. QED
    BY <1>2, <1>6, <2>1, InvalidArrivesCases, KeepsNewRefresh, KeepsClears
<1>7. ASSUME NEW c \in Calls, RequestArrives(c)
      PROVE  KeepsOK'
  <2>1. /\ calls[c].tab \in Tabs /\ calls[c].kind \in {"logout", "revoke"}
        /\ calls[c].kind # "refresh"
    BY <1>7, ArrivedFacts DEF RequestArrives
  <2>2. CASE ClearLoggedIn(calls[c].tab, {c})
    BY <2>1, <2>2, KeepsClears
  <2>3. CASE calls' = [calls EXCEPT ![c] = Idle] /\ UNCHANGED client
    BY <1>1, <1>2, <2>1, <2>3, IdleQuiet
  <2>4. QED
    BY <1>7, <2>2, <2>3 DEF RequestArrives
<1>8. ASSUME NEW c \in Calls, TabStep(c)
      PROVE  KeepsOK'
  BY <1>5, <1>6, <1>7, <1>8, KeepsLogin, KeepsRefresh, KeepsRefusal, KeepsFailed DEF TabStep
<1>9. ASSUME NEW t \in Tabs, NEW c \in Calls, StartLogout(t, c)
      PROVE  KeepsOK'
  <2>1. CASE tabs[t].auth.session = 0
    BY <1>3, <1>9, <2>1 DEF StartLogout
  <2>2. CASE tabs[t].auth.session # 0
    BY <1>2, <1>9, <2>2, StartLogoutCalm
  <2>3. QED
    BY <2>1, <2>2
<1>10. ASSUME NEW t \in Tabs, UserStep(t)
      PROVE  KeepsOK'
  <2>1. CASE ClientExpires(t) \/ ConnectsWithout(t)
    BY <1>3, <2>1 DEF ClientExpires, ConnectsWithout
  <2>2. CASE Reload(t)
    BY <2>2, KeepsReload
  <2>3. ASSUME NEW c \in Calls, StartLogin(t, c)
        PROVE  KeepsOK'
    BY <1>2, <2>3, StartLoginCalm DEF StartLogin
  <2>4. ASSUME NEW c \in Calls, StartRefresh(t, c)
        PROVE  KeepsOK'
    BY <2>4, StartRefreshIsNew, KeepsNewRefresh
  <2>5. ASSUME NEW c \in Calls, StartRevoke(t, c)
        PROVE  KeepsOK'
    BY <1>2, <2>5, StartRevokeCalm DEF StartRevoke
  <2>6. CASE ShareRefresh(t)
    BY <1>2, <2>6, ShareRefreshCalm
  <2>7. QED
    BY <1>9, <1>10, <2>1, <2>2, <2>3, <2>4, <2>5, <2>6 DEF UserStep
<1>11. CASE Tick
  BY <1>2, <1>11, CallsUnchanged DEF Tick
<1>12. CASE UNCHANGED vars
  BY <1>2, <1>12, CallsUnchanged DEF vars, client
<1>13. QED
  BY <1>4, <1>8, <1>10, <1>11, <1>12 DEF Next

\* A tab acts for the session it logged in to or loaded: what a refresh brings is
\* of that session, unless the tab logged in or out while it ran.
THEOREM TabsKeepTheirSession == Spec => []TabKeepsItsSession
<1>1. Init => KeepsOK
  BY SessionConstants DEF Init, KeepsOK, LoggedOut, NoAuth, Idle, Refreshing
<1>2. KeepsOK => TabKeepsItsSession
  BY DEF KeepsOK, TabKeepsItsSession
<1>3. QED
  BY Invariance, KeepsPreserved, <1>1, <1>2, PTL DEF Spec

-----------------------------------------------------------------------------
(* What the replay detection needs.  A session that has not been exposed is *)
(* held by one tab and refreshed by one call at a time, and whoever presents *)
(* a token of it presents the current one.                                  *)

Runs(c, i) == calls[c].kind = "refresh" /\ calls[c].sid = i

Holds(t, i) == tabs[t].auth.session = i

\* A login whose answer with session i is on its way.
Granting(c, i) == calls[c].kind = "login" /\ calls[c].answer = "ok" /\ calls[c].sid = i

CurrentOK(i) ==
    \A c \in Calls : Runs(c, i) \/ Granting(c, i) =>
        rows[i].revoked \/ calls[c].token = rows[i].cur

\* The tab may be behind only while its new token is on its way.
HolderOK(i) ==
    \A t \in Tabs : Holds(t, i) =>
        \/ rows[i].revoked
        \/ tabs[t].auth.refresh = rows[i].cur
        \/ \E c \in Calls : Runs(c, i) /\ calls[c].answer = "ok"

Alone(i) ==
    /\ \A t, u \in Tabs : Holds(t, i) /\ Holds(u, i) => t = u
    /\ \A c, d \in Calls : Runs(c, i) /\ Runs(d, i) => c = d
    /\ \A c \in Calls : Runs(c, i) => calls[c].tab \in Tabs
    /\ \A c \in Calls, t \in Tabs : Runs(c, i) /\ Holds(t, i) =>
          calls[c].tab = t /\ tabs[t].promise = c
    /\ \A c \in Calls : Granting(c, i) =>
          /\ \A t \in Tabs : ~Holds(t, i)
          /\ \A d \in Calls : ~Runs(d, i)
          /\ \A d \in Calls : Granting(d, i) => d = c

\* A tab refreshes two sessions, or another one than it holds, only when it
\* logged in while a refresh ran.
TwoRefreshes ==
    /\ \A t \in Tabs, c, d \in Calls :
          c \in Refreshing(t) /\ d \in Refreshing(t) /\ c # d => calls[c].sid \in exposed
    /\ \A t \in Tabs, c \in Calls :
          c \in Refreshing(t) /\ tabs[t].auth.session # 0 /\ ~Holds(t, calls[c].sid) =>
              calls[c].sid \in exposed /\ tabs[t].auth.session \in exposed

\* What a reload would read is what some tab has.
StorageOK == storage.session # 0 => \E t \in Tabs : tabs[t].auth = storage

SafeOK(i) == CurrentOK(i) /\ HolderOK(i) /\ Alone(i)

CauseInv ==
    /\ \A i \in DOMAIN rows : i \notin exposed => SafeOK(i)
    /\ TwoRefreshes
    /\ StorageOK

\* No refresh begins or brings a token, and none that has brought one ends
\* without a cause.
QuietEnough(d) ==
    /\ calls'[d].kind = "refresh" =>
          /\ calls[d].kind = "refresh" /\ calls'[d].tab = calls[d].tab
          /\ calls'[d].sid = calls[d].sid /\ calls'[d].token = calls[d].token
    /\ calls'[d].kind = "login" /\ calls'[d].answer = "ok" =>
          /\ calls[d].kind = "login" /\ calls[d].answer = "ok"
          /\ calls'[d].sid = calls[d].sid /\ calls'[d].token = calls[d].token
    /\ calls[d].kind = "refresh" /\ calls[d].answer = "ok" =>
          \/ calls'[d].kind = "refresh" /\ calls'[d].answer = "ok"
          \/ calls[d].sid \in exposed'

\* Tabs keep what they have or are logged out.
TabsCalm ==
    /\ \A u \in Tabs :
          \/ /\ tabs'[u].auth = tabs[u].auth
             /\ \/ tabs'[u].promise = tabs[u].promise
                \/ \A d \in Calls : calls'[d].kind = "refresh" /\ calls'[d].tab = u =>
                                        calls'[d].sid \in exposed'
          \/ tabs'[u].auth.session = 0
    /\ \/ storage'.session = 0
       \/ storage' = storage /\ \A u \in Tabs : tabs'[u].auth = tabs[u].auth

LEMMA SessionsArePositive ==
    ASSUME IInv
    PROVE  /\ \A i \in DOMAIN rows : i # 0 /\ i \in Nat
           /\ \A c \in Calls : calls[c].sid \in 0..Len(rows) /\ (calls[c].sid \in DOMAIN rows \/ calls[c].sid = 0)
<1>1. rows \in Seq(Rows) /\ DOMAIN rows = 1..Len(rows) /\ Len(rows) \in Nat
  BY DEF IInv, DbTypes
<1>2. \A c \in Calls : calls[c].sid \in 0..Len(rows)
  BY DEF IInv, CallsOK, CallOK, CarriesOK
<1>3. QED
  BY <1>1, <1>2

LEMMA CauseQuiet ==
    ASSUME IInv, IInv', CauseInv, RowsCalm, exposed \subseteq exposed', TabsCalm,
           \A d \in Calls : QuietEnough(d)
    PROVE  CauseInv'
<1>1. \A i \in DOMAIN rows : i # 0
  BY SessionsArePositive
<1>2. ASSUME NEW i \in DOMAIN rows', i \notin exposed'
      PROVE  SafeOK(i)'
  <2>1. i \in DOMAIN rows /\ i # 0 /\ i \notin exposed /\ SafeOK(i)
    BY <1>1, <1>2 DEF RowsCalm, CauseInv
  <2>2. \A d \in Calls : (Runs(d, i)' => Runs(d, i) /\ calls'[d].tab = calls[d].tab)
                         /\ (Granting(d, i)' => Granting(d, i))
                         /\ (Runs(d, i)' \/ Granting(d, i)' => calls'[d].token = calls[d].token)
    BY DEF QuietEnough, Runs, Granting
  <2>3. \A d \in Calls : Runs(d, i) /\ calls[d].answer = "ok" => Runs(d, i)' /\ calls'[d].answer = "ok"
    BY <1>2 DEF QuietEnough, Runs
  <2>4. rows'[i].revoked \/ rows'[i] = rows[i]
    BY <2>1 DEF RowsCalm
  <2>5. \A t \in Tabs : Holds(t, i)' => Holds(t, i) /\ tabs'[t].auth = tabs[t].auth
    BY <2>1 DEF TabsCalm, Holds
  <2>6. CurrentOK(i)'
    BY <2>1, <2>2, <2>4 DEF SafeOK, CurrentOK
  <2>7. HolderOK(i)'
    BY <2>1, <2>3, <2>4, <2>5 DEF SafeOK, HolderOK
  <2>8. \A c \in Calls, t \in Tabs : Runs(c, i)' /\ Holds(t, i)' => calls'[c].tab = t /\ tabs'[t].promise = c
    <3>1. SUFFICES ASSUME NEW c \in Calls, NEW t \in Tabs, Runs(c, i)', Holds(t, i)'
                   PROVE  calls'[c].tab = t /\ tabs'[t].promise = c
      OBVIOUS
    <3>2. calls'[c].tab = t /\ tabs[t].promise = c
      BY <3>1, <2>1, <2>2, <2>5 DEF SafeOK, Alone
    <3>3. tabs'[t].promise = tabs[t].promise
      BY <3>1, <3>2, <1>2, <2>1 DEF TabsCalm, Runs, Holds
    <3>4. QED
      BY <3>2, <3>3
  <2>9. Alone(i)'
    BY <2>1, <2>2, <2>5, <2>8 DEF SafeOK, Alone
  <2>10. QED
    BY <2>6, <2>7, <2>9 DEF SafeOK
<1>3. \A t \in Tabs, c \in Calls : c \in Refreshing(t)' => c \in Refreshing(t) /\ calls'[c].sid = calls[c].sid
  BY DEF Refreshing, QuietEnough
<1>4. TwoRefreshes'
  <2>1. \A t \in Tabs, c, d \in Calls :
          c \in Refreshing(t)' /\ d \in Refreshing(t)' /\ c # d => calls'[c].sid \in exposed'
    BY <1>3 DEF CauseInv, TwoRefreshes
  <2>2. \A t \in Tabs, c \in Calls :
          c \in Refreshing(t)' /\ tabs'[t].auth.session # 0 /\ tabs'[t].auth.session # calls'[c].sid =>
              calls'[c].sid \in exposed' /\ tabs'[t].auth.session \in exposed'
    BY <1>3 DEF CauseInv, TwoRefreshes, TabsCalm, Holds
  <2>3. QED
    BY <2>1, <2>2 DEF TwoRefreshes, Holds
<1>5. StorageOK'
  BY DEF CauseInv, StorageOK, TabsCalm
<1>6. QED
  BY <1>2, <1>4, <1>5 DEF CauseInv

\* A refresh of t's own session begins.
LEMMA CauseNewRefresh ==
    ASSUME IInv, IInv', CauseInv, NEW t \in Tabs, NEW c \in Calls, NewRefresh(t, c)
    PROVE  CauseInv'
<1>1. \A i \in DOMAIN rows : i # 0
  BY SessionsArePositive
<1>2. PICK s \in DOMAIN rows : s = tabs[t].auth.session /\ s # 0
  BY <1>1, AuthFacts DEF NewRefresh
<1>3. /\ rows' = rows /\ exposed' = exposed /\ storage' = storage
      /\ tabs[t].promise \notin Calls /\ tabs'[t].promise = c
      /\ \A u \in Tabs : tabs'[u].auth = tabs[u].auth
      /\ \A u \in Tabs \ {t} : tabs'[u].promise = tabs[u].promise
  BY SessionConstants DEF NewRefresh, Calls
<1>4. /\ calls[c].kind = "none" /\ calls'[c].kind = "refresh" /\ calls'[c].tab = t
      /\ calls'[c].token = tabs[t].auth.refresh /\ calls'[c].sid = s
  BY <1>2 DEF NewRefresh
<1>5. \A d \in Calls \ {c} : Quiet(d)
  BY DEF NewRefresh
<1>6. s \notin exposed => \A d \in Calls : ~Runs(d, s) /\ ~Granting(d, s)
  BY <1>2, <1>3 DEF CauseInv, SafeOK, Alone, Holds
<1>7. ASSUME NEW i \in DOMAIN rows', i \notin exposed'
      PROVE  SafeOK(i)'
  <2>1. i \in DOMAIN rows /\ i # 0 /\ i \notin exposed /\ SafeOK(i)
    BY <1>1, <1>3, <1>7 DEF CauseInv
  <2>2. \A d \in Calls : d # c =>
          /\ Runs(d, i)' => Runs(d, i) /\ calls'[d].tab = calls[d].tab
          /\ Granting(d, i)' => Granting(d, i)
          /\ Runs(d, i)' \/ Granting(d, i)' => calls'[d].token = calls[d].token
    BY <1>5 DEF Quiet, Runs, Granting
  <2>3. \A d \in Calls : Runs(d, i) /\ calls[d].answer = "ok" => Runs(d, i)' /\ calls'[d].answer = "ok"
    BY <1>4, <1>5 DEF Quiet, Runs
  <2>4. ~Granting(c, i)' /\ (Runs(c, i)' <=> i = s)
    BY <1>4 DEF Runs, Granting
  <2>5. \A u \in Tabs : Holds(u, i)' => Holds(u, i) /\ tabs'[u].auth = tabs[u].auth
    BY <1>3 DEF Holds
  <2>6. HolderOK(i)'
    BY <1>3, <2>1, <2>3, <2>5 DEF SafeOK, HolderOK
  <2>7. CASE i = s
    <3>1. \A d \in Calls : d # c => ~Runs(d, i)' /\ ~Granting(d, i)'
      BY <1>6, <2>1, <2>2, <2>7
    <3>2. rows[i].revoked \/ tabs[t].auth.refresh = rows[i].cur
      BY <1>2, <1>6, <2>1, <2>7 DEF SafeOK, HolderOK, Holds
    <3>3. CurrentOK(i)'
      BY <1>3, <1>4, <3>1, <3>2 DEF CurrentOK
    <3>4. \A u \in Tabs : Holds(u, i)' => u = t
      BY <1>2, <2>1, <2>5, <2>7 DEF SafeOK, Alone, Holds
    <3>5. Alone(i)'
      BY <1>3, <1>4, <2>4, <3>1, <3>4 DEF Alone
    <3>6. QED
      BY <2>6, <3>3, <3>5 DEF SafeOK
  <2>8. CASE i # s
    <3>1. CurrentOK(i)'
      BY <1>3, <2>1, <2>2, <2>4, <2>8 DEF SafeOK, CurrentOK
    <3>2. \A u \in Tabs : Holds(u, i)' => u # t
      BY <1>2, <2>5, <2>8 DEF Holds
    <3>3. Alone(i)'
      BY <1>3, <2>1, <2>2, <2>4, <2>5, <2>8, <3>2 DEF SafeOK, Alone
    <3>4. QED
      BY <2>6, <3>1, <3>3 DEF SafeOK
  <2>9. QED
    BY <2>7, <2>8
<1>8. \A u \in Tabs, d \in Calls : d # c /\ d \in Refreshing(u)' =>
        d \in Refreshing(u) /\ calls'[d].sid = calls[d].sid
  BY <1>5 DEF Refreshing, Quiet
<1>9. ASSUME NEW d \in Calls, d # c, d \in Refreshing(t)
      PROVE  calls[d].sid \in exposed /\ s \in exposed
  <2>1. CASE calls[d].sid = s
    BY <1>6, <1>9, <2>1 DEF Runs, Refreshing
  <2>2. CASE calls[d].sid # s
    BY <1>2, <1>9, <2>2 DEF CauseInv, TwoRefreshes, Holds
  <2>3. QED
    BY <2>1, <2>2
<1>10. TwoRefreshes'
  <2>1. ASSUME NEW u \in Tabs, NEW a \in Calls, NEW b \in Calls,
               a \in Refreshing(u)', b \in Refreshing(u)', a # b
        PROVE  calls'[a].sid \in exposed'
    <3>1. CASE a # c /\ b # c
      BY <1>3, <1>8, <2>1, <3>1 DEF CauseInv, TwoRefreshes
    <3>2. CASE a = c
      <4>1. u = t /\ b # c
        BY <1>4, <2>1, <3>2 DEF Refreshing
      <4>2. QED
        BY <1>3, <1>4, <1>8, <1>9, <2>1, <3>2, <4>1
    <3>3. CASE b = c
      <4>1. u = t /\ a # c
        BY <1>4, <2>1, <3>3 DEF Refreshing
      <4>2. QED
        BY <1>3, <1>8, <1>9, <2>1, <4>1
    <3>4. QED
      BY <3>1, <3>2, <3>3
  <2>2. ASSUME NEW u \in Tabs, NEW a \in Calls, a \in Refreshing(u)',
               tabs'[u].auth.session # 0, tabs'[u].auth.session # calls'[a].sid
        PROVE  calls'[a].sid \in exposed' /\ tabs'[u].auth.session \in exposed'
    <3>1. a # c
      BY <1>2, <1>3, <1>4, <2>2 DEF Refreshing
    <3>2. QED
      BY <1>3, <1>8, <2>2, <3>1 DEF CauseInv, TwoRefreshes, Holds
  <2>3. QED
    BY <2>1, <2>2 DEF TwoRefreshes, Holds
<1>11. StorageOK'
  BY <1>3 DEF CauseInv, StorageOK
<1>12. QED
  BY <1>7, <1>10, <1>11 DEF CauseInv

\* A login commits: the session is new, and only its answer carries its token.
LEMMA CauseCommitLogin ==
    ASSUME IInv, IInv', CauseInv, NEW c \in Calls, CommitLogin(c)
    PROVE  CauseInv'
<1>1. PICK n, m : n = Len(parent) + 1 /\ m = Len(rows) + 1
  OBVIOUS
<1>2. AnswerGoes(c, n, m, "ok") /\ calls[c].kind = "login" /\ calls[c].answer = "none"
  BY <1>1, ServerIs, GrantedTo, WrittenFacts, CallFacts DEF CommitLogin, ServerOK, At
<1>3. /\ UNCHANGED <<exposed, tabs, storage>>
      /\ \A d \in Calls \ {c} : calls'[d] = calls[d]
      /\ calls'[c].kind # "refresh"
      /\ calls'[c].kind = "login" => calls'[c].token = n /\ calls'[c].sid = m
  BY <1>2 DEF CommitLogin, client, AnswerGoes, CallWith, Idle, IInv, CallTypes
<1>4. /\ DOMAIN rows' = DOMAIN rows \cup {m} /\ rows'[m].cur = n /\ m # 0
      /\ \A i \in DOMAIN rows : rows'[i] = rows[i] /\ i # m
      /\ m \notin 0..Len(rows)
  <2>1. rows \in Seq(Rows) /\ parent \in Seq(Nat)
    BY DEF IInv, DbTypes
  <2>2. rows' = IssueSession(rows, n, now)
    BY <1>1 DEF CommitLogin
  <2>3. QED
    BY <1>1, <2>1, <2>2 DEF IssueSession
<1>5. \A d \in Calls : calls[d].sid # m
  BY <1>4, SessionsArePositive
<1>6. \A t \in Tabs : tabs[t].auth.session # m
  BY <1>4, AuthFacts
<1>7. ASSUME NEW i \in DOMAIN rows', i \notin exposed'
      PROVE  SafeOK(i)'
  <2>1. CASE i = m
    <3>1. \A d \in Calls : ~Runs(d, i)' /\ (Granting(d, i)' => d = c)
      BY <1>3, <1>5, <2>1 DEF Runs, Granting
    <3>2. \A t \in Tabs : ~Holds(t, i)'
      BY <1>3, <1>6, <2>1 DEF Holds
    <3>3. CurrentOK(i)'
      BY <1>3, <1>4, <2>1, <3>1 DEF CurrentOK, Granting
    <3>4. HolderOK(i)' /\ Alone(i)'
      BY <3>1, <3>2 DEF HolderOK, Alone
    <3>5. QED
      BY <3>3, <3>4 DEF SafeOK
  <2>2. CASE i \in DOMAIN rows
    <3>1. i # m /\ SafeOK(i) /\ rows'[i] = rows[i]
      BY <1>3, <1>4, <1>7, <2>2 DEF CauseInv
    <3>2. /\ ~Runs(c, i) /\ ~Runs(c, i)' /\ ~Granting(c, i) /\ ~Granting(c, i)'
      BY <1>2, <1>3, <3>1 DEF Runs, Granting
    <3>3. \A d \in Calls : /\ Runs(d, i)' <=> Runs(d, i)
                           /\ Granting(d, i)' <=> Granting(d, i)
                           /\ d # c => calls'[d] = calls[d]
      BY <1>3, <3>2 DEF Runs, Granting
    <3>4. CurrentOK(i)' /\ HolderOK(i)'
      BY <1>3, <3>1, <3>2, <3>3 DEF SafeOK, CurrentOK, HolderOK, Holds
    <3>5. Alone(i)'
      BY <1>3, <3>1, <3>2, <3>3 DEF SafeOK, Alone, Holds
    <3>6. QED
      BY <3>4, <3>5 DEF SafeOK
  <2>3. QED
    BY <1>4, <2>1, <2>2
<1>8. TwoRefreshes' /\ StorageOK'
  BY <1>2, <1>3 DEF CauseInv, TwoRefreshes, StorageOK, Refreshing, Holds
<1>9. QED
  BY <1>7, <1>8 DEF CauseInv

\* A rotation commits: the session's only call carries its new token.
LEMMA CauseCommitRotation ==
    ASSUME IInv, IInv', CauseInv, NEW c \in Calls, CommitRotation(c)
    PROVE  CauseInv'
<1>1. PICK n, s : n = Len(parent) + 1 /\ s = calls[c].sid
  OBVIOUS
<1>2. /\ AnswerGoes(c, n, s, "ok") /\ calls[c].kind = "refresh" /\ calls[c].answer = "none"
      /\ s \in DOMAIN rows /\ ~rows[s].revoked
  BY <1>1, ServerIs, GrantedTo, WrittenFacts, CallFacts DEF CommitRotation, ServerOK, At
<1>3. /\ UNCHANGED <<exposed, tabs, storage>>
      /\ \A d \in Calls \ {c} : calls'[d] = calls[d]
      /\ calls'[c] = IF calls[c].tab = NoTab THEN Idle
                     ELSE CallWith(c, "answered", n, s, calls[c].doing, "ok")
  BY <1>2 DEF CommitRotation, client, AnswerGoes, IInv, CallTypes
<1>4. \/ calls'[c].kind = "none" /\ calls[c].tab = NoTab
      \/ /\ calls'[c].kind = "refresh" /\ calls'[c].token = n /\ calls'[c].sid = s
         /\ calls'[c].tab = calls[c].tab /\ calls'[c].answer = "ok"
  BY <1>2, <1>3 DEF CallWith, Idle
<1>5. /\ DOMAIN rows' = DOMAIN rows /\ rows'[s].cur = n
      /\ \A i \in DOMAIN rows : i # s => rows'[i] = rows[i]
  <2>1. rows \in Seq(Rows) /\ n \in Nat /\ now \in Int /\ rows' = Rotate(rows, s, n, now)
    BY <1>1 DEF IInv, DbTypes, CommitRotation
  <2>2. /\ DOMAIN rows' = DOMAIN rows
        /\ rows'[s] = [cur |-> n, prev |-> rows[s].cur, issued |-> now, revoked |-> FALSE,
                       reason |-> rows[s].reason, updated |-> now]
        /\ \A k \in DOMAIN rows : k = s \/ rows'[k] = rows[k]
    BY <1>2, <2>1, RotateTo
  <2>3. QED
    BY <2>2
<1>6. Runs(c, s) /\ \A i : ~Granting(c, i) /\ ~Granting(c, i)'
  BY <1>1, <1>2, <1>4 DEF Runs, Granting
<1>7. ASSUME NEW i \in DOMAIN rows', i \notin exposed'
      PROVE  SafeOK(i)'
  <2>1. i \in DOMAIN rows /\ SafeOK(i)
    BY <1>3, <1>5, <1>7 DEF CauseInv
  <2>2. CASE i = s
    <3>1. calls[c].tab \in Tabs /\ \A d \in Calls : (Runs(d, i) => d = c) /\ ~Granting(d, i)
      BY <1>6, <2>1, <2>2 DEF SafeOK, Alone
    <3>2. Runs(c, i)' /\ calls'[c].token = n /\ calls'[c].answer = "ok" /\ calls'[c].tab = calls[c].tab
      BY <1>4, <2>2, <3>1, SessionConstants DEF Runs
    <3>3. \A d \in Calls : (Runs(d, i)' => d = c) /\ ~Granting(d, i)'
      BY <1>3, <1>6, <3>1 DEF Runs, Granting
    <3>4. CurrentOK(i)' /\ HolderOK(i)'
      BY <1>5, <2>2, <3>2, <3>3 DEF CurrentOK, HolderOK
    <3>5. Alone(i)'
      BY <1>3, <1>6, <2>1, <2>2, <3>1, <3>2, <3>3 DEF SafeOK, Alone, Holds
    <3>6. QED
      BY <3>4, <3>5 DEF SafeOK
  <2>3. CASE i # s
    <3>1. ~Runs(c, i) /\ ~Runs(c, i)' /\ rows'[i] = rows[i]
      BY <1>1, <1>4, <1>5, <2>1, <2>3 DEF Runs
    <3>2. \A d \in Calls : /\ Runs(d, i)' <=> Runs(d, i)
                           /\ Granting(d, i)' <=> Granting(d, i)
                           /\ d # c => calls'[d] = calls[d]
      BY <1>3, <1>6, <3>1 DEF Runs, Granting
    <3>3. CurrentOK(i)' /\ HolderOK(i)'
      BY <1>3, <1>6, <2>1, <3>1, <3>2 DEF SafeOK, CurrentOK, HolderOK, Holds
    <3>4. Alone(i)'
      BY <1>3, <1>6, <2>1, <3>1, <3>2 DEF SafeOK, Alone, Holds
    <3>5. QED
      BY <3>3, <3>4 DEF SafeOK
  <2>4. QED
    BY <2>2, <2>3
<1>8. \A t \in Tabs, d \in Calls : d \in Refreshing(t)' => d \in Refreshing(t) /\ calls'[d].sid = calls[d].sid
  BY <1>1, <1>2, <1>3, <1>4 DEF Refreshing
<1>9. TwoRefreshes'
  BY <1>3, <1>8 DEF CauseInv, TwoRefreshes, Holds
<1>10. StorageOK'
  BY <1>3 DEF CauseInv, StorageOK
<1>11. QED
  BY <1>7, <1>9, <1>10 DEF CauseInv

\* A login arrives: the tab is the only one to hold the new session.
LEMMA CauseLoginArrives ==
    ASSUME IInv, IInv', CauseInv, NEW c \in Calls, LoginArrives(c), calls[c].answer = "ok"
    PROVE  CauseInv'
<1>1. PICK t \in Tabs, s \in Nat : /\ t = calls[c].tab /\ s = calls[c].sid
                                   /\ calls[c].kind = "login" /\ Granting(c, s)
  BY ArrivedFacts DEF LoginArrives, Arrives, Granting
<1>2. PICK auth : auth = Payload(c) /\ auth.session = s /\ auth.refresh = calls[c].token
  <2>1. Payload(c).session = s /\ Payload(c).refresh = calls[c].token
    BY <1>1 DEF Payload
  <2>2. QED
    BY <2>1, Zenon
<1>3. /\ tabs'[t].auth = auth /\ storage' = auth /\ \A u \in Tabs \ {t} : tabs'[u] = tabs[u]
      /\ rows' = rows
      /\ exposed' = IF Refreshing(t) = {} THEN exposed
                    ELSE exposed \cup {calls[r].sid : r \in Refreshing(t) \cup {c}}
  BY <1>1, <1>2 DEF LoginArrives, SetAuth, IInv, TabTypes, server, db
<1>4. calls'[c] = Idle /\ \A d \in Calls \ {c} : calls'[d] = calls[d]
  BY DEF LoginArrives, IInv, CallTypes
<1>5. calls'[c].kind = "none"
  BY <1>4 DEF Idle
<1>6. \A r \in Refreshing(t) : calls[r].sid \in exposed' /\ s \in exposed'
  BY <1>1, <1>3
<1>7. \A i \in exposed : i \in exposed'
  BY <1>3
<1>8. ASSUME NEW i \in DOMAIN rows', i \notin exposed'
      PROVE  SafeOK(i)'
  <2>1. i \in DOMAIN rows /\ SafeOK(i) /\ rows'[i] = rows[i]
    BY <1>3, <1>7, <1>8 DEF CauseInv
  <2>2. /\ ~Runs(c, i) /\ ~Runs(c, i)' /\ ~Granting(c, i)'
    BY <1>1, <1>5 DEF Runs, Granting
  <2>3. \A d \in Calls : /\ Runs(d, i)' <=> Runs(d, i)
                         /\ Granting(d, i)' => Granting(d, i)
                         /\ d # c => calls'[d] = calls[d]
    BY <1>4, <2>2 DEF Runs, Granting
  <2>4. CurrentOK(i)'
    BY <2>1, <2>2, <2>3 DEF SafeOK, CurrentOK
  <2>5. CASE i = s
    <3>1. \A u \in Tabs : ~Holds(u, i)
      BY <1>1, <2>1, <2>5 DEF SafeOK, Alone
    <3>2. \A d \in Calls : ~Runs(d, i)' /\ ~Granting(d, i)'
      BY <1>1, <2>1, <2>2, <2>3, <2>5 DEF SafeOK, Alone
    <3>3. rows[i].revoked \/ auth.refresh = rows[i].cur
      BY <1>1, <1>2, <2>1, <2>5 DEF SafeOK, CurrentOK
    <3>4. \A u \in Tabs : Holds(u, i)' => u = t
      BY <1>3, <3>1 DEF Holds
    <3>5. HolderOK(i)' /\ Alone(i)'
      BY <1>3, <2>1, <3>2, <3>3, <3>4 DEF HolderOK, Alone
    <3>6. QED
      BY <2>4, <3>5 DEF SafeOK
  <2>6. CASE i # s
    <3>1. \A u \in Tabs : Holds(u, i)' => u # t /\ Holds(u, i) /\ tabs'[u] = tabs[u]
      BY <1>2, <1>3, <2>6 DEF Holds
    <3>2. HolderOK(i)'
      BY <2>1, <2>2, <2>3, <3>1 DEF SafeOK, HolderOK
    <3>3. Alone(i)'
      BY <2>1, <2>2, <2>3, <3>1 DEF SafeOK, Alone
    <3>4. QED
      BY <2>4, <3>2, <3>3 DEF SafeOK
  <2>7. QED
    BY <2>5, <2>6
<1>9. \A u \in Tabs, d \in Calls : d \in Refreshing(u)' => d \in Refreshing(u) /\ calls'[d].sid = calls[d].sid
  BY <1>4, <1>5 DEF Refreshing
<1>10. TwoRefreshes'
  <2>1. ASSUME NEW u \in Tabs, NEW a \in Calls, a \in Refreshing(u)',
               tabs'[u].auth.session # 0, tabs'[u].auth.session # calls'[a].sid
        PROVE  calls'[a].sid \in exposed' /\ tabs'[u].auth.session \in exposed'
    <3>1. CASE u = t
      BY <1>2, <1>3, <1>6, <1>9, <2>1, <3>1
    <3>2. CASE u # t
      BY <1>3, <1>7, <1>9, <2>1, <3>2 DEF CauseInv, TwoRefreshes, Holds
    <3>3. QED
      BY <3>1, <3>2
  <2>2. \A u \in Tabs, a, b \in Calls :
          a \in Refreshing(u)' /\ b \in Refreshing(u)' /\ a # b => calls'[a].sid \in exposed'
    BY <1>7, <1>9 DEF CauseInv, TwoRefreshes
  <2>3. QED
    BY <2>1, <2>2 DEF TwoRefreshes, Holds
<1>11. StorageOK'
  BY <1>3 DEF StorageOK
<1>12. QED
  BY <1>8, <1>10, <1>11 DEF CauseInv

\* A refresh arrives: the tab has the token its only refresh brought.
LEMMA CauseRefreshArrives ==
    ASSUME IInv, IInv', CauseInv, NEW c \in Calls, RefreshArrives(c)
    PROVE  CauseInv'
<1>1. PICK t \in Tabs, s \in Nat : /\ t = calls[c].tab /\ s = calls[c].sid
                                   /\ c \in Refreshing(t) /\ Runs(c, s)
  BY ArrivedFacts DEF RefreshArrives, Arrives, Refreshing, Runs
<1>2. PICK auth : /\ tabs'[t].auth = auth /\ storage' = auth
                  /\ auth.session = 0 \/ (auth.session = s /\ auth.refresh = calls[c].token)
  <2>1. Payload(c).session = s /\ Payload(c).refresh = calls[c].token /\ NoAuth.session = 0
    BY <1>1 DEF Payload, NoAuth
  <2>2. \A a, p, b : SetAuth(t, a, p, b) => tabs'[t].auth = a /\ storage' = a
    BY <1>1 DEF SetAuth, IInv, TabTypes
  <2>3. CASE Cancelled(c)
    <3>1. SetAuth(t, NoAuth, NoCall, FALSE)
      BY <1>1, <2>3 DEF RefreshArrives, ClearTab
    <3>2. QED
      BY <2>1, <2>2, <3>1
  <2>4. CASE ~Cancelled(c)
    <3>1. SetAuth(t, Payload(c), NoCall, tabs[t].shown)
      BY <1>1, <2>4 DEF RefreshArrives
    <3>2. QED
      BY <2>1, <2>2, <3>1
  <2>5. QED
    BY <2>3, <2>4
<1>3. (\A u \in Tabs \ {t} : tabs'[u] = tabs[u]) /\ rows' = rows /\ exposed' = exposed
  BY <1>1 DEF RefreshArrives, ClearTab, SetAuth, IInv, TabTypes, server, db
<1>4. calls'[c].kind = "none" /\ \A d \in Calls \ {c} : Quiet(d)
  BY RefreshArrivesCalls DEF Idle
<1>5. ASSUME NEW i \in DOMAIN rows', i \notin exposed'
      PROVE  SafeOK(i)'
  <2>1. i \in DOMAIN rows /\ SafeOK(i) /\ rows'[i] = rows[i] /\ i # 0
    BY <1>3, <1>5, SessionsArePositive DEF CauseInv
  <2>2. ~Runs(c, i)' /\ ~Granting(c, i)'
    BY <1>4 DEF Runs, Granting
  <2>3. \A d \in Calls : d # c =>
          /\ Runs(d, i)' => Runs(d, i) /\ calls'[d].tab = calls[d].tab
          /\ Granting(d, i)' => Granting(d, i)
          /\ Runs(d, i)' \/ Granting(d, i)' => calls'[d].token = calls[d].token
          /\ Runs(d, i) /\ calls[d].answer = "ok" => Runs(d, i)' /\ calls'[d].answer = "ok"
    BY <1>4 DEF Quiet, Runs, Granting
  <2>4. CurrentOK(i)'
    BY <2>1, <2>2, <2>3 DEF SafeOK, CurrentOK
  <2>5. CASE i = s
    <3>1. \A d \in Calls : ~Runs(d, i)' /\ ~Granting(d, i)'
      BY <1>1, <2>1, <2>2, <2>3, <2>5 DEF SafeOK, Alone
    <3>2. rows[i].revoked \/ calls[c].token = rows[i].cur
      BY <1>1, <2>1, <2>5 DEF SafeOK, CurrentOK
    <3>3. \A u \in Tabs : Holds(u, i)' => u = t
      BY <1>1, <1>3, <2>1, <2>5 DEF SafeOK, Alone, Holds
    <3>4. HolderOK(i)' /\ Alone(i)'
      BY <1>2, <2>1, <3>1, <3>2, <3>3 DEF HolderOK, Alone, Holds
    <3>5. QED
      BY <2>4, <3>4 DEF SafeOK
  <2>6. CASE i # s
    <3>1. \A u \in Tabs : Holds(u, i)' => u # t /\ Holds(u, i) /\ tabs'[u] = tabs[u]
      BY <1>2, <1>3, <2>1, <2>6 DEF Holds
    <3>2. ~Runs(c, i)
      BY <1>1, <2>6 DEF Runs
    <3>3. HolderOK(i)'
      BY <2>1, <2>3, <3>1, <3>2 DEF SafeOK, HolderOK
    <3>4. Alone(i)'
      BY <2>1, <2>2, <2>3, <3>1 DEF SafeOK, Alone
    <3>5. QED
      BY <2>4, <3>3, <3>4 DEF SafeOK
  <2>7. QED
    BY <2>5, <2>6
<1>6. \A u \in Tabs, d \in Calls : d \in Refreshing(u)' =>
        d # c /\ d \in Refreshing(u) /\ calls'[d].sid = calls[d].sid
  BY <1>4 DEF Refreshing, Quiet
<1>7. TwoRefreshes'
  <2>1. ASSUME NEW u \in Tabs, NEW a \in Calls, a \in Refreshing(u)',
               tabs'[u].auth.session # 0, tabs'[u].auth.session # calls'[a].sid
        PROVE  calls'[a].sid \in exposed' /\ tabs'[u].auth.session \in exposed'
    <3>1. CASE u = t
      BY <1>1, <1>2, <1>3, <1>6, <2>1, <3>1 DEF CauseInv, TwoRefreshes
    <3>2. CASE u # t
      BY <1>3, <1>6, <2>1, <3>2 DEF CauseInv, TwoRefreshes, Holds
    <3>3. QED
      BY <3>1, <3>2
  <2>2. \A u \in Tabs, a, b \in Calls :
          a \in Refreshing(u)' /\ b \in Refreshing(u)' /\ a # b => calls'[a].sid \in exposed'
    BY <1>3, <1>6 DEF CauseInv, TwoRefreshes
  <2>3. QED
    BY <2>1, <2>2 DEF TwoRefreshes, Holds
<1>8. StorageOK'
  BY <1>2 DEF StorageOK
<1>9. QED
  BY <1>5, <1>7, <1>8 DEF CauseInv

\* A tab is loaded again: unless another tab has what localStorage has, this one
\* had it already, and no refresh of it was running.
LEMMA CauseReload ==
    ASSUME IInv, IInv', CauseInv, NEW t \in Tabs, Reload(t)
    PROVE  CauseInv'
<1>1. PICK stored \in Nat : stored = storage.session
  BY DEF IInv, TabTypes, Auths
<1>2. /\ tabs'[t].auth = storage /\ \A u \in Tabs \ {t} : tabs'[u] = tabs[u]
      /\ rows' = rows /\ storage' = storage
      /\ exposed' = exposed \cup {calls[c].sid : c \in Refreshing(t)}
                            \cup {s \in {stored} : \E u \in Tabs \ {t} : tabs[u].auth.session = s}
  BY <1>1 DEF Reload, IInv, TabTypes, server, db
<1>3. /\ \A i \in exposed : i \in exposed'
      /\ \A d \in Refreshing(t) : calls[d].sid \in exposed'
      /\ stored \notin exposed' => \A u \in Tabs \ {t} : tabs[u].auth.session # stored
  BY <1>2
<1>4. ASSUME NEW d \in Calls
      PROVE  \/ calls'[d] = calls[d] /\ calls[d].tab # t
             \/ /\ calls[d].tab = t /\ calls'[d].tab \notin Tabs /\ calls'[d].answer # "ok"
                /\ calls'[d].kind = "refresh" =>
                      calls[d].kind = "refresh" /\ calls'[d].sid = calls[d].sid
  <2>1. CASE calls'[d] = Idle /\ calls[d].tab = t
    <3>1. calls'[d].tab = NoTab /\ calls'[d].answer = "none" /\ calls'[d].kind = "none"
      BY <2>1 DEF Idle
    <3>2. QED
      BY <2>1, <3>1, SessionConstants
  <2>2. CASE calls'[d] = calls[d] /\ calls[d].tab # t
    BY <2>2
  <2>3. CASE /\ calls[d].tab = t /\ calls'[d].tab = NoTab /\ calls'[d].answer = "none"
             /\ calls'[d].kind = calls[d].kind /\ calls'[d].sid = calls[d].sid
    BY <2>3, SessionConstants
  <2>4. QED
    BY <2>1, <2>2, <2>3, ReloadCalls
<1>5. ASSUME NEW i \in DOMAIN rows', i \notin exposed'
      PROVE  SafeOK(i)'
  <2>1. i \in DOMAIN rows /\ SafeOK(i) /\ rows'[i] = rows[i] /\ i # 0
    BY <1>2, <1>3, <1>5, SessionsArePositive DEF CauseInv
  <2>2. \A d \in Calls : /\ Runs(d, i) => calls[d].tab # t
                         /\ Runs(d, i)' => calls[d].tab # t
                         /\ Granting(d, i)' => calls[d].tab # t
    BY <1>3, <1>4, <1>5 DEF Runs, Granting, Refreshing
  <2>3. \A d \in Calls : /\ Runs(d, i) => calls'[d] = calls[d] /\ Runs(d, i)'
                         /\ Runs(d, i)' => calls'[d] = calls[d] /\ Runs(d, i)
                         /\ Granting(d, i)' => calls'[d] = calls[d] /\ Granting(d, i)
    BY <1>4, <2>2 DEF Runs, Granting
  <2>4. CurrentOK(i)'
    BY <2>1, <2>3 DEF SafeOK, CurrentOK
  <2>5. \A u \in Tabs : Holds(u, i)' => Holds(u, i) /\ tabs'[u].auth = tabs[u].auth
    <3>1. ASSUME Holds(t, i)'
          PROVE  tabs[t].auth = storage
      <4>1. i = stored
        BY <1>1, <1>2, <3>1 DEF Holds
      <4>2. PICK u \in Tabs : tabs[u].auth = storage
        BY <1>1, <2>1, <4>1 DEF CauseInv, StorageOK
      <4>3. u = t
        BY <1>1, <1>3, <1>5, <4>1, <4>2
      <4>4. QED
        BY <4>2, <4>3
    <3>2. QED
      BY <1>2, <3>1 DEF Holds
  <2>6. HolderOK(i)'
    BY <2>1, <2>3, <2>5 DEF SafeOK, HolderOK
  <2>7. ~ \E d \in Calls : Runs(d, i)' /\ Holds(t, i)'
    BY <2>1, <2>2, <2>3, <2>5 DEF SafeOK, Alone
  <2>8. Alone(i)'
    BY <1>2, <2>1, <2>3, <2>5, <2>7 DEF SafeOK, Alone
  <2>9. QED
    BY <2>4, <2>6, <2>8 DEF SafeOK
<1>6. \A u \in Tabs, d \in Calls : d \in Refreshing(u)' =>
        u # t /\ d \in Refreshing(u) /\ calls'[d].sid = calls[d].sid
  BY <1>4 DEF Refreshing
<1>7. TwoRefreshes'
  <2>1. \A u \in Tabs, a \in Calls :
          /\ a \in Refreshing(u)' /\ tabs'[u].auth.session # 0
          /\ tabs'[u].auth.session # calls'[a].sid
          => calls'[a].sid \in exposed' /\ tabs'[u].auth.session \in exposed'
    BY <1>2, <1>3, <1>6 DEF CauseInv, TwoRefreshes, Holds
  <2>2. \A u \in Tabs, a, b \in Calls :
          a \in Refreshing(u)' /\ b \in Refreshing(u)' /\ a # b => calls'[a].sid \in exposed'
    BY <1>3, <1>6 DEF CauseInv, TwoRefreshes
  <2>3. QED
    BY <2>1, <2>2 DEF TwoRefreshes, Holds
<1>8. StorageOK'
  BY <1>2 DEF StorageOK
<1>9. QED
  BY <1>5, <1>7, <1>8 DEF CauseInv

\* Who a replay takes the session from: it was presented a token that had been
\* exchanged already.
LEMMA ReasonFollows ==
    ASSUME IInv, CauseInv, ReplayNeedsCause, [Next]_vars,
           exposed \subseteq exposed'
    PROVE  ReplayNeedsCause'
<1>1. /\ rows \in Seq(Rows) /\ parent \in Seq(Nat) /\ now \in Int /\ Len(rows) \in Nat
      /\ DOMAIN rows = 1..Len(rows) /\ ServerOK
  BY ServerIs DEF IInv, DbTypes
<1>2. CASE UNCHANGED rows
  BY <1>2 DEF ReplayNeedsCause
<1>3. ASSUME NEW c \in Calls, CommitLogin(c)
      PROVE  ReplayNeedsCause'
  <2>1. PICK m, row : /\ m = Len(rows) + 1
                      /\ row = [cur |-> Len(parent) + 1, prev |-> 0, issued |-> now,
                                revoked |-> FALSE, reason |-> "none", updated |-> now]
    OBVIOUS
  <2>2. rows' = Append(rows, row) /\ row.reason = "none"
    BY <1>3, <2>1 DEF CommitLogin, IssueSession
  <2>3. /\ DOMAIN rows' = DOMAIN rows \cup {m} /\ rows'[m] = row
        /\ \A i \in DOMAIN rows : rows'[i] = rows[i]
    <3>1. \A r : rows' = Append(rows, r) =>
             /\ DOMAIN rows' = DOMAIN rows \cup {m} /\ rows'[m] = r
             /\ \A i \in DOMAIN rows : rows'[i] = rows[i]
      BY <1>1, <2>1
    <3>2. QED
      BY <2>2, <3>1
  <2>4. QED
    BY <2>2, <2>3 DEF ReplayNeedsCause
<1>4. ASSUME NEW c \in Calls, CommitRotation(c)
      PROVE  ReplayNeedsCause'
  <2>1. PICK n \in Nat, i \in Nat : n = Len(parent) + 1 /\ i = calls[c].sid
    BY <1>1, SessionsArePositive
  <2>2. i \in DOMAIN rows /\ ~rows[i].revoked /\ rows' = Rotate(rows, i, n, now)
    BY <1>1, <1>4, <2>1, WrittenFacts DEF CommitRotation
  <2>3. /\ DOMAIN rows' = DOMAIN rows
        /\ rows'[i] = [cur |-> n, prev |-> rows[i].cur, issued |-> now, revoked |-> FALSE,
                       reason |-> rows[i].reason, updated |-> now]
        /\ \A k \in DOMAIN rows : k = i \/ rows'[k] = rows[k]
    BY <1>1, <2>2, RotateTo
  <2>4. rows'[i].reason = rows[i].reason
    BY <2>3
  <2>5. QED
    BY <2>2, <2>3, <2>4 DEF ReplayNeedsCause
<1>5. ASSUME NEW i \in DOMAIN rows, NEW reason \in {"expired", "replay", "user"},
             rows' = RevokeSession(rows, i, reason, now),
             reason = "replay" => i \in exposed
      PROVE  ReplayNeedsCause'
  <2>1. /\ DOMAIN rows' = DOMAIN rows
        /\ rows'[i] = [cur |-> rows[i].cur, prev |-> rows[i].prev, issued |-> rows[i].issued,
                       revoked |-> TRUE,
                       reason |-> IF rows[i].reason = "none" THEN reason ELSE rows[i].reason,
                       updated |-> now]
        /\ \A k \in DOMAIN rows : k = i \/ rows'[k] = rows[k]
    BY <1>1, <1>5, RevokeTo
  <2>2. rows'[i].reason \in {reason, rows[i].reason}
    BY <2>1
  <2>3. QED
    BY <1>5, <2>1, <2>2 DEF ReplayNeedsCause
<1>6. ASSUME NEW c \in Calls, CommitEnd(c)
      PROVE  ReplayNeedsCause'
  <2>1. PICK i \in DOMAIN rows, reason \in {"expired", "replay"} :
           /\ i = calls[c].sid /\ reason = calls[c].doing
           /\ calls[c].kind = "refresh" /\ ~rows[i].revoked /\ rows[i] # Gone
           /\ reason = "replay" => rows[i].prev = calls[c].token
    BY <1>1, <1>6, WrittenFacts DEF CommitEnd
  <2>2. ASSUME reason = "replay", i \notin exposed
        PROVE  FALSE
    <3>1. rows[i].cur = calls[c].token
      BY <2>1, <2>2 DEF CauseInv, SafeOK, CurrentOK, Runs
    <3>2. /\ rows[i].cur \in DOMAIN parent /\ rows[i].prev = parent[rows[i].cur]
          /\ parent[rows[i].cur] < rows[i].cur
      BY <2>1 DEF IInv, RowsOK
    <3>3. QED
      BY <1>1, <2>1, <2>2, <3>1, <3>2
  <2>3. rows' = RevokeSession(rows, i, reason, now)
    BY <1>6, <2>1 DEF CommitEnd
  <2>4. QED
    BY <1>5, <2>2, <2>3
<1>7. ASSUME NEW c \in Calls, CommitRevocation(c)
      PROVE  ReplayNeedsCause'
  <2>1. calls[c].target \in DOMAIN rows
    BY <1>1, <1>7, WrittenFacts DEF CommitRevocation
  <2>2. QED
    BY <1>5, <1>7, <2>1 DEF CommitRevocation
<1>8. ASSUME NEW c \in Calls, MaybeCleanup(c)
      PROVE  ReplayNeedsCause'
  <2>1. /\ DOMAIN rows' = DOMAIN rows
        /\ \A i \in DOMAIN rows : rows'[i] \in {rows[i], Gone}
    BY <1>1, <1>8, CleanedTo DEF MaybeCleanup
  <2>2. QED
    BY <2>1 DEF ReplayNeedsCause, Gone
<1>9. ASSUME NEW c \in Calls, ServerStep(c)
      PROVE  ReplayNeedsCause'
  <2>1. CASE NotServed(c) \/ Lookup(c) \/ Write(c) \/ WriteLogin(c) \/ Validate(c)
             \/ WriteRevocation(c) \/ Fail(c)
    BY <1>2, <2>1 DEF NotServed, Lookup, Write, WriteLogin, Validate, WriteRevocation, Fail,
                      server, db
  <2>2. QED
    BY <1>3, <1>4, <1>6, <1>7, <1>8, <1>9, <2>1 DEF ServerStep
<1>10. ASSUME NEW c \in Calls, TabStep(c)
      PROVE  ReplayNeedsCause'
  BY <1>2, <1>10 DEF TabStep, Lost, LoginArrives, RefreshArrives, RefusalArrives, RefreshFails,
                    InvalidArrives, RequestArrives, server, db
<1>11. ASSUME NEW t \in Tabs, UserStep(t)
      PROVE  ReplayNeedsCause'
  BY <1>2, <1>11 DEF UserStep, ClientExpires, ShareRefresh, ConnectsWithout, Reload, StartLogin, StartRefresh, StartLogout,
                     StartRevoke, server, db
<1>12. CASE Tick \/ UNCHANGED vars
  BY <1>2, <1>12 DEF Tick, server, db, vars
<1>13. QED
  BY <1>9, <1>10, <1>11, <1>12 DEF Next

LEMMA ExposedGrows ==
    ASSUME [Next]_vars
    PROVE  exposed \subseteq exposed'
<1>1. ASSUME NEW c \in Calls, ServerStep(c)
      PROVE  exposed \subseteq exposed'
  BY <1>1 DEF ServerStep, NotServed, Lookup, Write, WriteLogin, Validate, WriteRevocation,
              CommitLogin, CommitRotation, CommitEnd, CommitRevocation, Fail, MaybeCleanup
<1>2. ASSUME NEW c \in Calls, TabStep(c)
      PROVE  exposed \subseteq exposed'
  BY <1>2 DEF TabStep, Lost, LoginArrives, RefreshArrives, RefusalArrives, RefreshFails,
              InvalidArrives, RequestArrives
<1>3. ASSUME NEW t \in Tabs, UserStep(t)
      PROVE  exposed \subseteq exposed'
  BY <1>3 DEF UserStep, ClientExpires, ShareRefresh, ConnectsWithout, Reload, StartLogin, StartRefresh, StartLogout,
              StartRevoke
<1>4. CASE Tick \/ UNCHANGED vars
  BY <1>4 DEF Tick, vars
<1>5. QED
  BY <1>1, <1>2, <1>3, <1>4 DEF Next

LEMMA CauseClears ==
    ASSUME IInv, IInv', CauseInv, exposed \subseteq exposed', NEW t \in Tabs, SetAuth(t, NoAuth, NoCall, FALSE) \/ SetAuth(t, NoAuth, NoCall, tabs[t].shown),
           UNCHANGED rows, \A d \in Calls : Quiet(d)
    PROVE  CauseInv'
<1>1. /\ tabs'[t].auth = NoAuth /\ storage' = NoAuth /\ NoAuth.session = 0
      /\ \A u \in Tabs \ {t} : tabs'[u] = tabs[u]
  BY DEF SetAuth, NoAuth, IInv, TabTypes
<1>2. TabsCalm
  BY <1>1 DEF TabsCalm
<1>3. RowsCalm
  BY DEF RowsCalm
<1>4. \A d \in Calls : QuietEnough(d)
  BY DEF Quiet, QuietEnough
<1>5. QED
  BY <1>2, <1>3, <1>4, CauseQuiet

LEMMA CauseCalm ==
    ASSUME IInv, IInv', CauseInv, exposed \subseteq exposed', RowsCalm, CallsCalm,
           UNCHANGED client
    PROVE  CauseInv'
<1>1. TabsCalm
  BY DEF TabsCalm, client
<1>2. \A d \in Calls : QuietEnough(d)
  BY DEF CallsCalm, Quiet, QuietEnough
<1>3. QED
  BY <1>1, <1>2, CauseQuiet

LEMMA CauseLost ==
    ASSUME IInv, IInv', CauseInv, exposed \subseteq exposed', NEW c \in Calls, Lost(c)
    PROVE  CauseInv'
<1>1. AnswerGoes(c, calls[c].token, calls[c].sid, "failed") /\ calls[c].tab # NoTab
  BY AnswerTo, ArrivedFacts, SessionConstants DEF Lost, IInv
<1>2. /\ calls'[c] = CallWith(c, "answered", calls[c].token, calls[c].sid, calls[c].doing, "failed")
      /\ \A d \in Calls \ {c} : calls'[d] = calls[d]
  BY <1>1 DEF AnswerGoes, IInv, CallTypes
<1>3. calls[c].kind = "refresh" /\ calls[c].answer = "ok" => calls[c].sid \in exposed'
  BY DEF Lost
<1>4. QuietEnough(c)
  BY <1>2, <1>3 DEF QuietEnough, CallWith
<1>5. \A d \in Calls : QuietEnough(d)
  BY <1>2, <1>4 DEF QuietEnough
<1>6. TabsCalm /\ RowsCalm
  BY DEF Lost, client, server, db, TabsCalm, RowsCalm
<1>7. QED
  BY <1>5, <1>6, CauseQuiet

LEMMA CauseFails ==
    ASSUME IInv, IInv', CauseInv, exposed \subseteq exposed', NEW c \in Calls, RefreshFails(c),
           NEW t \in Tabs, t = calls[c].tab,
           tabs' = [tabs EXCEPT ![t].promise = NoCall], UNCHANGED <<storage, own, torn>>,
           calls' = [w \in Calls |-> IF w \in Waiters(c) \cup {c} THEN Idle ELSE calls[w]]
    PROVE  CauseInv'
<1>1. CallsCalm /\ calls'[c] = Idle /\ Idle.kind = "none" /\ c \in Refreshing(t)
  BY RefreshFailsCalm DEF Idle, RefreshFails, Arrives, Refreshing
<1>2. /\ \A u \in Tabs : tabs'[u].auth = tabs[u].auth
      /\ \A u \in Tabs \ {t} : tabs'[u].promise = tabs[u].promise
  BY PromiseFields
<1>3. ASSUME NEW d \in Calls, calls'[d].kind = "refresh", calls'[d].tab = t
      PROVE  calls'[d].sid \in exposed'
  <2>1. d # c /\ d \in Refreshing(t) /\ calls'[d].sid = calls[d].sid
    BY <1>1, <1>3 DEF CallsCalm, Quiet, Refreshing
  <2>2. QED
    BY <1>1, <2>1 DEF CauseInv, TwoRefreshes
<1>4. TabsCalm
  BY <1>2, <1>3 DEF TabsCalm
<1>5. RowsCalm
  BY DEF RefreshFails, server, db, RowsCalm
<1>6. \A d \in Calls : QuietEnough(d)
  BY <1>1 DEF CallsCalm, Quiet, QuietEnough
<1>7. QED
  BY <1>4, <1>5, <1>6, CauseQuiet

LEMMA CausePreserved == IInv /\ IInv' /\ CauseInv /\ [Next]_vars => CauseInv'
<1> SUFFICES ASSUME IInv, IInv', CauseInv, [Next]_vars PROVE CauseInv'
  OBVIOUS
<1>1. exposed \subseteq exposed' /\ ServerOK /\ CallTypes
  BY ExposedGrows, ServerIs DEF ServerOK
<1>2. ASSUME CallsCalm, UNCHANGED <<client, rows>>
      PROVE  CauseInv'
  BY <1>1, <1>2, CauseCalm DEF RowsCalm
<1>3. ASSUME NEW t \in Tabs, NEW done \in SUBSET Calls, ClearLoggedIn(t, done), UNCHANGED rows,
             \A d \in done : calls[d].kind = "refresh" => calls[d].answer # "ok"
      PROVE  CauseInv'
  BY <1>1, <1>3, ClearQuiet, CauseClears DEF ClearLoggedIn, ClearTab
<1>4. ASSUME NEW c \in Calls, ServerStep(c)
      PROVE  CauseInv'
  <2>1. UNCHANGED client
    BY <1>4 DEF ServerStep, NotServed, Lookup, Write, WriteLogin, Validate, WriteRevocation,
                CommitLogin, CommitRotation, CommitEnd, CommitRevocation, Fail, MaybeCleanup
  <2>2. CASE ~CommitLogin(c) /\ ~CommitRotation(c)
    BY <1>1, <1>4, <2>1, <2>2, CauseCalm, NotServedOK, LookupOK, WriteOK, WriteLoginOK, ValidateOK,
       WriteRevocationOK, CommitEndOK, CommitRevocationOK, FailOK, MaybeCleanupOK
       DEF ServerStep, Calm
  <2>3. QED
    BY <2>2, CauseCommitLogin, CauseCommitRotation
<1>5. ASSUME NEW c \in Calls, LoginArrives(c), calls[c].answer # "ok"
      PROVE  CauseInv'
  <2>1. calls' = [calls EXCEPT ![c] = Idle] /\ calls[c].kind # "refresh"
    BY <1>5 DEF LoginArrives, Arrives
  <2>2. UNCHANGED <<client, rows>>
    BY <1>5 DEF LoginArrives, server, db
  <2>3. QED
    BY <1>1, <1>2, <2>1, <2>2, IdleQuiet
<1>6. ASSUME NEW c \in Calls, RefusalArrives(c)
      PROVE  CauseInv'
  <2>1. PICK t \in Tabs : t = calls[c].tab /\ calls[c].answer # "ok"
    BY <1>6, ArrivedFacts DEF RefusalArrives, Arrives, Refusals
  <2>2. UNCHANGED rows
    BY <1>6 DEF RefusalArrives, server, db
  <2>3. CASE ClearLoggedIn(t, Waiters(c) \cup {c})
    <3>1. Waiters(c) \cup {c} \in SUBSET Calls
      BY DEF Waiters
    <3>2. \A d \in Waiters(c) \cup {c} : calls[d].kind = "refresh" => calls[d].answer # "ok"
      BY <2>1, WaitersOther
    <3>3. QED
      BY <1>3, <2>2, <2>3, <3>1, <3>2
  <2>4. CASE calls[c].stale /\ Waiters(c) = {}
    <3>1. calls' = [calls EXCEPT ![c] = Idle] /\ SetAuth(t, NoAuth, NoCall, tabs[t].shown)
      BY <1>6, <2>1, <2>4 DEF RefusalArrives
    <3>2. CallsCalm
      BY <1>1, <2>1, <3>1, IdleQuiet
    <3>3. QED
      BY <1>1, <2>2, <3>1, <3>2, CauseClears DEF CallsCalm
  <2>5. QED
    BY <1>6, <2>1, <2>3, <2>4 DEF RefusalArrives
<1>7. ASSUME NEW c \in Calls, RefreshFails(c)
      PROVE  CauseInv'
  <2>1. PICK t \in Tabs : t = calls[c].tab
    BY <1>7, ArrivedFacts DEF RefreshFails, Arrives
  <2>2. CASE ClearLoggedIn(t, Waiters(c) \cup {c})
    <3>1. Waiters(c) \cup {c} \in SUBSET Calls
      BY DEF Waiters
    <3>2. \A d \in Waiters(c) \cup {c} : calls[d].kind = "refresh" => calls[d].answer # "ok"
      BY <1>7, WaitersOther DEF RefreshFails
    <3>3. UNCHANGED rows
      BY <1>7 DEF RefreshFails, server, db
    <3>4. QED
      BY <1>3, <2>2, <3>1, <3>2, <3>3
  <2>3. QED
    BY <1>1, <1>7, <2>1, <2>2, CauseFails DEF RefreshFails
<1>8. ASSUME NEW c \in Calls, InvalidArrives(c)
      PROVE  CauseInv'
  <2>1. calls[c].tab \in Tabs /\ calls[c].answer = "invalid" /\ UNCHANGED rows
    BY <1>8, ArrivedFacts DEF InvalidArrives, db
  <2>2. CASE ClearLoggedIn(calls[c].tab, {c})
    BY <1>3, <2>1, <2>2
  <2>3. QED
    BY <1>2, <1>8, <2>1, <2>2, InvalidArrivesCases, CauseNewRefresh
<1>9. ASSUME NEW c \in Calls, RequestArrives(c)
      PROVE  CauseInv'
  <2>1. /\ calls[c].tab \in Tabs /\ calls[c].kind \in {"logout", "revoke"}
        /\ calls[c].kind # "refresh" /\ UNCHANGED rows
    BY <1>9, ArrivedFacts DEF RequestArrives, server, db
  <2>2. CASE ClearLoggedIn(calls[c].tab, {c})
    BY <1>3, <2>1, <2>2
  <2>3. CASE calls' = [calls EXCEPT ![c] = Idle] /\ UNCHANGED client
    BY <1>1, <1>2, <2>1, <2>3, IdleQuiet
  <2>4. QED
    BY <1>9, <2>2, <2>3 DEF RequestArrives
<1>10. ASSUME NEW c \in Calls, TabStep(c)
      PROVE  CauseInv'
  BY <1>1, <1>5, <1>6, <1>7, <1>8, <1>9, <1>10, CauseLost, CauseLoginArrives, CauseRefreshArrives
     DEF TabStep
<1>11. ASSUME NEW t \in Tabs, UserStep(t)
      PROVE  CauseInv'
  <2>1. CASE ClientExpires(t) \/ ConnectsWithout(t)
    BY <1>3, <2>1 DEF ClientExpires, ConnectsWithout, server, db
  <2>2. CASE Reload(t)
    BY <2>2, CauseReload
  <2>3. ASSUME NEW c \in Calls, StartLogin(t, c)
        PROVE  CauseInv'
    BY <1>2, <2>3, StartLoginCalm DEF StartLogin, db
  <2>4. ASSUME NEW c \in Calls, StartRefresh(t, c)
        PROVE  CauseInv'
    BY <2>4, StartRefreshIsNew, CauseNewRefresh
  <2>5. ASSUME NEW c \in Calls, StartRevoke(t, c)
        PROVE  CauseInv'
    BY <1>2, <2>5, StartRevokeCalm DEF StartRevoke, db
  <2>6. ASSUME NEW c \in Calls, StartLogout(t, c)
        PROVE  CauseInv'
    <3>1. UNCHANGED rows
      BY <2>6 DEF StartLogout, db
    <3>2. CASE tabs[t].auth.session = 0
      BY <1>3, <2>6, <3>1, <3>2 DEF StartLogout
    <3>3. CASE tabs[t].auth.session # 0
      BY <1>2, <2>6, <3>1, <3>3, StartLogoutCalm
    <3>4. QED
      BY <3>2, <3>3
  <2>7. CASE ShareRefresh(t)
    <3>1. UNCHANGED <<client, rows>>
      BY <2>7 DEF ShareRefresh, server, db
    <3>2. QED
      BY <1>2, <2>7, <3>1, ShareRefreshCalm
  <2>8. QED
    BY <1>11, <2>1, <2>2, <2>3, <2>4, <2>5, <2>6, <2>7 DEF UserStep
<1>12. CASE Tick \/ UNCHANGED vars
  BY <1>2, <1>12, CallsUnchanged DEF Tick, vars, client, server, db
<1>13. QED
  BY <1>4, <1>10, <1>11, <1>12 DEF Next

\* The replay detection takes a session away only with a cause: the answer of a
\* refresh was lost, the tab was loaded again while it ran, two tabs held the
\* session, or the user logged in while a refresh of an earlier login ran.
THEOREM ReplaysHaveACause == Spec => []ReplayNeedsCause
<1>1. Init => CauseInv /\ ReplayNeedsCause
  BY DEF Init, CauseInv, ReplayNeedsCause, TwoRefreshes, StorageOK, Refreshing, Idle, NoAuth
<1>2. IInv /\ CauseInv /\ ReplayNeedsCause /\ [Next]_vars => ReplayNeedsCause'
  BY ReasonFollows, ExposedGrows
<1>3. QED
  BY Invariance, CausePreserved, <1>1, <1>2, PTL DEF Spec

-----------------------------------------------------------------------------
(* Sessions implements SessionLifecycle.                                    *)

Lives == [i \in DOMAIN rows |-> LifeOf(rows[i])]

Currents == [i \in DOMAIN rows |-> rows[i].cur]

States == {"live", "ended", "gone"}

LEMMA AppendIs ==
    ASSUME NEW S, NEW s \in Seq(S), NEW e \in S, NEW f,
           f = [i \in 1..Len(s) + 1 |-> f[i]],
           \A i \in 1..Len(s) : f[i] = s[i], f[Len(s) + 1] = e
    PROVE  f = Append(s, e)
<1>1. Len(s) \in Nat /\ Append(s, e) \in Seq(S) /\ Len(Append(s, e)) = Len(s) + 1
  OBVIOUS
<1>2. Append(s, e) = [i \in 1..Len(s) + 1 |-> Append(s, e)[i]]
  <2>1. ASSUME NEW q \in Seq(S)
        PROVE  q = [i \in 1..Len(q) |-> q[i]]
    OBVIOUS
  <2>2. QED
    BY <1>1, <2>1
<1>3. \A i \in 1..Len(s) + 1 : f[i] = Append(s, e)[i]
  <2>1. ASSUME NEW i \in 1..Len(s)
        PROVE  Append(s, e)[i] = s[i]
    OBVIOUS
  <2>2. Append(s, e)[Len(s) + 1] = e
    OBVIOUS
  <2>3. \A i \in 1..Len(s) + 1 : i \in 1..Len(s) \/ i = Len(s) + 1
    BY <1>1
  <2>4. QED
    BY <2>1, <2>2, <2>3
<1>4. QED
  BY <1>2, <1>3

\* Only a deleted row has no token.
LEMMA GoneIs == IInv => \A i \in DOMAIN rows : rows[i] = Gone <=> rows[i].cur = 0
<1> SUFFICES ASSUME IInv, NEW i \in DOMAIN rows PROVE rows[i] = Gone <=> rows[i].cur = 0
  OBVIOUS
<1>1. rows[i] # Gone => rows[i].cur \in DOMAIN parent /\ DOMAIN parent = 1..Len(parent)
  BY DEF IInv, RowsOK, DbTypes
<1>2. rows[i] # Gone => rows[i].cur # 0
  BY <1>1
<1>3. rows[i] = Gone => rows[i].cur = 0
  BY DEF Gone
<1>4. QED
  BY <1>2, <1>3

LEMMA LivesAre ==
    ASSUME IInv
    PROVE  /\ rows \in Seq(Rows) /\ DOMAIN rows = 1..Len(rows) /\ Len(rows) \in Nat
           /\ Lives \in Seq(States) /\ Len(Lives) = Len(rows) /\ DOMAIN Lives = DOMAIN rows
           /\ Currents \in Seq(Nat) /\ Len(Currents) = Len(rows) /\ DOMAIN Currents = DOMAIN rows
           /\ \A i \in DOMAIN rows : /\ rows[i] = Gone <=> rows[i].cur = 0
                                     /\ rows[i].issued \in Int /\ rows[i].cur \in Nat
           /\ now \in Int
<1>1. rows \in Seq(Rows) /\ DOMAIN rows = 1..Len(rows) /\ Len(rows) \in Nat /\ now \in Int
  BY DEF IInv, DbTypes
<1>2. \A i \in DOMAIN rows : rows[i] \in Rows
  BY <1>1
<1>3. Lives \in [1..Len(rows) -> States] /\ Currents \in [1..Len(rows) -> Nat]
  <2>1. \A i \in DOMAIN rows : rows[i].cur \in Nat
    BY <1>2 DEF Rows
  <2>2. \A i \in DOMAIN rows : LifeOf(rows[i]) \in States
    BY DEF LifeOf, States
  <2>3. QED
    BY <1>1, <2>1, <2>2 DEF Lives, Currents
<1>4. Lives \in Seq(States) /\ Len(Lives) = Len(rows) /\ DOMAIN Lives = DOMAIN rows
  BY <1>1, <1>3
<1>5. Currents \in Seq(Nat) /\ Len(Currents) = Len(rows) /\ DOMAIN Currents = DOMAIN rows
  BY <1>1, <1>3
<1>6. \A i \in DOMAIN rows : rows[i].issued \in Int /\ rows[i].cur \in Nat
  BY <1>2 DEF Rows
<1>7. QED
  BY <1>1, <1>4, <1>5, <1>6, GoneIs

\* The maps of the next state, row by row.
LEMMA LivesMove ==
    ASSUME IInv, IInv'
    PROVE  /\ Lives' = [i \in DOMAIN rows' |-> Lives'[i]]
           /\ Currents' = [i \in DOMAIN rows' |-> Currents'[i]]
           /\ \A i \in DOMAIN rows' : Currents'[i] = rows'[i].cur
           /\ \A i \in DOMAIN rows' :
                 Lives'[i] = IF rows'[i].cur = 0 THEN "gone"
                             ELSE IF ~rows'[i].revoked /\ ~(rows'[i].issued < now') THEN "live"
                             ELSE "ended"
           /\ \A i \in DOMAIN rows :
                 /\ Currents[i] = rows[i].cur
                 /\ Lives[i] = IF rows[i].cur = 0 THEN "gone"
                               ELSE IF ~rows[i].revoked /\ ~(rows[i].issued < now) THEN "live"
                               ELSE "ended"
<1>1. \A i \in DOMAIN rows : rows[i] = Gone <=> rows[i].cur = 0
  BY GoneIs
<1>2. \A i \in DOMAIN rows' : rows'[i] = Gone <=> rows'[i].cur = 0
  <2>1. IInv' => (\A i \in DOMAIN rows : rows[i] = Gone <=> rows[i].cur = 0)'
    BY GoneIs, PTL
  <2>2. QED
    BY <2>1
<1>3. QED
  BY <1>1, <1>2 DEF Lives, Currents, LifeOf, Live, Expired

LEMMA MapIs ==
    ASSUME NEW S, NEW f, NEW g, f = [i \in S |-> f[i]], g = [i \in S |-> g[i]],
           \A i \in S : f[i] = g[i]
    PROVE  f = g
<1>1. [i \in S |-> f[i]] = [i \in S |-> g[i]]
  OBVIOUS
<1>2. QED
  BY <1>1, Zenon

\* Sessions that end, or none.
LEMMA EndsAbstractly ==
    ASSUME IInv, IInv', DOMAIN rows' = DOMAIN rows,
           \A i \in DOMAIN rows :
               /\ rows'[i].cur = rows[i].cur
               /\ Lives'[i] = Lives[i] \/ (Lives[i] = "live" /\ Lives'[i] = "ended")
    PROVE  \E S \in SUBSET DOMAIN Lives : Lifecycle!End(S)
<1> DEFINE S == {i \in DOMAIN rows : Lives'[i] # Lives[i]}
<1>1. S \in SUBSET DOMAIN Lives /\ DOMAIN Lives = DOMAIN rows
  BY LivesAre
<1>2. \A i \in S : Lives[i] = "live"
  OBVIOUS
<1>3. Currents' = Currents
  BY LivesMove DEF Currents
<1>4. Lives' = [i \in DOMAIN Lives |-> IF i \in S THEN "ended" ELSE Lives[i]]
  <2>1. \A i \in DOMAIN rows : Lives'[i] = IF i \in S THEN "ended" ELSE Lives[i]
    OBVIOUS
  <2>2. Lives' = [i \in DOMAIN rows |-> Lives'[i]]
    BY LivesMove
  <2>3. QED
    BY <1>1, <2>1, <2>2
<1> HIDE DEF S
<1>5. Lifecycle!End(S)
  BY <1>2, <1>3, <1>4 DEF Lifecycle!End, Lifecycle!Move, Lives, Currents
<1>6. QED
  BY <1>1, <1>5

LEMMA IssuesAbstractly ==
    ASSUME IInv, IInv', NEW c \in Calls, CommitLogin(c)
    PROVE  Lifecycle!Issue
<1>1. /\ rows \in Seq(Rows) /\ DOMAIN rows = 1..Len(rows) /\ Len(rows) \in Nat
      /\ parent \in Seq(Nat) /\ now \in Int /\ now' = now
      /\ Len(Lives) = Len(rows) /\ Len(Currents) = Len(rows)
      /\ DOMAIN Lives = DOMAIN rows /\ DOMAIN Currents = DOMAIN rows
  BY LivesAre DEF IInv, DbTypes, CommitLogin
<1>2. PICK n \in Nat, m \in Nat : n = Len(parent) + 1 /\ m = Len(rows) + 1
  BY <1>1
<1>3. PICK row : row = [cur |-> n, prev |-> 0, issued |-> now, revoked |-> FALSE,
                       reason |-> "none", updated |-> now]
  OBVIOUS
<1>4. row.cur = n /\ row.issued = now /\ row.revoked = FALSE
  BY <1>3
<1>5. /\ DOMAIN rows' = 1..m /\ rows'[m] = row /\ \A i \in 1..Len(rows) : rows'[i] = rows[i]
  <2>1. rows' = Append(rows, row)
    BY <1>2, <1>3 DEF CommitLogin, IssueSession
  <2>2. QED
    BY <1>1, <1>2, <2>1
<1>6. n \in 1..MaxTokens /\ n # 0
  BY <1>1, <1>2, SessionConstants DEF CommitLogin
<1>7. \A i \in DOMAIN Currents : Currents[i] # n
  <2>1. \A i \in DOMAIN rows : rows[i] # Gone => rows[i].cur \in DOMAIN parent
    BY DEF IInv, RowsOK
  <2>2. n \notin DOMAIN parent /\ n # 0
    BY <1>1, <1>2
  <2>3. \A i \in DOMAIN rows : rows[i].cur # n
    BY <2>1, <2>2, GoneIs
  <2>4. QED
    BY <1>1, <2>3, LivesMove
<1>8. Lives' = Append(Lives, "live")
  <2>1. ASSUME NEW i \in 1..Len(Lives)
        PROVE  Lives'[i] = Lives[i]
    <3>1. i \in DOMAIN rows /\ i \in DOMAIN rows' /\ rows'[i] = rows[i]
      BY <1>1, <1>2, <1>5
    <3>2. QED
      BY <1>1, <3>1, LivesMove
  <2>2. Lives'[Len(Lives) + 1] = "live"
    <3>1. m \in DOMAIN rows' /\ rows'[m] = row /\ m = Len(Lives) + 1
      BY <1>1, <1>2, <1>5
    <3>2. QED
      BY <1>1, <1>2, <1>4, <1>6, <3>1, LivesMove
  <2>3. Lives' = [i \in 1..Len(Lives) + 1 |-> Lives'[i]]
    BY <1>1, <1>2, <1>5, LivesMove
  <2>4. Lives \in Seq(States) /\ "live" \in States
    BY LivesAre DEF States
  <2>5. QED
    BY <2>1, <2>2, <2>3, <2>4, AppendIs
<1>9. Currents' = Append(Currents, n)
  <2>1. ASSUME NEW i \in 1..Len(Currents)
        PROVE  Currents'[i] = Currents[i]
    <3>1. i \in DOMAIN rows /\ i \in DOMAIN rows' /\ rows'[i] = rows[i]
      BY <1>1, <1>2, <1>5
    <3>2. QED
      BY <1>1, <3>1, LivesMove
  <2>2. Currents'[Len(Currents) + 1] = n
    <3>1. m \in DOMAIN rows' /\ rows'[m].cur = n /\ Len(Currents) + 1 = m
      BY <1>1, <1>2, <1>4, <1>5
    <3>2. QED
      BY <3>1, LivesMove
  <2>3. Currents' = [i \in 1..Len(Currents) + 1 |-> Currents'[i]]
    BY <1>1, <1>2, <1>5, LivesMove
  <2>4. Currents \in Seq(Nat)
    BY LivesAre
  <2>5. QED
    BY <2>1, <2>2, <2>3, <2>4, AppendIs
<1>10. QED
  BY <1>6, <1>7, <1>8, <1>9 DEF Lifecycle!Issue, Lifecycle!Fresh, Lives, Currents

LEMMA ExchangesAbstractly ==
    ASSUME IInv, IInv', NEW c \in Calls, CommitRotation(c)
    PROVE  \E i \in DOMAIN Lives : Lifecycle!Exchange(i)
<1>1. /\ rows \in Seq(Rows) /\ DOMAIN rows = 1..Len(rows) /\ Len(rows) \in Nat
      /\ parent \in Seq(Nat) /\ now \in Int /\ now' = now /\ ServerOK
      /\ DOMAIN Lives = DOMAIN rows /\ DOMAIN Currents = DOMAIN rows
      /\ Lives \in Seq(States) /\ Currents \in Seq(Nat)
  BY LivesAre, ServerIs DEF IInv, DbTypes, CommitRotation
<1>2. PICK n \in Nat, s \in Nat : n = Len(parent) + 1 /\ s = calls[c].sid
  BY <1>1, SessionsArePositive
<1>3. s \in DOMAIN rows /\ ~rows[s].revoked /\ rows[s] # Gone /\ ~(rows[s].issued < now)
  BY <1>1, <1>2, WrittenFacts DEF CommitRotation, Expired
<1>4. /\ DOMAIN rows' = DOMAIN rows
      /\ rows'[s].cur = n /\ rows'[s].issued = now /\ rows'[s].revoked = FALSE
      /\ \A k \in DOMAIN rows : k = s \/ rows'[k] = rows[k]
  <2>1. rows' = Rotate(rows, s, n, now)
    BY <1>2 DEF CommitRotation
  <2>2. /\ DOMAIN rows' = DOMAIN rows
        /\ rows'[s] = [cur |-> n, prev |-> rows[s].cur, issued |-> now, revoked |-> FALSE,
                       reason |-> rows[s].reason, updated |-> now]
        /\ \A k \in DOMAIN rows : k = s \/ rows'[k] = rows[k]
    BY <1>1, <1>3, <2>1, RotateTo
  <2>3. QED
    BY <2>2
<1>5. n \in 1..MaxTokens /\ n # 0
  BY <1>1, <1>2, SessionConstants DEF CommitRotation
<1>6. \A i \in DOMAIN Currents : Currents[i] # n
  <2>1. \A i \in DOMAIN rows : rows[i] # Gone => rows[i].cur \in DOMAIN parent
    BY DEF IInv, RowsOK
  <2>2. n \notin DOMAIN parent /\ n # 0
    BY <1>1, <1>2
  <2>3. \A i \in DOMAIN rows : rows[i].cur # n
    BY <2>1, <2>2, GoneIs
  <2>4. QED
    BY <1>1, <2>3, LivesMove
<1>7. Lives[s] = "live" /\ Lives'[s] = "live"
  BY <1>1, <1>3, <1>4, <1>5, GoneIs, LivesMove
<1>8. Lives' = Lives
  <2>1. ASSUME NEW i \in DOMAIN rows, i # s
        PROVE  Lives'[i] = Lives[i]
    <3>1. i \in DOMAIN rows' /\ rows'[i] = rows[i]
      BY <1>4, <2>1
    <3>2. QED
      BY <1>1, <2>1, <3>1, LivesMove
  <2>2. Lives' = [i \in DOMAIN rows |-> Lives'[i]] /\ Lives = [i \in DOMAIN rows |-> Lives[i]]
    BY <1>4, LivesMove DEF Lives
  <2>3. \A i \in DOMAIN rows : Lives'[i] = Lives[i]
    BY <1>7, <2>1
  <2>4. QED
    BY <2>2, <2>3, MapIs
<1>9. Currents' = [Currents EXCEPT ![s] = n]
  <2>1. Currents'[s] = n /\ \A i \in DOMAIN rows \ {s} : Currents'[i] = Currents[i]
    BY <1>3, <1>4, LivesMove
  <2>2. /\ Currents' = [i \in DOMAIN rows |-> Currents'[i]]
        /\ Currents = [i \in DOMAIN rows |-> Currents[i]]
    BY <1>4, LivesMove DEF Currents
  <2>3. QED
    BY <1>3, <2>1, <2>2, MovesTo
<1>10. Lifecycle!Exchange(s)
  BY <1>5, <1>6, <1>7, <1>8, <1>9 DEF Lifecycle!Exchange, Lifecycle!Fresh, Lives, Currents
<1>11. QED
  BY <1>1, <1>3, <1>10

LEMMA RevocationsEnd ==
    ASSUME IInv, IInv', NEW i \in DOMAIN rows, rows[i] # Gone,
           NEW reason \in {"expired", "replay", "user"},
           rows' = RevokeSession(rows, i, reason, now), now' = now
    PROVE  \E S \in SUBSET DOMAIN Lives : Lifecycle!End(S)
<1>1. /\ DOMAIN rows' = DOMAIN rows /\ rows'[i].revoked /\ rows'[i].cur = rows[i].cur
      /\ \A k \in DOMAIN rows : k = i \/ rows'[k] = rows[k]
  <2>1. /\ DOMAIN rows' = DOMAIN rows
        /\ rows'[i] = [cur |-> rows[i].cur, prev |-> rows[i].prev, issued |-> rows[i].issued,
                       revoked |-> TRUE,
                       reason |-> IF rows[i].reason = "none" THEN reason ELSE rows[i].reason,
                       updated |-> now]
        /\ \A k \in DOMAIN rows : k = i \/ rows'[k] = rows[k]
    BY LivesAre, RevokeTo
  <2>2. QED
    BY <2>1
<1>2. rows[i].cur # 0
  BY GoneIs
<1>3. ASSUME NEW k \in DOMAIN rows
      PROVE  /\ rows'[k].cur = rows[k].cur
             /\ Lives'[k] = Lives[k] \/ (Lives[k] = "live" /\ Lives'[k] = "ended")
  <2>1. CASE k = i
    <3>1. Lives'[i] = "ended" /\ Lives[i] \in {"live", "ended"}
      BY <1>1, <1>2, LivesMove
    <3>2. QED
      BY <1>1, <2>1, <3>1
  <2>2. CASE k # i
    <3>1. rows'[k] = rows[k] /\ k \in DOMAIN rows'
      BY <1>1, <2>2
    <3>2. Lives'[k] = Lives[k]
      BY <3>1, LivesMove
    <3>3. QED
      BY <3>1, <3>2
  <2>3. QED
    BY <2>1, <2>2
<1>4. QED
  BY <1>1, <1>3, EndsAbstractly

\* A deleted session had been revoked or had expired.
LEMMA CleanupForgets ==
    ASSUME IInv, IInv', rows' = Cleaned(rows, now), now' = now
    PROVE  \E S \in SUBSET DOMAIN Lives : Lifecycle!Forget(S)
<1>1. /\ DOMAIN Lives = DOMAIN rows /\ DOMAIN Currents = DOMAIN rows /\ DOMAIN rows' = DOMAIN rows
      /\ rows \in Seq(Rows) /\ now \in Int
      /\ \A i \in DOMAIN rows : rows[i].issued \in Int
  BY LivesAre, CleanedTo
<1>2. PICK S \in SUBSET DOMAIN Lives : S = {i \in DOMAIN rows : rows'[i] # rows[i]}
  BY <1>1
<1>3. ASSUME NEW i \in S
      PROVE  /\ rows'[i].cur = 0 /\ rows[i].cur # 0
             /\ rows[i].revoked \/ rows[i].issued < now
  <2>1. rows'[i] = Gone /\ rows[i] # Gone
    BY <1>1, <1>2, CleanedTo
  <2>2. rows[i].revoked \/ rows[i].issued < now - 1
    BY <1>3, <1>2 DEF Cleaned
  <2>3. rows'[i].cur = 0 /\ rows[i].cur # 0
    BY <1>2, <2>1, GoneIs DEF Gone
  <2>4. rows[i].issued \in Int
    BY <1>1, <1>2
  <2>5. rows[i].revoked \/ rows[i].issued < now
    BY <1>1, <2>2, <2>4
  <2>6. QED
    BY <2>3, <2>5
<1>4. \A i \in S : Lives[i] = "ended" /\ Lives'[i] = "gone" /\ Currents'[i] = 0
  BY <1>1, <1>3, LivesMove
<1>5. \A i \in DOMAIN rows \ S : Lives'[i] = Lives[i] /\ Currents'[i] = Currents[i]
  BY <1>1, <1>2, LivesMove
<1>6. Lives' = [i \in DOMAIN Lives |-> IF i \in S THEN "gone" ELSE Lives[i]]
  <2>1. Lives' = [i \in DOMAIN rows |-> Lives'[i]]
    BY <1>1, LivesMove
  <2>2. QED
    BY <1>1, <1>4, <1>5, <2>1
<1>7. Currents' = [i \in DOMAIN Currents |-> IF i \in S THEN 0 ELSE Currents[i]]
  <2>1. Currents' = [i \in DOMAIN rows |-> Currents'[i]]
    BY <1>1, LivesMove
  <2>2. QED
    BY <1>1, <1>4, <1>5, <2>1
<1>8. Lifecycle!Forget(S)
  BY <1>4, <1>6, <1>7 DEF Lifecycle!Forget, Lifecycle!Move, Lives, Currents
<1>9. QED
  BY <1>8

LEMMA StepsAbstractly ==
    IInv /\ IInv' /\ [Next]_vars => [Lifecycle!Next]_<<Lives, Currents>>
<1> SUFFICES ASSUME IInv, IInv', [Next]_vars PROVE [Lifecycle!Next]_<<Lives, Currents>>
  OBVIOUS
<1>1. ServerOK
  BY ServerIs
<1>2. CASE UNCHANGED <<rows, now>>
  BY <1>2 DEF Lives, Currents, LifeOf, Live, Expired
<1>3. ASSUME \E S \in SUBSET DOMAIN Lives : Lifecycle!End(S) \/ Lifecycle!Forget(S)
      PROVE  Lifecycle!Next
  BY <1>3 DEF Lifecycle!Next, Lives
<1>4. ASSUME NEW c \in Calls, ServerStep(c)
      PROVE  [Lifecycle!Next]_<<Lives, Currents>>
  <2>1. CASE NotServed(c) \/ Lookup(c) \/ Write(c) \/ WriteLogin(c) \/ Validate(c)
             \/ WriteRevocation(c) \/ Fail(c)
    BY <1>2, <2>1 DEF NotServed, Lookup, Write, WriteLogin, Validate, WriteRevocation, Fail,
                      server, db
  <2>2. CASE CommitLogin(c)
    BY <2>2, IssuesAbstractly DEF Lifecycle!Next
  <2>3. CASE CommitRotation(c)
    BY <2>3, ExchangesAbstractly DEF Lifecycle!Next, Lives
  <2>4. CASE CommitEnd(c)
    <3>1. PICK i \in DOMAIN rows, reason \in {"expired", "replay"} :
             i = calls[c].sid /\ reason = calls[c].doing /\ rows[i] # Gone
      BY <1>1, <2>4, WrittenFacts DEF CommitEnd
    <3>2. rows' = RevokeSession(rows, i, reason, now) /\ now' = now
      BY <2>4, <3>1 DEF CommitEnd
    <3>3. QED
      BY <1>3, <3>1, <3>2, RevocationsEnd
  <2>5. CASE CommitRevocation(c)
    <3>1. PICK i \in DOMAIN rows : i = calls[c].target /\ rows[i] # Gone
      BY <1>1, <2>5, WrittenFacts DEF CommitRevocation
    <3>2. rows' = RevokeSession(rows, i, "user", now) /\ now' = now
      BY <2>5, <3>1 DEF CommitRevocation
    <3>3. QED
      BY <1>3, <3>1, <3>2, RevocationsEnd
  <2>6. CASE MaybeCleanup(c)
    BY <1>3, <2>6, CleanupForgets DEF MaybeCleanup
  <2>7. QED
    BY <1>4, <2>1, <2>2, <2>3, <2>4, <2>5, <2>6 DEF ServerStep
<1>5. ASSUME NEW c \in Calls, TabStep(c)
      PROVE  UNCHANGED <<rows, now>>
  BY <1>5 DEF TabStep, Lost, LoginArrives, RefreshArrives, RefusalArrives, RefreshFails,
              InvalidArrives, RequestArrives, server, db
<1>6. ASSUME NEW t \in Tabs, UserStep(t)
      PROVE  UNCHANGED <<rows, now>>
  BY <1>6 DEF UserStep, ClientExpires, ShareRefresh, ConnectsWithout, Reload, StartLogin, StartRefresh, StartLogout,
              StartRevoke, server, db
<1>7. CASE Tick
  <2>1. now' = now + 1 /\ rows' = rows
    BY <1>7 DEF Tick, server, db
  <2>2. ASSUME NEW i \in DOMAIN rows
        PROVE  /\ rows'[i].cur = rows[i].cur
               /\ Lives'[i] = Lives[i] \/ (Lives[i] = "live" /\ Lives'[i] = "ended")
    <3>1. rows'[i] = rows[i] /\ i \in DOMAIN rows' /\ rows[i].issued \in Int /\ now \in Int
      BY <2>1, LivesAre
    <3>2. Lives[i] = "ended" \/ Lives[i] = "gone" => Lives'[i] = Lives[i]
      BY <2>1, <3>1, LivesMove
    <3>3. Lives'[i] \in {"live", "ended"} <=> Lives[i] \in {"live", "ended"}
      BY <3>1, LivesMove
    <3>4. Lives[i] \in {"live", "ended", "gone"}
      BY <3>1, LivesMove
    <3>5. Lives'[i] = Lives[i] \/ (Lives[i] = "live" /\ Lives'[i] = "ended")
      BY <3>2, <3>3, <3>4
    <3>6. QED
      BY <3>1, <3>5
  <2>3. QED
    BY <1>3, <2>1, <2>2, EndsAbstractly
<1>8. CASE UNCHANGED vars
  BY <1>2, <1>8 DEF vars
<1>9. QED
  BY <1>2, <1>4, <1>5, <1>6, <1>7, <1>8 DEF Next

\* The sessions the server keeps live as SessionLifecycle says, whatever tabs,
\* transactions, failures and the clean-up do: each step of the system issues a
\* session, exchanges the token of a live one, ends live ones for good, forgets
\* ended ones, or changes nothing a caller could tell.
THEOREM SessionsLiveOnce == Spec => ImplementsLifecycle
<1>1. Init => Lifecycle!Init
  BY DEF Init, Lifecycle!Init
<1>2. IInv /\ IInv' /\ [Next]_vars =>
        [Lifecycle!Next]_<<[i \in DOMAIN rows |-> LifeOf(rows[i])], [i \in DOMAIN rows |-> rows[i].cur]>>
  BY StepsAbstractly DEF Lives, Currents
<1>3. QED
  BY Invariance, <1>1, <1>2, PTL DEF Spec, ImplementsLifecycle, Lifecycle!Spec
=============================================================================
