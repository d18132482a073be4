---------------------------- MODULE SessionStore ----------------------------
(***************************************************************************)
(* The auth_sessions table of the token adapter                            *)
(* (adapters/identity/jwttokens) as a value, and the statements the        *)
(* adapter runs on it as operators.  Position i holds the row with id i,   *)
(* which AUTOINCREMENT never reuses.  Refresh tokens are numbered in the   *)
(* order they are drawn, 0 is the empty hash.  Time is counted in steps of *)
(* a little more than 30 days, which is both the life time of a refresh    *)
(* token and the retention of the clean-up: what was issued before the     *)
(* last step has expired.                                                  *)
(* Labels, addresses and last_seen_at are left out: no decision reads them. *)
(***************************************************************************)
EXTENDS Integers, Sequences

\* A deleted row.
Gone == [cur |-> 0, prev |-> 0, issued |-> 0, revoked |-> TRUE,
         reason |-> "none", updated |-> 0]

\* INSERT INTO auth_sessions.
IssueSession(rows, tok, now) ==
    Append(rows, [cur |-> tok, prev |-> 0, issued |-> now,
                  revoked |-> FALSE, reason |-> "none", updated |-> now])

\* The row a presented token selects: as its current or as its previous token.
\* Tokens are 32 random bytes, so at most one row matches; 0 when none does.
SessionWith(rows, tok) ==
    LET found == {i \in DOMAIN rows : tok \in {rows[i].cur, rows[i].prev}}
    IN  IF found = {} THEN 0 ELSE CHOOSE i \in found : TRUE

\* refresh_token_expires_at is before now.
Expired(row, now) == row.issued < now

Live(row, now) == ~row.revoked /\ ~Expired(row, now)

\* Mutant: nobody looks at the expiry.
VerdictTimeless(rows, tok, now) ==
    LET i == SessionWith(rows, tok)
    IN  IF i = 0 THEN "refuse"
        ELSE IF rows[i].revoked THEN "refuse"
        ELSE IF rows[i].prev = tok THEN "replay" ELSE "rotate"

\* What RefreshSession makes of a presented token, in the order of its checks.
Verdict(rows, tok, now) ==
    LET i == SessionWith(rows, tok)
    IN  IF i = 0 THEN "refuse"
        ELSE IF rows[i].revoked THEN "refuse"
        ELSE IF Expired(rows[i], now) THEN "expired"
        ELSE IF rows[i].prev = tok THEN "replay"
        ELSE "rotate"

\* Mutant: the previous hash is overwritten with the new one as well.
RotateBoth(rows, i, tok, now) ==
    [rows EXCEPT ![i].prev = tok, ![i].cur = tok, ![i].issued = now,
                 ![i].updated = now]

\* UPDATE ... SET previous = current, current = new WHERE revoked_at IS NULL.
Rotate(rows, i, tok, now) ==
    IF rows[i].revoked THEN rows
    ELSE [rows EXCEPT ![i].prev = rows[i].cur, ![i].cur = tok, ![i].issued = now,
                      ![i].updated = now]

\* revokeSessionTx: the first revocation's time and reason are kept.
RevokeSession(rows, i, reason, now) ==
    [rows EXCEPT ![i].revoked = TRUE, ![i].updated = now,
                 ![i].reason = IF @ = "none" THEN reason ELSE @]

\* maybeCleanup's DELETE.
Cleaned(rows, now) ==
    [i \in DOMAIN rows |->
        IF \/ rows[i].revoked /\ rows[i].updated < now
           \/ rows[i].issued < now - 1
        THEN Gone ELSE rows[i]]
=============================================================================
