------------------------------ MODULE Backends ------------------------------
(***************************************************************************)
(* What a call of a database handler does to its session and to the rows   *)
(* behind it: SQLiteDatabase and PostgreSQLDatabase (psycopg, or pg8000,   *)
(* whose statements stand alone unless BEGIN was sent).  Each operator is  *)
(* the set of the outcomes of one call: the backend after it, whether it   *)
(* returned (ok) or raised, and how many faults it took.                   *)
(***************************************************************************)
EXTENDS Naturals, FiniteSets

CONSTANT Write(_, _, _)    \* Write(driver, rows, statement): the rows after it

\* One database and the one connection to it.
\*   store: rows a new connection would see;  seen: rows this one sees
\*   active: _transaction_active;  dirty: a transaction begun implicitly
\*   failed: PostgreSQL refuses statements until ROLLBACK
\*   broken: the server is gone, the connection object is still there
\*   lost: auxiliary, a write was durable although the call raised
Backend(driver, rows) ==
    [driver |-> driver, store |-> rows, seen |-> rows, open |-> FALSE,
     active |-> FALSE, dirty |-> FALSE, failed |-> FALSE, broken |-> FALSE,
     lost |-> FALSE]

Drivers == {"sqlite", "psycopg", "pg8000"}
IsServer(b) == b.driver # "sqlite"

Ok(b, n) == [db |-> b, ok |-> TRUE, faults |-> n]
Err(b, n) == [db |-> b, ok |-> FALSE, faults |-> n]

\* Continue the outcomes that returned with F; the others raise at once.
Then(S, F(_)) ==
    UNION {IF o.ok THEN {[p EXCEPT !.faults = @ + o.faults] : p \in F(o.db)}
                   ELSE {o} : o \in S}

\* Continue with F the outcomes that raised and raise all the same.
Handling(S, F(_)) ==
    UNION {IF o.ok THEN {o}
           ELSE {Err(p.db, o.faults + p.faults) : p \in F(o.db)} : o \in S}

\* The rows of the last commit, nothing open.
Fresh(b) ==
    [b EXCEPT !.seen = b.store, !.active = FALSE, !.dirty = FALSE, !.failed = FALSE]

\* The connection is lost: the server forgets its uncommitted work.
Gone(b) == [b EXCEPT !.broken = TRUE, !.seen = b.store]

Closed(b) == [Fresh(b) EXCEPT !.open = FALSE, !.broken = FALSE]

connect(b) ==
    {Ok([Fresh(b) EXCEPT !.open = TRUE, !.broken = FALSE], 0), Err(b, 1)}

\* close() of the driver may raise before the handler drops its connection.
disconnect(b) ==
    {Ok(Closed(b), 0)} \cup (IF b.open THEN {Err(b, 1)} ELSE {})

has_pending_transaction(b) ==
    \/ b.active
    \/ /\ b.open
       /\ CASE b.driver = "sqlite"  -> b.dirty
            [] b.driver = "psycopg" -> b.dirty \/ b.failed \/ b.broken
            [] OTHER                -> FALSE

\* SQLite only marks the transaction, even without a connection.
begin_transaction(b) ==
    IF b.driver = "sqlite" THEN {Ok([b EXCEPT !.active = TRUE], 0)}
    ELSE IF ~b.open THEN {Err(b, 0)}
    ELSE IF b.active THEN {Ok(b, 0)}
    ELSE IF b.driver = "psycopg" THEN {Ok([b EXCEPT !.active = TRUE], 0)}
    ELSE IF b.broken THEN {Err(b, 0)}
    ELSE {Ok([b EXCEPT !.active = TRUE], 0), Err(Gone(b), 1)}

sqlite_rollback(b) ==
    IF ~b.open THEN {Err(b, 0)} ELSE {Ok(Fresh(b), 0), Err(b, 1)}

\* ROLLBACK fails on a dead pg8000 session, which is then rebuilt.
_reconnect(b) ==
    {Ok([Fresh(b) EXCEPT !.broken = FALSE], 0), Err(Closed(b), 1)}

postgresql_rollback(b) ==
    IF ~b.open THEN {Err(b, 0)}
    ELSE IF b.driver = "psycopg"
      THEN IF b.broken THEN {Err(b, 0)} ELSE {Ok(Fresh(b), 0), Err(Gone(b), 1)}
    ELSE IF ~b.active THEN {Ok(b, 0)}
    ELSE IF b.broken THEN _reconnect(b)
    ELSE {Ok(Fresh(b), 0)}

rollback(b) == IF IsServer(b) THEN postgresql_rollback(b) ELSE sqlite_rollback(b)

\* A statement took effect; pg8000 commits it at once outside BEGIN.
Done(b, s) ==
    LET rows == Write(b.driver, b.seen, s)
    IN IF b.driver = "pg8000" /\ ~b.active
         THEN [b EXCEPT !.seen = rows, !.store = rows]
         ELSE [b EXCEPT !.seen = rows, !.dirty = TRUE]

\* A failing statement rolls SQLite's whole transaction back.
sqlite_execute(b, s) ==
    IF ~b.open THEN {Err(b, 0)}
    ELSE {Ok(Done(b, s), 0)} \cup Handling({Err(b, 1)}, sqlite_rollback)

\* PostgreSQL's handler rolls back only outside a begun transaction; the
\* statement is refused, or the connection is lost under it.
postgresql_execute(b, s) ==
    LET Undo(x) == IF x.active THEN {Ok(x, 0)} ELSE postgresql_rollback(x)
        Refused == [b EXCEPT !.failed = b.active \/ b.driver = "psycopg"]
        Unheard == [Done(b, s) EXCEPT !.lost = @ \/ Done(b, s).store # b.store]
    IN IF ~b.open THEN {Err(b, 0)}
       ELSE IF b.broken \/ b.failed THEN Handling({Err(b, 0)}, Undo)
       ELSE {Ok(Done(b, s), 0)}
              \cup Handling({Err(Refused, 1), Err(Gone(b), 1), Err(Gone(Unheard), 1)}, Undo)

execute(b, s) ==
    IF IsServer(b) THEN postgresql_execute(b, s) ELSE sqlite_execute(b, s)

\* What COMMIT makes durable; psycopg's COMMIT of a failed transaction
\* silently rolls it back.
Committed(b) ==
    Fresh(IF b.failed THEN b ELSE [b EXCEPT !.store = b.seen])

\* A commit that raises leaves the transaction marked as it was.  A server may
\* have made it durable before the connection was lost.
Unanswered(b) ==
    {Err(Gone(b), 1),
     Err(Gone([b EXCEPT !.store = b.seen, !.lost = @ \/ b.store # b.seen]), 1)}

commit(b) ==
    IF ~b.open \/ b.broken THEN {Err(b, 0)}
    ELSE CASE b.driver = "sqlite"  -> {Ok(Committed(b), 0), Err(b, 1)}
           [] b.driver = "psycopg" -> {Ok(Committed(b), 0)} \cup Unanswered(b)
           [] OTHER -> IF ~b.active THEN {Ok(b, 0)}
                       ELSE IF b.failed THEN {Err(b, 0)}
                       ELSE {Ok(Committed(b), 0)} \cup Unanswered(b)

\* Rows of one call: pg8000 sends them in chunks, in a transaction of its own
\* when there are several and none is pending.
insert_many(b, s) ==
    IF b.driver # "pg8000" \/ has_pending_transaction(b) THEN execute(b, s)
    ELSE execute(b, s) \cup
         Handling(Then(Then(begin_transaction(b), LAMBDA x : execute(x, s)), commit),
                  LAMBDA x : IF has_pending_transaction(x) THEN rollback(x) ELSE {Ok(x, 0)})

=============================================================================
