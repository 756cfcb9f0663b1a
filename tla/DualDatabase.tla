---------------------------- MODULE DualDatabase ----------------------------
(***************************************************************************)
(* The database handle an importer holds: one backend, or DualDatabase     *)
(* (src/database/dual_handler.py) writing a primary and then a secondary,  *)
(* with the transaction identity, the invalidation and the context exit of *)
(* BaseDatabase (src/database/base.py).  As in Backends an operator is the *)
(* set of the outcomes of one call.                                        *)
(***************************************************************************)
EXTENDS Backends

\*   p, s: primary and secondary (s is unused unless dual)
\*   active: _transaction_active of the DualDatabase itself
\*   gen: _transaction_generation;  sync: secondary_in_sync
\*   invalid: _context_exit_invalidated
Handle(dual, pdriver, sdriver, rows) ==
    [dual |-> dual, p |-> Backend(pdriver, rows), s |-> Backend(sdriver, rows),
     active |-> FALSE, gen |-> 0, sync |-> TRUE, invalid |-> FALSE]

\* The call F of the primary, of the secondary.
OnPrimary(h, F(_)) == {[o EXCEPT !.db = [h EXCEPT !.p = o.db]] : o \in F(h.p)}
OnSecondary(h, F(_)) == {[o EXCEPT !.db = [h EXCEPT !.s = o.db]] : o \in F(h.s)}

\* A secondary error is counted: in_sync is never set again.
OutOfSync(h) == [h EXCEPT !.sync = FALSE]

is_connected(h) == h.p.open
is_transaction_active(h) == IF h.dual THEN h.active ELSE h.p.active

get_transaction_generation(h) == IF is_transaction_active(h) THEN h.gen ELSE 0

\* _mark_transaction_started
Started(h, g) ==
    IF is_transaction_active(h) THEN g
    ELSE [g EXCEPT !.gen = @ + 1, !.active = h.dual]

\* A failing secondary does not keep the primary from connecting.
Connect(h) ==
    LET Second(g) ==
            {IF o.ok THEN o ELSE Ok(OutOfSync(o.db), o.faults)
             : o \in OnSecondary(g, connect)}
    IN Then(OnPrimary([h EXCEPT !.active = FALSE, !.invalid = FALSE], connect),
            LAMBDA g : IF h.dual THEN Second(g) ELSE {Ok(g, 0)})

\* The secondary is disconnected whatever becomes of the primary; its own
\* failure is logged.
Disconnect(h) ==
    IF ~h.dual THEN OnPrimary(h, disconnect)
    ELSE UNION {
        {IF o.ok THEN Ok([q.db EXCEPT !.active = FALSE], o.faults + q.faults)
                 ELSE Err(q.db, o.faults + q.faults)
         : q \in OnSecondary(o.db, disconnect)} : o \in OnPrimary(h, disconnect)}

Pending(h) ==
    \/ h.active
    \/ has_pending_transaction(h.p)
    \/ h.dual /\ h.s.open /\ has_pending_transaction(h.s)

\* The secondary's begin is part of the caller's transaction: when it fails
\* the primary is rolled back and the call raises.
Begin(h) ==
    LET Undo(g) == {Ok(o.db, o.faults) : o \in OnPrimary(OutOfSync(g), rollback)}
        Both(g) == Handling(OnSecondary(g, begin_transaction), Undo)
        Begun(S) == {IF o.ok THEN [o EXCEPT !.db = Started(h, o.db)] ELSE o : o \in S}
    IN IF is_transaction_active(h) THEN {Ok(h, 0)}
       ELSE IF h.dual THEN Begun(Then(OnPrimary(h, begin_transaction), Both))
       ELSE Begun(OnPrimary(h, begin_transaction))

\* A mirrored write F: a secondary error is swallowed outside a caller-owned
\* transaction and raised inside it.
Mirrored(h, F(_)) ==
    LET Second(g) ==
            {IF o.ok THEN o
             ELSE [o EXCEPT !.db = OutOfSync(o.db), !.ok = ~g.active]
             : o \in OnSecondary(g, F)}
    IN Then(OnPrimary(h, F), LAMBDA g : IF h.dual THEN Second(g) ELSE {Ok(g, 0)})

Execute(h, s) == Mirrored(h, LAMBDA b : execute(b, s))
InsertMany(h, s) == Mirrored(h, LAMBDA b : insert_many(b, s))

\* Mutant: the secondary commits first.
MutantCommit(h) ==
    LET First(g) ==
            {Ok([o.db EXCEPT !.active = FALSE, !.sync = @ /\ o.ok], o.faults)
             : o \in OnSecondary(g, commit)}
    IN IF h.dual THEN Then(First(h), LAMBDA g : OnPrimary(g, commit))
       ELSE OnPrimary(h, commit)

\* The primary decides; a secondary that fails after it is only noted.
Commit(h) ==
    LET Second(g) ==
            {Ok([o.db EXCEPT !.active = FALSE, !.sync = @ /\ o.ok], o.faults)
             : o \in OnSecondary(g, commit)}
    IN Then(OnPrimary(h, commit), LAMBDA g : IF h.dual THEN Second(g) ELSE {Ok(g, 0)})

\* Both are tried; the call raises when either failed.
Rollback(h) ==
    IF ~h.dual THEN OnPrimary(h, rollback)
    ELSE UNION {
        {[db |-> [q.db EXCEPT !.active = FALSE, !.sync = @ /\ q.ok],
          ok |-> o.ok /\ q.ok, faults |-> o.faults + q.faults]
         : q \in OnSecondary(o.db, rollback)} : o \in OnPrimary(h, rollback)}

\* invalidate_connection: a session that could not be dropped is not marked.
Invalidate(h) ==
    {[o EXCEPT !.db.invalid = ~is_connected(o.db)] : o \in Disconnect(h)}

\* rollback_failed_import: a session that cannot roll back is dropped; only a
\* session that can be neither is an error of its own.
RollbackFailedImport(g) ==
    UNION {IF o.ok THEN {o}
           ELSE {[p EXCEPT !.faults = @ + o.faults] : p \in Invalidate(o.db)}
           : o \in Rollback(g)}

\* __exit__: an invalidated session is neither committed nor rolled back.
ContextExit(h, raised) ==
    IF h.invalid /\ ~is_connected(h) THEN {Ok([h EXCEPT !.invalid = FALSE], 0)}
    ELSE Then(IF raised THEN Rollback(h) ELSE Commit(h), Disconnect)

=============================================================================
