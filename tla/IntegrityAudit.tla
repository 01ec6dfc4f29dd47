--------------------------- MODULE IntegrityAudit ---------------------------
(***************************************************************************)
(* The read-only audit of a profile (integrity.py, audit_integrity): it    *)
(* copies the database file and its write-ahead log under a shared lease,  *)
(* verifies and scans the private copy within a budget of rows, bytes and  *)
(* time, and gives a verdict.  Turns of running providers hold shared      *)
(* leases as well; maintenance (sleep, migration, repair) an exclusive     *)
(* one.                                                                    *)
(*                                                                         *)
(* The database is two pages: one transaction writes a node and its edges. *)
(* What the scans can find wrong with a profile is a set of defects, one   *)
(* for each scan that reports it.                                          *)
(***************************************************************************)
EXTENDS Naturals, Sequences, FiniteSets, FiniteSetsExt

CONSTANTS
  Turns,      \* workers that commit under a shared lease
  Maintainers,\* processes that commit under the exclusive lease
  MaxTx,      \* bound on transactions
  RowCap,     \* _MAX_AUDIT_ROWS
  AuditProfiles, \* profiles an audit may find: rows, byte cap exceeded, defects
  AuditFaults \* "open"; "sql": a statement or the vec extension fails

Page == {"nodes", "edges"}

\* verify_readonly_profile, then _inspect_profile, each in the order it reads.
Verification == <<"version", "file", "schema", "columns", "identity", "model", "vec">>
Inspection == <<"provenance", "schema", "version", "columns", "identity", "file", "vectors",
                "orphans", "permanence", "vec", "graph">>

\* The reasons of the two passes. "model" stands for everything that is compared with
\* the provider identity, "vectors" for values no model could have computed.
Defects == {"version", "file", "schema", "columns", "identity", "model", "vectors", "orphans",
            "permanence", "vec", "graph"}

Profile == [rows : Nat, large : BOOLEAN, defects : SUBSET Defects]

ASSUME AuditAssumption ==
  /\ MaxTx \in Nat /\ RowCap \in Nat
  /\ AuditProfiles \subseteq Profile
  /\ Turns \cap Maintainers = {} /\ "audit" \notin Turns \cup Maintainers

VARIABLES
  main,      \* the pages of the database file, each by the transaction that wrote it
  wal,       \* the transactions in the log since it was last restarted
  folded,    \* is all of the log in the database file?
  leases,    \* who holds the shared and who the exclusive lease
  profile,   \* the profile that is audited
  stage,     \* where the audit is
  snap,      \* the private copy: pages of the file, log
  scans,     \* the scans that are left
  budget,    \* rows read, deadline passed, incomplete_reasons
  reasons,   \* what the scans found
  known,     \* has the inspection the provider identity to compare with?
  status,    \* the verdict
  committed, \* history: contents that were current during the copy
  cut,       \* history: did the budget stop or skip a scan?
  faulted    \* history: did a statement or the extension fail?

auditVars == <<main, wal, folded, leases, profile, stage, snap, scans, budget, reasons, status,
               committed, cut, known, faulted>>

store == <<main, wal, folded>>
reads == <<known, faulted>>
audit == <<stage, snap, scans, budget, reasons, status, cut, known, faulted>>

-----------------------------------------------------------------------------
(* The files, as SQLite keeps them (external).                               *)

\* The last transaction of the log that wrote a page has its contents.
Contents(file, log) ==
  [p \in Page |->
     LET writers == {k \in 1..Len(log) : p \in log[k].pages}
     IN IF writers = {} THEN file[p] ELSE log[Max(writers)].tx]

Transactions == Max({main[p] : p \in Page} \cup {wal[k].tx : k \in 1..Len(wal)})

NoCopy == [file |-> [p \in {} |-> 0], log |-> <<>>]

AuditInit ==
  /\ main = [p \in Page |-> 0] /\ wal = <<>> /\ folded = TRUE
  /\ leases = [shared |-> {}, exclusive |-> {}]
  /\ profile \in AuditProfiles
  /\ stage = "idle" /\ snap = NoCopy
  /\ scans = <<>>
  /\ budget = [rows |-> 0, late |-> FALSE, incomplete |-> {}]
  /\ reasons = {} /\ status = "none"
  /\ committed = {} /\ cut = FALSE
  /\ known = TRUE /\ faulted = FALSE

Acquire(w) ==
  /\ leases.exclusive = {}
  /\ w \in Maintainers => leases.shared = {}
  /\ leases' = IF w \in Maintainers THEN [leases EXCEPT !.exclusive = {w}]
               ELSE [leases EXCEPT !.shared = @ \cup {w}]
  /\ UNCHANGED <<store, profile, audit, committed>>

Holds(w) == w \in leases.shared \cup leases.exclusive

Release(w) ==
  /\ Holds(w)
  /\ leases' = [shared |-> leases.shared \ {w}, exclusive |-> leases.exclusive \ {w}]
  /\ UNCHANGED <<store, profile, audit, committed>>

\* A log that is all in the file is restarted by the next writer.
CommitTx(w) ==
  /\ Holds(w) /\ Transactions < MaxTx
  /\ \E pages \in (SUBSET Page) \ {{}} :
       wal' = Append(IF folded THEN <<>> ELSE wal, [tx |-> Transactions + 1, pages |-> pages])
  /\ folded' = FALSE
  /\ committed' = IF stage = "copy" THEN committed \cup {Contents(main, wal')} ELSE committed
  /\ UNCHANGED <<main, leases, profile, audit>>

Checkpoint(w) ==
  /\ Holds(w) /\ ~folded
  /\ main' = Contents(main, wal) /\ folded' = TRUE
  /\ UNCHANGED <<wal, leases, profile, audit, committed>>

-----------------------------------------------------------------------------
(* The copy.                                                                 *)

\* The private copy is deleted, the lease returned.
Leave(verdict) ==
  /\ status' = verdict
  /\ snap' = NoCopy /\ scans' = <<>>
  /\ stage' = "done"
  /\ leases' = [leases EXCEPT !.shared = @ \ {"audit"}]

AuditAdmits ==
  /\ stage = "idle" /\ leases.exclusive = {} /\ ~profile.large
  /\ leases' = [leases EXCEPT !.shared = @ \cup {"audit"}]
  /\ stage' = "copy"
  /\ committed' = {Contents(main, wal)}
  /\ UNCHANGED <<store, profile, snap, scans, budget, reasons, status, cut, reads>>

\* The files alone exceed the byte budget.
AuditTooLarge ==
  /\ stage = "idle" /\ leases.exclusive = {} /\ profile.large
  /\ budget' = [budget EXCEPT !.incomplete = @ \cup {"audit_byte_cap"}]
  /\ cut' = TRUE
  /\ Leave("audit_incomplete")
  /\ UNCHANGED <<store, profile, reasons, committed, reads>>

\* admit_operation gives up on the lease.
AuditRefused ==
  /\ stage = "idle" /\ leases.exclusive # {}
  /\ Leave("unavailable")
  /\ UNCHANGED <<store, profile, budget, reasons, committed, cut, reads>>

\* copy2 reads the database file page by page, then the log.
CopyPage(p) ==
  /\ stage = "copy" /\ p \notin DOMAIN snap.file
  /\ p = "nodes" \/ "nodes" \in DOMAIN snap.file
  /\ snap' = [snap EXCEPT !.file = [q \in DOMAIN @ \cup {p} |-> IF q = p THEN main[p] ELSE @[q]]]
  /\ UNCHANGED <<store, leases, profile, stage, scans, budget, reasons, status, committed, cut, reads>>

CopyLog ==
  /\ stage = "copy" /\ DOMAIN snap.file = Page
  /\ snap' = [snap EXCEPT !.log = wal]
  /\ stage' = "verify"
  /\ scans' = Verification
  /\ UNCHANGED <<store, leases, profile, budget, reasons, status, committed, cut, reads>>

\* The deadline passes; every step of the copy and of the scans looks.
DeadlinePasses ==
  /\ stage \notin {"idle", "done"} /\ ~budget.late
  /\ budget' = [budget EXCEPT !.late = TRUE]
  /\ UNCHANGED <<store, leases, profile, stage, snap, scans, reasons, status, committed, cut, reads>>

CopyCutOff ==
  /\ stage = "copy" /\ budget.late
  /\ budget' = [budget EXCEPT !.incomplete = @ \cup {"audit_deadline"}]
  /\ cut' = TRUE
  /\ Leave("audit_incomplete")
  /\ UNCHANGED <<store, profile, reasons, committed, reads>>

OpenFails ==
  /\ "open" \in AuditFaults /\ stage = "verify" /\ scans = Verification
  /\ Leave("unavailable")
  /\ UNCHANGED <<store, profile, budget, reasons, committed, cut, reads>>

-----------------------------------------------------------------------------
(* The scans.                                                                *)

\* What is wrong with the copy: what was wrong with the profile, and the edges that
\* have lost their nodes when the copy is no state of the profile.
CopyTorn == Contents(snap.file, snap.log) \notin committed
SnapshotDefects == profile.defects \cup (IF CopyTorn THEN {"graph"} ELSE {})

\* Rows that a scan draws from the budget: _bounded_count draws the matching ones.
Cost(s) ==
  CASE s \in {"model", "vectors", "permanence", "vec"} -> profile.rows
    [] s \in {"orphans", "graph"} -> IF s \in SnapshotDefects THEN 1 ELSE 0
    [] s \in {"version", "file"} -> 0
    [] OTHER -> 1

\* _AuditBudget.ready
BudgetReady == ~budget.late /\ budget.incomplete = {}

\* Reading within the budget: check() and consume() note why they stop.
Spent(s) ==
  [budget EXCEPT
     !.rows = IF BudgetReady THEN Min({RowCap, @ + Cost(s)}) ELSE @,
     !.incomplete = @ \cup (IF budget.late THEN {"audit_deadline"} ELSE {})
                      \cup (IF BudgetReady /\ budget.rows + Cost(s) > RowCap THEN {"audit_row_cap"} ELSE {})]

Completes(s) == Spent(s).incomplete = {}

\* Row scans are made only over a complete schema, of whatever version.
Applicable(s) ==
  {"schema", "columns"} \cap reasons = {}
    \/ s \in {"provenance", "schema", "version", "columns", "identity"}

\* What verify_readonly_profile may make of a scan. One that was cut off may look wrong;
\* entries of the vec index are compared only where SQLite lists its columns.
Looks(s) ==
  IF ~Completes(s) \/ (s = "vec" /\ s \in SnapshotDefects) THEN BOOLEAN
  ELSE {s \in SnapshotDefects}

\* It stops at the first thing that is wrong.
VerifyEnds(s, wrong) ==
  /\ budget' = Spent(s)
  /\ cut' = (cut \/ ~Completes(s))
  /\ IF wrong /\ budget'.incomplete # {}
       THEN Leave("audit_incomplete") /\ UNCHANGED reasons
       ELSE /\ reasons' = IF wrong THEN {"profile_verification_failed"} ELSE reasons
            /\ scans' = IF wrong THEN <<>> ELSE Tail(scans)
            /\ UNCHANGED <<stage, status, leases, snap>>

VerifyScan ==
  /\ stage = "verify" /\ scans # <<>>
  /\ \E wrong \in Looks(Head(scans)) : VerifyEnds(Head(scans), wrong)
  /\ UNCHANGED <<store, profile, committed, reads>>

\* A statement that fails, or an extension that cannot be loaded, is a failed verification.
VerifyRaises ==
  /\ "sql" \in AuditFaults
  /\ stage = "verify" /\ scans # <<>>
  /\ VerifyEnds(Head(scans), TRUE)
  /\ faulted' = TRUE
  /\ UNCHANGED <<store, profile, committed, known>>

VerifyDone ==
  /\ stage = "verify" /\ scans = <<>>
  /\ stage' = "inspect"
  /\ scans' = Inspection
  /\ UNCHANGED <<store, leases, profile, snap, budget, reasons, status, committed, cut, reads>>

\* Variant: a later scan's reasons replace an earlier one's.
NotedLast(seen) == seen

\* _add_reason
Noted(seen) == reasons \cup seen

\* Defects a scan looks for: rows are compared with the identity where it is known.
Scope(s) == IF s = "vectors" /\ known THEN {"vectors", "model"} ELSE {s}

\* What it may report of them. One that was cut off, or never made, reports what it has
\* read so far; of the identity only missing keys are reported, not values that make none.
Reported(s) ==
  IF ~Completes(s) \/ s = "identity" THEN SUBSET (SnapshotDefects \cap Scope(s))
  ELSE {SnapshotDefects \cap Scope(s)}

\* Absent tables and columns are what a cut-off scan did not get to see.
Unseen(s) == IF ~Completes(s) /\ s \in {"schema", "version", "columns", "identity"} THEN {{}, {s}} ELSE {{}}

InspectScan ==
  /\ stage = "inspect" /\ scans # <<>>
  /\ LET s == Head(scans) IN
       IF ~Applicable(s) THEN UNCHANGED <<budget, reasons, cut>>
       ELSE /\ budget' = Spent(s)
            /\ cut' = (cut \/ ~Completes(s))
            /\ \E seen \in Reported(s), unseen \in Unseen(s) : reasons' = Noted(seen \cup unseen)
  /\ scans' = Tail(scans)
  /\ UNCHANGED <<store, leases, profile, stage, snap, status, committed, reads>>

\* Scans outside the guarded blocks.
Unguarded == {"schema", "columns", "vectors", "orphans"}

\* What a guarded scan that fails says: its own reason, an "unverifiable" one, or
\* nothing when the provider identity cannot be read.
Excuse(s) ==
  CASE s = "provenance" -> {}
    [] s \in {"version", "identity", "file"} -> {s}
    [] OTHER -> {"unverifiable"}

\* The deadline passes while a statement runs: the progress handler notes it and interrupts.
Interrupted ==
  /\ BudgetReady
  /\ budget' = [budget EXCEPT !.late = TRUE, !.incomplete = @ \cup {"audit_deadline"}]
  /\ cut' = TRUE
  /\ UNCHANGED faulted

GuardedFails ==
  /\ stage = "inspect" /\ scans # <<>>
  /\ LET s == Head(scans) IN
       /\ s \notin Unguarded /\ Applicable(s)
       /\ \/ /\ "sql" \in AuditFaults
             /\ budget' = Spent(s)
             /\ cut' = (cut \/ ~Completes(s))
             /\ faulted' = TRUE
          \/ Interrupted
       /\ reasons' = Noted(Excuse(s))
       /\ known' = (known /\ s # "provenance")
  /\ scans' = Tail(scans)
  /\ UNCHANGED <<store, leases, profile, stage, snap, status, committed>>

\* Outside the guarded blocks the inspection ends there.
ScanFails ==
  /\ stage = "inspect" /\ scans # <<>>
  /\ Head(scans) \in Unguarded /\ Applicable(Head(scans))
  /\ \/ "sql" \in AuditFaults /\ faulted' = TRUE /\ UNCHANGED <<budget, cut>>
     \/ Interrupted
  /\ Leave("unavailable")
  /\ UNCHANGED <<store, profile, reasons, committed, known>>

\* Variant: reasons that only say why the audit stopped are no findings.
VerdictOfFindings == IF reasons = {} THEN "ok" ELSE "findings"

Verdict ==
  IF budget.incomplete # {} THEN "audit_incomplete" ELSE IF reasons = {} THEN "ok" ELSE "findings"

Report ==
  /\ stage = "inspect" /\ scans = <<>>
  /\ Leave(Verdict)
  /\ UNCHANGED <<store, profile, budget, reasons, committed, cut, reads>>

AuditNext ==
  \/ \E w \in Turns \cup Maintainers : Acquire(w) \/ Release(w) \/ CommitTx(w) \/ Checkpoint(w)
  \/ AuditAdmits \/ AuditTooLarge \/ AuditRefused
  \/ (\E p \in Page : CopyPage(p)) \/ CopyLog \/ DeadlinePasses \/ CopyCutOff \/ OpenFails
  \/ VerifyScan \/ VerifyRaises \/ VerifyDone
  \/ InspectScan \/ GuardedFails \/ ScanFails \/ Report

AuditSpec == AuditInit /\ [][AuditNext]_auditVars

-----------------------------------------------------------------------------
(* Properties.                                                               *)

\* Type invariant.
AuditTypeOK ==
  /\ main \in [Page -> 0..MaxTx] /\ folded \in BOOLEAN
  /\ Len(wal) <= MaxTx
  /\ leases.shared \subseteq Turns \cup {"audit"} /\ leases.exclusive \subseteq Maintainers
  /\ stage \in {"idle", "copy", "verify", "inspect", "done"}
  /\ budget.rows \in 0..RowCap /\ known \in BOOLEAN
  /\ status \in {"none", "ok", "findings", "audit_incomplete", "unavailable"}

\* README: a cutoff is not "presented as a complete audit": wherever the deadline or a
\* cap strikes, in whichever pass, there is no verdict.
CutoffReported == cut => status \notin {"ok", "findings"}

\* README: "a cutoff is reported as `audit_incomplete`".
\* Does not hold (README, Disagreements).
CutoffIsIncomplete == cut /\ stage = "done" => status = "audit_incomplete"

\* A verdict is right about the copy. Each pass alone misses something: the first the
\* values and the rows it does not look at, the second what it would compare with an
\* identity it could not read or that makes none, and the scans it leaves out over a
\* broken schema. Together they say ok only when nothing is wrong, and findings only
\* when something is or a statement failed.
VerdictSound ==
  [][/\ (stage = "inspect" /\ status' = "ok") => SnapshotDefects = {}
     /\ (stage = "inspect" /\ status' = "findings") => SnapshotDefects # {} \/ faulted]_auditVars

\* _source_snapshot: "Cooperative writers are excluded by the caller's shared
\* maintenance lease": the copy is a state the profile was in while it was copied.
\* Does not hold (README, Disagreements).
SnapshotConsistent == stage \in {"verify", "inspect"} => ~CopyTorn
=============================================================================
