------------------------------ MODULE Checkout ------------------------------
(***************************************************************************)
(* One checkout of the repository, and the maintainer who works in it:     *)
(* baseline, which folds applied migrations into schema.sql and removes    *)
(* their files; dump; and apply with --with-drift-check or                 *)
(* --from-baseline.  Everybody else applies from checkouts of their own.   *)
(*                                                                         *)
(* The maintainer runs one command at a time.  What a dump contains is the *)
(* set of the <<file, checksum>> whose SQL the database has had (ran).     *)
(***************************************************************************)
EXTENDS Migraguard

CONSTANTS
  Maintainer,    \* the client that works in the checkout
  VersionOf,     \* the version of each file in the checkout
  KeepSince,     \* the --keep-since arguments of a baseline, {} for none given
  ApplyOptions,  \* the options of the maintainer's apply
  DumpsLedger    \* pg_dump is not told to leave out schema_migrations

ASSUME CheckoutAssumption ==
  /\ Maintainer \in Clients
  /\ VersionOf \in [Files -> Sums]
  /\ KeepSince \subseteq SUBSET Files
  /\ ApplyOptions \subseteq [drift : BOOLEAN, base : BOOLEAN]
  /\ DumpsLedger \in BOOLEAN
  /\ None \notin [objects : SUBSET (Files \X Sums), intact : BOOLEAN]

VARIABLES
  disk,      \* the files in the checkout
  dump,      \* schema.sql, None when there is none
  included,  \* metadata.json: the files, with checksums, that baselines include
  stage,     \* where the maintainer's command is, beside pc
  text,      \* the dump it is about to write
  todo,      \* the files it has still to record or to remove
  report,    \* its apply: the options, and whether it has applied and erred
  fresh      \* the database is a new one

memory       == <<stage, text, todo, report>>
checkoutVars == <<disk, dump, included, memory, fresh>>

m == Maintainer

Version(f) == <<f, VersionOf[f]>>

Tree == [f \in Files |-> IF f \in disk THEN VersionOf[f] ELSE None]

Stages == {"none", "base", "rows", "pass", "decide", "schema", "metadata",
           "remove", "redump", "write"}

NoReport == [drift |-> FALSE, base |-> FALSE, applied |-> FALSE, errors |-> FALSE]

CheckoutInit ==
  /\ Init
  /\ disk = Files
  /\ dump = None
  /\ included = {}
  /\ stage = "none"
  /\ text = None
  /\ todo = {}
  /\ report = NoReport
  /\ fresh = FALSE

\* Fault: a new process takes up where the lost one was.
ForgetNothing == UNCHANGED memory

\* What a process had in memory is gone with it.
Forget == stage' = "none" /\ text' = None /\ todo' = {} /\ report' = NoReport

-----------------------------------------------------------------------------
(* schema.sql *)

\* dumpSchema: the schema as it is, as text that can be executed.
DumpOf == [objects |-> ran, intact |-> TRUE]

\* Writing the dump, the last step of dump and of apply --with-drift-check.
TakeDump ==
  /\ stage = "redump"
  /\ text' = DumpOf
  /\ stage' = "write"
  /\ UNCHANGED <<vars, disk, dump, included, todo, report, fresh>>

WriteDump ==
  /\ stage = "write"
  /\ dump' = text
  /\ Forget
  /\ UNCHANGED <<vars, disk, included, fresh>>

\* The maintainer writes schema.sql from databases that have the baselines.
IsCurrent == included \subseteq ran

StartDump ==
  /\ stage = "none" /\ pc[m] = "idle"
  /\ runs < MaxRuns
  /\ IsCurrent
  /\ runs' = runs + 1
  /\ stage' = "redump"
  /\ UNCHANGED <<dbVars, holder, cli, clientVars, crashes, ran>>
  /\ UNCHANGED <<disk, dump, included, text, todo, report, fresh>>

-----------------------------------------------------------------------------
(* apply --with-drift-check and apply --from-baseline *)

\* The gate compares before the command has a connection, let alone the lock.
IsInSync == dump # None => dump = DumpOf

StartApply(option) ==
  /\ stage = "none"
  /\ option.drift => IsInSync
  /\ Start(m, [cmd |-> "apply", tree |-> Tree])
  /\ stage' = IF option.base THEN "base" ELSE "pass"
  /\ report' = [NoReport EXCEPT !.drift = option.drift, !.base = option.base]
  /\ UNCHANGED <<disk, dump, included, text, todo, fresh>>

\* The CLI stops at the first error: objects that exist are not created again.
IsExecutable ==
  /\ dump # None
  /\ dump.intact
  /\ ~DumpsLedger
  /\ dump.objects \cap ran = {}

\* What a failing schema.sql leaves behind.
Leftovers ==
  IF dump # None /\ dump.intact THEN SUBSET (dump.objects \ ran) ELSE {{}}

BaselineSucceeds ==
  /\ stage' = IF included = {} THEN "pass" ELSE "rows"
  /\ todo' = included
  /\ UNCHANGED report

\* Fault: the baselined files are recorded whatever became of schema.sql.
BaselineFailsUnnoticed == BaselineSucceeds

\* Fault: a failing schema.sql is not among the errors.
BaselineFailsUnreported == stage' = "pass" /\ UNCHANGED <<todo, report>>

\* The pass begins as after a success, with an error reported.
BaselineFails ==
  /\ stage' = "pass"
  /\ report' = [report EXCEPT !.errors = TRUE]
  /\ UNCHANGED todo

\* applyFromBaseline executes schema.sql.
ApplyBaseline ==
  /\ pc[m] = "load" /\ stage = "base"
  /\ \/ /\ IsExecutable
        /\ ran' = ran \cup dump.objects
        /\ BaselineSucceeds
     \/ /\ ~IsExecutable
        /\ \E done \in Leftovers : ran' = ran \cup done
        /\ BaselineFails
  /\ UNCHANGED <<dbVars, holder, cli, clientVars, runs, crashes>>
  /\ UNCHANGED <<disk, dump, included, text, fresh>>

\* A row per baselined file, with neither group nor phase.
RecordBaselined ==
  /\ pc[m] = "load" /\ stage = "rows"
  /\ \E p \in todo :
       /\ InsertRow(p[1], p[2], "applied", None, None)
       /\ todo' = todo \ {p}
  /\ report' = [report EXCEPT !.applied = TRUE]
  /\ stage' = IF todo' = {} THEN "pass" ELSE "rows"
  /\ UNCHANGED <<holder, cli, clientVars, runs, crashes, ran>>
  /\ UNCHANGED <<disk, dump, included, text, fresh>>

\* The pass over the files, with the errors and successes it reports.
Pass ==
  /\ stage = "pass"
  /\ \/ /\ LoadRecords(m) \/ PassOver(m) \/ Execute(m) \/ Finish(m)
        /\ UNCHANGED report
     \/ /\ Refuse(m)
        /\ report' = [report EXCEPT !.errors = TRUE]
     \/ /\ RecordResult(m)
        /\ report' = IF work[m].status = "failed"
                       THEN [report EXCEPT !.errors = TRUE]
                       ELSE [report EXCEPT !.applied = TRUE]
  /\ UNCHANGED <<disk, dump, included, stage, text, todo, fresh>>

\* The session closes; a gated apply that applied without error dumps after it.
CloseCommand ==
  /\ Close(m)
  /\ IF report.drift /\ report.applied /\ ~report.errors
       THEN stage' = "redump" /\ UNCHANGED <<text, todo, report>>
       ELSE Forget
  /\ UNCHANGED <<disk, dump, included, fresh>>

-----------------------------------------------------------------------------
(* baseline *)

StartBaseline(keep) ==
  /\ stage = "none"
  /\ IsCurrent
  /\ Start(m, [cmd |-> "baseline", keep |-> keep])
  /\ stage' = "decide"
  /\ UNCHANGED <<disk, dump, included, text, todo, report, fresh>>

\* Leaves, or the cut points with all that depends on them; and open groups.
KeepSet(keep) ==
  LET G == GraphOf(Tree)
  IN  (IF keep = {}
         THEN LeafNodes(G)
         ELSE UNION {{f} \cup TransitiveDependents(G, f) : f \in keep \cap disk})
        \cup {f \in disk : GroupOf[f] # None /\ IsGroupOpen(records, GroupOf[f])}

IsLatestApplied(f) == RowsOf(records, f) # {} /\ LatestRow(records, f).status = "applied"

HasFailedBackfill == \E g \in Groups : DeriveGroupState(records, g) = "backfill_failed"

Decide ==
  /\ pc[m] = "load" /\ stage = "decide"
  /\ LET keep   == KeepSet(job[m].keep)
         squash == disk \ keep
     IN  IF HasFailedBackfill \/ squash = {} \/ \E f \in squash : ~IsLatestApplied(f)
           THEN Goto(m, "close") /\ UNCHANGED <<stage, text, todo>>
           ELSE /\ stage' = "schema"
                /\ text' = DumpOf
                /\ todo' = squash
                /\ UNCHANGED pc
  /\ UNCHANGED <<dbVars, holder, cli, job, snap, left, blocked, work, runs, crashes, ran>>
  /\ UNCHANGED <<disk, dump, included, report, fresh>>

\* Fault: the metadata is saved without schema.sql having been written.
WriteSchemaUnawaited ==
  /\ pc[m] = "load" /\ stage = "schema"
  /\ stage' = "metadata"
  /\ UNCHANGED <<vars, disk, dump, included, text, todo, report, fresh>>

\* The history comment is a promise that nobody awaits: the text begins with
\* "[object Promise]", which is no SQL.
WriteSchema ==
  /\ pc[m] = "load" /\ stage = "schema"
  /\ dump' = [text EXCEPT !.intact = FALSE]
  /\ stage' = "metadata"
  /\ UNCHANGED <<vars, disk, included, text, todo, report, fresh>>

SaveMetadata ==
  /\ pc[m] = "load" /\ stage = "metadata"
  /\ included' = included \cup {Version(f) : f \in todo}
  /\ stage' = "remove"
  /\ UNCHANGED <<vars, disk, dump, text, todo, report, fresh>>

\* The file of a group goes with the directory of the whole group.  After the
\* last one depends-on comments are rewritten, which changes no checksum.
RemoveFile ==
  /\ pc[m] = "load" /\ stage = "remove"
  /\ \E f \in todo :
       /\ disk' = disk \ (IF GroupOf[f] = None
                            THEN {f}
                            ELSE {h \in Files : GroupOf[h] = GroupOf[f]})
       /\ todo' = todo \ {f}
       /\ IF todo = {f} THEN Goto(m, "close") ELSE UNCHANGED pc
  /\ UNCHANGED <<dbVars, holder, cli, job, snap, left, blocked, work, runs, crashes, ran>>
  /\ UNCHANGED <<dump, included, stage, text, report, fresh>>

-----------------------------------------------------------------------------
(* The composition *)

\* The process is lost after it has closed its session.
Die ==
  /\ pc[m] = "idle" /\ stage # "none"
  /\ crashes < MaxCrashes
  /\ crashes' = crashes + 1
  /\ UNCHANGED <<dbVars, holder, cli, clientVars, runs, ran>>

MaintainerStep ==
  \/ StartDump
  \/ TakeDump
  \/ WriteDump
  \/ \E option \in ApplyOptions : StartApply(option)
  \/ \E keep \in KeepSince : StartBaseline(keep)
  \/ Acquire(m) /\ UNCHANGED checkoutVars
  \/ ApplyBaseline
  \/ RecordBaselined
  \/ Pass
  \/ CloseCommand
  \/ Decide
  \/ WriteSchema
  \/ SaveMetadata
  \/ RemoveFile
  \/ /\ WaitTimeout(m) \/ Crash(m) \/ Die
     /\ Forget
     /\ UNCHANGED <<disk, dump, included, fresh>>

\* Everybody else, and the CLI processes of all.
OtherStep ==
  /\ \/ \E c \in Clients \ {m} :
          \/ \E j \in Jobs : Start(c, j)
          \/ Acquire(c)
          \/ WaitTimeout(c)
          \/ Step(c)
          \/ Crash(c)
     \/ \E o \in Owners : SqlEndsOf(o)
  /\ UNCHANGED checkoutVars

\* Work goes on with a new, empty database.
NewDatabase ==
  /\ ~fresh
  /\ stage = "none"
  /\ cli = {}
  /\ \A c \in Clients : pc[c] = "idle"
  /\ records' = << >> /\ now' = 0 /\ ran' = {}
  /\ fresh' = TRUE
  /\ UNCHANGED <<holder, cli, clientVars, runs, crashes>>
  /\ UNCHANGED <<disk, dump, included, memory>>

CheckoutFinished == Finished /\ stage = "none" /\ UNCHANGED checkoutVars

CheckoutNext == MaintainerStep \/ OtherStep \/ NewDatabase \/ CheckoutFinished

CheckoutSpec == CheckoutInit /\ [][CheckoutNext]_<<vars, checkoutVars>>

-----------------------------------------------------------------------------
(***************************************************************************)
(* The type of the state, and where a command is: its memory is that of a  *)
(* process which runs, and one that writes or removes holds the lock.      *)
(***************************************************************************)
CheckoutTypeOK ==
  /\ disk \subseteq Files
  /\ dump \in [objects : SUBSET (Files \X Sums), intact : BOOLEAN] \cup {None}
  /\ included \subseteq Files \X Sums
  /\ stage \in Stages
  /\ report \in [drift : BOOLEAN, base : BOOLEAN, applied : BOOLEAN, errors : BOOLEAN]
  /\ fresh \in BOOLEAN
  /\ pc[m] = "idle" => stage \in {"none", "redump", "write"}
  /\ HasLock /\ stage \in {"rows", "schema", "metadata", "remove"} => holder = m

\* What the promises about baselines are made for: no migration groups, whose
\* directories go as a whole, and files of which nobody has another version,
\* since baseline asks whether a file is applied, not whether as it is here.
HasNoGroups == \A f \in Files : GroupOf[f] = None

VersionsAgree ==
  \A j \in Jobs : j.cmd = "apply" => \A f \in Scan(j.tree) : j.tree[f] = VersionOf[f]

(***************************************************************************)
(* Wherever baseline is interrupted, and whatever dumps follow it, no      *)
(* migration is lost: a file that is no longer in the checkout has its     *)
(* effect in schema.sql and its name and checksum in metadata.json.  Where *)
(* there are groups it does not hold, since RemoveFile takes the directory *)
(* of the whole group.                                                     *)
(***************************************************************************)
NothingIsLost ==
  \A f \in Files \ disk :
    /\ dump # None /\ Version(f) \in dump.objects
    /\ Version(f) \in included

(***************************************************************************)
(* An apply --from-baseline that reports no error leaves a database that   *)
(* has every file of the baselines and, of the files of the checkout that  *)
(* apply executes as soon as it comes to them, every one executed, in the  *)
(* version of the checkout, and recorded, but for what somebody resolved.  *)
(***************************************************************************)
CleanRunIsComplete ==
  pc[m] = "close" /\ report.base /\ ~report.errors =>
    /\ included \subseteq ran
    /\ \A p \in included \cup {Version(f) : f \in {g \in disk : GroupOf[g] = None}} :
         \/ IsNewest(p[1], "applied") /\ p \in ran
         \/ IsNewest(p[1], "skipped")

(***************************************************************************)
(* What the documentation says and the code does not do                    *)
(***************************************************************************)

(***************************************************************************)
(* README.md:278: apply --from-baseline applies the schema.sql baseline,   *)
(* then the remaining migrations.                                          *)
(***************************************************************************)
BaselineThenRemaining ==
  [][ApplyStarts(m) /\ report.base => included \subseteq ran]_<<vars, checkoutVars>>
=============================================================================
