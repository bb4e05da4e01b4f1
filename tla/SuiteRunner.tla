----------------------------- MODULE SuiteRunner ------------------------------
(***************************************************************************)
(* The silicon validation suite (run_all_silicon_tests.py): gates that run *)
(* one after another as child processes, the evidence record each of them  *)
(* prints between two markers, what the parent makes of it, and the        *)
(* summary that accounts for gates and cases.                              *)
(*                                                                         *)
(* A nonce is named by the position of the gate it was drawn for; it never *)
(* repeats.  The source file that a record hashes is named by its version, *)
(* which others may edit while the suite runs.  The tests of a record that *)
(* concern it alone (schema, device, dispatch, buffers, process identity)  *)
(* and those of the process (exit codes, rejected markers) are one flag.   *)
(***************************************************************************)
EXTENDS Integers, Sequences, SequencesExt

CONSTANTS
  Gates,      \* the gates in the order of the suite
  Selected,   \* expected_total, the cases of a gate
  Claims,     \* the case counts a child may claim
  Archive,    \* records of earlier executions that a child may print again
  NoRecord,   \* the record of a gate without one
  MaxEdits    \* bound on the edits of the sources

VARIABLES
  host,     \* the environment: fit for the suite or not
  source,   \* the version of the sources on disk
  child,    \* the running gate: its position, 0 if there is none
  output,   \* the framed records it has printed
  made,     \* history: <<gate position, record>> for each record a child made
  results,  \* the results of the gates so far
  report    \* what main reports

svars == <<host, source, child, output, made, results, report>>

Hosts == {"ready", "redirected", "no_interpreter"}
Statuses == {"UNVERIFIED", "BLOCKED", "FAIL", "TIMEOUT", "MISSING"}
Counts == [passed : Nat, failed : Nat, skipped : Nat, xfailed : Nat]
Records ==
  [gate : Range(Gates), nonce : 0 .. Len(Gates), source : 0 .. MaxEdits,
   recent : BOOLEAN, claims : Claims]

ASSUME SuiteAssumption ==
  /\ Gates \in Seq(Range(Gates)) /\ Gates # <<>> /\ IsInjective(Gates)
  /\ Selected \in Nat \ {0}
  /\ MaxEdits \in Nat
  /\ Claims \subseteq Counts
  /\ Archive \subseteq {r \in Records : r.nonce = 0}
  /\ NoRecord \notin Records

NoCases == [passed |-> 0, failed |-> 0, skipped |-> 0, xfailed |-> 0]
Cases(counts) == counts.passed + counts.failed + counts.skipped + counts.xfailed

Turn == Len(results) + 1

SuiteInit ==
  /\ host \in Hosts
  /\ source = 0
  /\ child = 0
  /\ output = <<>>
  /\ made = {}
  /\ results = <<>>
  /\ report = "none"

-----------------------------------------------------------------------------
(* One gate.  A fault: the suite goes one turn beyond its last gate.       *)
UnfinishedOneMore == report = "none" /\ host = "ready" /\ Turn <= Len(Gates) + 1
Unfinished == report = "none" /\ host = "ready" /\ Turn <= Len(Gates)

(* The result of a gate: executed counts the cases that are accounted for. *)
(* A claim of a passed case is never more than unverified.                 *)
Result(status, record, executed, counts) ==
  [status |-> status, record |-> record, executed |-> executed,
   unverified |-> counts.passed, failed |-> counts.failed,
   skipped |-> counts.skipped, xfailed |-> counts.xfailed]

(* A gate without output that could be parsed: all its cases have failed   *)
(* and none was executed.                                                  *)
Lost(status) == Result(status, NoRecord, 0, [NoCases EXCEPT !.failed = Selected])

Finishes(result) ==
  /\ results' = Append(results, result)
  /\ child' = 0
  /\ output' = <<>>
  /\ UNCHANGED <<host, source, made, report>>

ScriptMissing == Unfinished /\ child = 0 /\ Finishes(Lost("MISSING"))

Spawn ==
  /\ Unfinished /\ child = 0
  /\ child' = Turn
  /\ UNCHANGED <<host, source, output, made, results, report>>

(* A child prints the record of its own run, or one it has kept from an    *)
(* earlier execution or from another gate of this one.                     *)
PrintsOwn ==
  /\ child # 0 /\ Len(output) < 2
  /\ \E claims \in Claims :
       LET own == [gate |-> Gates[child], nonce |-> child, source |-> source,
                   recent |-> TRUE, claims |-> claims] IN
       /\ output' = Append(output, own)
       /\ made' = made \cup {<<child, own>>}
  /\ UNCHANGED <<host, source, child, results, report>>

PrintsKept ==
  /\ child # 0 /\ Len(output) < 2
  /\ \E kept \in Archive \cup {m[2] : m \in made} : output' = Append(output, kept)
  /\ UNCHANGED <<host, source, child, made, results, report>>

(* The nonce binds a record to this child.  A fault: only the timestamps   *)
(* do, with their tolerance of 5 seconds.                                  *)
BoundByTime(record) == record.recent
Bound(record) == record.nonce = child /\ record.recent

(* The parent hashes the file the record names when it parses the record.  *)
Accepted(record, sound) ==
  /\ Bound(record)
  /\ record.gate = Gates[child]
  /\ record.source = source
  /\ record.claims = [NoCases EXCEPT !.passed = Selected]
  /\ sound

(* Anything but one framed record is no record at all.                     *)
Parsed(sound) ==
  IF Len(output) # 1 THEN Result("BLOCKED", NoRecord, 0, NoCases)
  ELSE LET record == output[1] IN
       Result(IF Accepted(record, sound) THEN "UNVERIFIED" ELSE "FAIL",
              record, Cases(record.claims), record.claims)

Exits == child # 0 /\ \E sound \in BOOLEAN : Finishes(Parsed(sound))

(* The parent kills a child whose time is up, whatever it has printed.     *)
(* A fault: only a silent one.                                             *)
TimesOutSilent == child # 0 /\ output = <<>> /\ Finishes(Lost("TIMEOUT"))
TimesOut == child # 0 /\ Finishes(Lost("TIMEOUT"))

(* The launch, or the parsing of the output, raises.                       *)
LaunchRaises == child # 0 /\ Finishes(Lost("FAIL"))

(* Somebody else works on the sources.                                     *)
Edits ==
  /\ source < MaxEdits
  /\ source' = source + 1
  /\ UNCHANGED <<host, child, output, made, results, report>>

-----------------------------------------------------------------------------
(* The summary.                                                            *)
With(status) == SelectSeq(results, LAMBDA r : r.status = status)
Total(counts) == FoldLeft(LAMBDA sum, n : sum + n, 0, counts)

(* A fault: a blocked gate is taken for one that has been executed.        *)
BlockedCasesExecuted ==
  Total([i \in DOMAIN results |->
           IF results[i].status = "BLOCKED" THEN results[i].executed ELSE 0])
BlockedCases ==
  Total([i \in DOMAIN results |-> IF results[i].status = "BLOCKED" THEN Selected ELSE 0])

(* A gate that timed out, is missing or raised is a failed gate; a claim   *)
(* of a passed case is a match also when the gate's evidence was rejected. *)
Totals ==
  [unverified_gates |-> Len(With("UNVERIFIED")),
   blocked_gates |-> Len(With("BLOCKED")),
   failed_gates |-> Len(results) - Len(With("UNVERIFIED")) - Len(With("BLOCKED")),
   matching |-> Total([i \in DOMAIN results |-> results[i].unverified]),
   failed |-> Total([i \in DOMAIN results |-> results[i].failed]),
   skipped |-> Total([i \in DOMAIN results |-> results[i].skipped]),
   xfailed |-> Total([i \in DOMAIN results |-> results[i].xfailed]),
   blocked |-> BlockedCases]

Balanced(totals) ==
  totals.matching + totals.failed + totals.blocked + totals.skipped + totals.xfailed
    = Selected * Len(Gates)

(* What summarize_suite_execution demands of a result.                     *)
Counted(result) ==
  /\ result.status = "BLOCKED" =>
       {result.executed, result.unverified, result.failed, result.skipped, result.xfailed} = {0}
  /\ result.status # "BLOCKED" =>
       /\ result.executed = Selected
       /\ result.unverified + result.failed + result.skipped + result.xfailed
            = result.executed

Summarize ==
  /\ report = "none" /\ host = "ready" /\ Turn > Len(Gates)
  /\ report' = IF (\A r \in Range(results) : Counted(r)) /\ Balanced(Totals)
               THEN "summary" ELSE "raised"
  /\ UNCHANGED <<host, source, child, output, made, results>>

(* main refuses an emulated or redirected runtime, or a missing            *)
(* interpreter, before the first gate.                                     *)
Refuses ==
  /\ report = "none" /\ host # "ready"
  /\ report' = "infrastructure"
  /\ UNCHANGED <<host, source, child, output, made, results>>

SuiteNext ==
  \/ ScriptMissing \/ Spawn \/ PrintsOwn \/ PrintsKept
  \/ Exits \/ TimesOut \/ LaunchRaises \/ Edits
  \/ Summarize \/ Refuses

(* The parent goes on, and a child's time runs out.  No child has to print *)
(* or to end by itself.                                                    *)
SuiteFairness ==
  WF_svars(ScriptMissing \/ Spawn) /\ WF_svars(TimesOut)
    /\ WF_svars(Summarize) /\ WF_svars(Refuses)

SuiteSpec == SuiteInit /\ [][SuiteNext]_svars /\ SuiteFairness

-----------------------------------------------------------------------------
(* Types: gates run in their order and one at a time, none runs twice, and *)
(* a result counts no more cases than its record claims or its gate has.   *)
SuiteTypeOK ==
  /\ host \in Hosts /\ source \in 0 .. MaxEdits
  /\ Len(results) <= Len(Gates)
  /\ child \in {0, Turn} /\ child <= Len(Gates)
  /\ output \in Seq(Records) /\ Len(output) <= 2
  /\ made \subseteq (DOMAIN Gates) \X Records
  /\ \A r \in Range(results) :
       /\ r.status \in Statuses /\ r.record \in Records \cup {NoRecord}
       /\ r.executed \in Nat
       /\ {r.unverified, r.failed, r.skipped, r.xfailed} \subseteq Nat
  /\ report \in {"none", "summary", "raised", "infrastructure"}

(* The evidence of a gate is a record that its own child made in this      *)
(* execution, of a full set of passed cases: no record of an earlier       *)
(* execution or of another gate takes its place, whatever the children     *)
(* print (parse_gate_output, tests 1, 2 and 8).                            *)
EvidenceIsOwn ==
  \A i \in DOMAIN results : results[i].status = "UNVERIFIED" =>
    /\ <<i, results[i].record>> \in made
    /\ results[i].unverified = Selected

(* The suite is summarised exactly when every gate left a record of all    *)
(* its cases, accepted or not, or none at all.  The gates that timed out,  *)
(* were missing or raised, and those whose record has a case too few or    *)
(* too many, make summarize_suite_execution raise; the partition of        *)
(* gates and cases never does by itself (SuiteAccountingSummary).          *)
SummaryOfCompleteSuites ==
  report \in {"summary", "raised"} =>
    (report = "summary" <=>
       \A r \in Range(results) :
         IF r.record = NoRecord THEN r.status = "BLOCKED"
         ELSE Cases(r.record.claims) = Selected)

(* The suite ends, although a child may print what it wants and hang: the  *)
(* timeout of subprocess.run ends it (run_single_gate).                    *)
SuiteEnds == <>(report # "none")
=============================================================================
