------------------------------ MODULE AuditLog ------------------------------
(***************************************************************************)
(* The audit log: a file of JSON lines                                     *)
(* (packages/gateway/src/storage/json-store.ts), the writer that never     *)
(* fails (core/audit/writer.ts), and what GET /audit makes of the file     *)
(* (core/audit/reader.ts, routes/audit.ts).                                *)
(*                                                                         *)
(* Handlers record events at the same time; an append may be cut short,    *)
(* by a full disk or by the death of the process, and leaves a piece of    *)
(* its line that the next append continues.                                *)
(***************************************************************************)
EXTENDS Naturals, FiniteSets, SequencesExt

CONSTANTS
    Events,      \* calls of audit.record
    Apps, NoApp,
    AppOf,       \* the app_id of an event, NoApp where it has none
    StampOf,     \* the wall clock when it is recorded; it may stand still or be set back
    NoLimit,     \* a query without a limit
    MaxLimit,    \* the largest limit of a query
    MaxCuts      \* bound: appends that are cut short

ASSUME AppsAssumption == NoApp \notin Apps
ASSUME EventsAssumption == /\ AppOf \in [Events -> Apps \cup {NoApp}]
                           /\ StampOf \in [Events -> Nat]
ASSUME LimitAssumption == /\ MaxLimit \in Nat \ {0} /\ NoLimit \notin Nat
                          /\ MaxCuts \in Nat

VARIABLES
    file,       \* audit.jsonl: its lines (sequences of pieces); the last one has no
                \* newline yet
    state,      \* of each event: "new", "appending", "recorded", "swallowed" or "lost"
    earlier,    \* the events whose record call had returned when this one began
    cuts        \* appends cut short so far

vars == <<file, state, earlier, cuts>>

-----------------------------------------------------------------------------
(* The file *)

\* What an append leaves of its line: the whole of it, or a part.
Piece == [event : Events, whole : BOOLEAN]

\* A line is the pieces that were appended to it.  JSON.parse takes it only if
\* it is one whole entry.
Parseable(line) == Len(line) = 1 /\ line[1].whole

\* The elements of s at the places in `at`, in their order.  (The provers know
\* nothing of SelectSeq.)
Select(s, at) ==
    LET upTo[n \in 0..Len(s)] ==
          IF n = 0 THEN <<>> ELSE IF n \in at THEN Append(upTo[n - 1], s[n]) ELSE upTo[n - 1]
    IN  upTo[Len(s)]

AppendPiece(piece) == [file EXCEPT ![Len(file)] = Append(@, piece)]

\* Mutant: the reader gives up at the first line it cannot parse.
readAll_UntilBroken ==
    LET good == {n \in 0..Len(file) : \A i \in 1..n : file[i] = <<>> \/ Parseable(file[i])}
        upTo == CHOOSE n \in good : \A k \in good : k <= n
        lines == SelectSeq(SubSeq(file, 1, upTo), Parseable)
    IN  [i \in DOMAIN lines |-> lines[i][1].event]

\* JsonLinesLog.readAll: empty and unparseable lines are skipped.
readAll ==
    LET lines == Select(file, {n \in DOMAIN file : Parseable(file[n])})
    IN  [i \in DOMAIN lines |-> lines[i][1].event]

Matches(app, event) == app = NoApp \/ AppOf[event] = app

\* Mutant: the limit is applied before the app's events are selected.
query_LimitFirst(app, limit) ==
    LET newest == Reverse(readAll)
        first  == IF limit = NoLimit THEN newest
                  ELSE SubSeq(newest, 1, IF limit < Len(newest) THEN limit ELSE Len(newest))
    IN  SelectSeq(first, LAMBDA e : Matches(app, e))

\* Mutant: newest first by timestamp.
query_ByTimestamp(app, limit) ==
    LET matched == SelectSeq(readAll, LAMBDA e : Matches(app, e))
        newest  == SortSeq(matched, LAMBDA d, e : StampOf[d] > StampOf[e])
    IN  IF limit = NoLimit THEN newest
        ELSE SubSeq(newest, 1, IF limit < Len(newest) THEN limit ELSE Len(newest))

\* AuditReader.query; without a filter app is NoApp.
query(app, limit) ==
    LET newest == Reverse(Select(readAll, {i \in DOMAIN readAll : Matches(app, readAll[i])}))
    IN  IF limit = NoLimit THEN newest
        ELSE SubSeq(newest, 1, IF limit < Len(newest) THEN limit ELSE Len(newest))

\* GET /audit through the client's getAudit: a limit that is not accepted is a
\* blocked envelope, which has no `events`, and the client throws.
getAudit(app, limit) ==
    [thrown |-> limit \notin (1..MaxLimit) \cup {NoLimit},
     events |-> IF limit \in (1..MaxLimit) \cup {NoLimit} THEN query(app, limit) ELSE <<>>]

-----------------------------------------------------------------------------
Init ==
    /\ file = << <<>> >>
    /\ state = [e \in Events |-> "new"]
    /\ earlier = [e \in Events |-> {}]
    /\ cuts = 0

With(status) == {e \in Events : state[e] = status}

\* AuditWriter.record, up to the write.
Record(e) ==
    /\ state[e] = "new"
    /\ state' = [state EXCEPT ![e] = "appending"]
    /\ earlier' = [earlier EXCEPT ![e] = With("recorded") \cup With("swallowed")]
    /\ UNCHANGED <<file, cuts>>

\* Mutant: the entry is written without its newline.
AppendEntry_Unterminated(e) ==
    /\ state[e] = "appending"
    /\ file' = AppendPiece([event |-> e, whole |-> TRUE])
    /\ state' = [state EXCEPT ![e] = "recorded"]
    /\ UNCHANGED <<earlier, cuts>>

\* JsonLinesLog.append: the entry and its newline at the end of the file.
AppendEntry(e) ==
    /\ state[e] = "appending"
    /\ file' = Append(AppendPiece([event |-> e, whole |-> TRUE]), <<>>)
    /\ state' = [state EXCEPT ![e] = "recorded"]
    /\ UNCHANGED <<earlier, cuts>>

\* What is left of an append that did not get to its newline: nothing, a part
\* of the entry, or all of it.
Cut(e) ==
    /\ cuts < MaxCuts
    /\ cuts' = cuts + 1
    /\ \/ UNCHANGED file
       \/ \E whole \in BOOLEAN : file' = AppendPiece([event |-> e, whole |-> whole])

\* The append fails; record prints the error and returns.
AppendFails(e) ==
    /\ state[e] = "appending"
    /\ Cut(e)
    /\ state' = [state EXCEPT ![e] = "swallowed"]
    /\ UNCHANGED earlier

\* The process dies with records under way, at most one of them half written.
CrashAndRestart ==
    /\ \E e \in With("appending") : Cut(e)
    /\ state' = [e \in Events |-> IF state[e] = "appending" THEN "lost" ELSE state[e]]
    /\ UNCHANGED earlier

Next ==
    \/ \E e \in Events : Record(e) \/ AppendEntry(e) \/ AppendFails(e)
    \/ CrashAndRestart

Spec == Init /\ [][Next]_vars

-----------------------------------------------------------------------------
listed == readAll

Listed(e) == \E i \in DOMAIN listed : listed[i] = e

\* Appends that are cut short cost at most one recorded event each: the reader
\* loses the line a piece was left in, never more, wherever it is.
LossIsBoundedByCuts == Cardinality({e \in With("recorded") : ~Listed(e)}) <= cuts

\* An event recorded after another one had returned is listed before it (newest
\* first), whatever the clock said.
CausalOrder ==
    LET events == getAudit(NoApp, NoLimit).events IN
      \A i, j \in DOMAIN events : events[i] \in earlier[events[j]] => j < i

\* A query with a limit gives an app its own newest events, and as many of
\* them as there are up to the limit.
NewestOfApp ==
    \A app \in Apps, limit \in 0..MaxLimit :
      LET answer == getAudit(app, limit)
          all    == getAudit(app, NoLimit).events
      IN  /\ answer.thrown <=> limit = 0
          /\ ~answer.thrown =>
               /\ IsPrefix(answer.events, all)
               /\ Len(answer.events) = IF limit < Len(all) THEN limit ELSE Len(all)
          /\ \A e \in Events : Listed(e) /\ AppOf[e] = app <=> \E i \in DOMAIN all : all[i] = e

\* What a handler was told is recorded, and what a reader has seen of it,
\* stays: later appends, cut short or not, never take it away.
RecordedStaysListed ==
    [][\A e \in Events : state[e] = "recorded" /\ Listed(e) => Listed(e)']_vars

-----------------------------------------------------------------------------
(* The invariant behind them *)

TypeOK ==
    /\ file \in Seq(Seq(Piece)) /\ file # <<>>
    /\ state \in [Events -> {"new", "appending", "recorded", "swallowed", "lost"}]
    /\ earlier \in [Events -> SUBSET Events]
    /\ cuts \in 0..MaxCuts

\* A piece is left by an event whose append has ended.  The last line has only
\* pieces of events whose append was cut short.
PiecesAreEnded ==
    \A n \in DOMAIN file : \A i \in DOMAIN file[n] :
      LET s == state[file[n][i].event]
      IN  s \in {"recorded", "swallowed", "lost"} /\ (n = Len(file) => s # "recorded")

\* What had returned before an event began is in the file before it.
LinesAreInOrder ==
    /\ \A e \in Events : /\ earlier[e] \subseteq With("recorded") \cup With("swallowed")
                         /\ e \notin earlier[e]
    /\ \A m, n \in DOMAIN file : \A i \in DOMAIN file[m], j \in DOMAIN file[n] :
         file[m][i].event \in earlier[file[n][j].event] => m <= n

\* Recorded, and in no line of its own.
Missed == {e \in With("recorded") :
             ~\E n \in DOMAIN file : Parseable(file[n]) /\ file[n][1].event = e}

\* Every cut has cost an event already, or has left its piece in the last line.
LossIsPaidFor ==
    /\ IsFiniteSet(With("recorded"))
    /\ Cardinality(Missed) + (IF file[Len(file)] = <<>> THEN 0 ELSE 1) <= cuts

LogInv == TypeOK /\ PiecesAreEnded /\ LinesAreInOrder /\ LossIsPaidFor
=============================================================================
