---------------------------- MODULE HistoryImport ----------------------------
(***************************************************************************)
(* Incremental import of one agent session log into the history tables.    *)
(* The agent appends to the log, may be caught half-way through a line and *)
(* may replace the file; importers stat it, decide where to resume, parse  *)
(* it and store session, messages, events and import state in four         *)
(* transactions of their own, each of which may be the last.               *)
(*                                                                         *)
(* A complete line weighs two bytes and a half-written one weighs one.     *)
(* The modification time tells replaced files of one size apart: it is the *)
(* generation of the file.                                                 *)
(***************************************************************************)
EXTENDS Naturals, SequencesExt, FiniteSetsExt

CONSTANTS Procs,        \* processes that run import_history on the log
          Formats,      \* importers looked at
          Lines,        \* [format -> the lines an agent of that kind writes]
          NoKey,        \* a record the upstream left without an id
          Env,          \* what may happen: subset of {"unkeyed", "midparse", "crash"}
          MaxLines,     \* bound: lines of the log and replacements of it
          MaxRewrites,  \* bound: replacements of the log
          MaxImports    \* bound: imports started and replacements, together

ASSUME FormatsAssumption == /\ Formats \subseteq {"membox", "codex", "pi", "claude"}
                            /\ Formats \subseteq DOMAIN Lines
\* A line is what tells it from others: its kind, its id or what is hashed for one.
ASSUME LinesAssumption ==
    \A f \in Formats : \A k, l \in Lines[f] :
        /\ k.kind = l.kind /\ k.kind \in {"message", "call", "result"}
        /\ \/ k.key = l.key /\ k.key # NoKey
           \/ /\ k.kind = "message" /\ k.text = l.text
              /\ f = "codex" \/ (f = "membox" /\ k.key = l.key)
        => k = l
ASSUME HistoryBoundsAssumption == {MaxLines, MaxRewrites, MaxImports} \subseteq Nat

VARIABLES fmt,       \* the importer, constant
          log,       \* the complete lines of the file
          half,      \* a line is being written after them
          gen,       \* how often the file was replaced
          session,   \* history_sessions has the row
          messages,  \* history_messages: external id -> text and seq
          events,    \* history_events: id -> text and message
          state,     \* history_import_state, None before the first import
          pc,        \* where each importer is
          job,       \* what it has read
          imports,   \* ghost: imports started
          mixed      \* ghost: an import took an offset, or kept a batch, of a replaced file

file == <<fmt, log, half, gen>>
tables == <<session, messages, events, state>>
vars == <<file, tables, pc, job, imports, mixed>>

None == [kind |-> "none"]
Empty == [x \in {} |-> x]
Set(f, k, v) == [x \in DOMAIN f \cup {k} |-> IF x = k THEN v ELSE f[x]]
Upsert(f, g) == [x \in DOMAIN f \cup DOMAIN g |-> IF x \in DOMAIN g THEN g[x] ELSE f[x]]

Size == 2 * Len(log) + (IF half THEN 1 ELSE 0)
Stat == [mtime |-> gen, size |-> Size]
-----------------------------------------------------------------------------
(* Parsing.  A batch under construction: whether the session is known, the *)
(* rows, the next seq, the ids seen, the event ordinals of each message    *)
(* and the message last read.  All but the first two start anew on resume. *)

NoMessage == <<NoKey, 0>>

Batch(known, seq) == [known |-> known, bad |-> FALSE, messages |-> Empty, events |-> Empty,
                      next |-> seq, seen |-> {}, ordinals |-> Empty, last |-> NoMessage]

\* The first of digest, digest~2, ... that this pass has not given yet.
SynthExternalId(text, seen) ==
    <<text, Min({n \in 1..(Cardinality(seen) + 1) : <<text, n>> \notin seen})>>

\* The seq does not advance.
AddMessageUncounted(b, ext, line) ==
    [b EXCEPT !.messages = Set(@, ext, [text |-> line.text, seq |-> b.next]),
              !.seen = @ \cup {ext}, !.last = ext]

AddMessage(b, ext, line) ==
    [b EXCEPT !.messages = Set(@, ext, [text |-> line.text, seq |-> b.next]),
              !.next = @ + 1, !.seen = @ \cup {ext}, !.last = ext]

\* The id given again: the upsert of the batch changes the text, not the message.
AddEvent(b, id, message, line) ==
    LET kept == IF id \in DOMAIN b.events THEN b.events[id].message ELSE message
    IN  [b EXCEPT !.events = Set(@, id, [text |-> line.text, message |-> kept])]

Ordinal(b, counter) == IF counter \in DOMAIN b.ordinals THEN b.ordinals[counter] ELSE 0

\* call_id, or the n-th event of its message.
EventId(line, message, ordinal) ==
    IF line.key # NoKey THEN <<line.key, "call", line.kind>>
    ELSE <<message, ordinal, line.kind>>

IsEvent(line) == line.kind \in {"call", "result"}

\* iter_jsonl passes over lines that are no records.
IsRecord(line) == line.kind # "junk"

MemboxLine(b, line) ==
    IF b.bad \/ ~IsRecord(line) THEN b
    ELSE IF line.kind = "session" THEN [b EXCEPT !.known = TRUE]
    ELSE IF ~b.known THEN [b EXCEPT !.bad = TRUE]
    ELSE IF line.kind = "message"
    THEN AddMessage(b, IF line.key # NoKey THEN <<line.key, 0>>
                       ELSE SynthExternalId(line.text, b.seen), line)
    ELSE IF IsEvent(line)
    THEN LET message == IF line.parent # NoKey THEN <<line.parent, 0>> ELSE b.last
             n == Ordinal(b, message)
         IN  AddEvent([b EXCEPT !.ordinals = Set(@, message, n + 1)],
                      EventId(line, message, n), message, line)
    ELSE b

CodexLine(b, line) ==
    IF line.kind = "session" THEN [b EXCEPT !.known = TRUE]
    ELSE IF ~b.known THEN b
    ELSE IF line.kind = "message" THEN AddMessage(b, SynthExternalId(line.text, b.seen), line)
    ELSE IF IsEvent(line)
    THEN LET counter == <<b.last, line.kind>>
             n == Ordinal(b, counter)
         IN  AddEvent(IF line.key # NoKey THEN b
                      ELSE [b EXCEPT !.ordinals = Set(@, counter, n + 1)],
                      EventId(line, b.last, n), b.last, line)
    ELSE b

\* The id is the place in this parse.
PiLineByPosition(b, line) ==
    IF line.kind = "session" THEN [b EXCEPT !.known = TRUE]
    ELSE IF ~b.known \/ line.kind # "message" THEN b
    ELSE AddMessage(b, <<NoKey, Cardinality(b.seen) + 1>>, line)

PiLine(b, line) ==
    IF line.kind = "session" THEN [b EXCEPT !.known = TRUE]
    ELSE IF ~b.known \/ line.kind # "message" THEN b
    ELSE AddMessage(b, IF line.key # NoKey THEN <<line.key, 0>> ELSE <<NoKey, b.next + 1>>, line)

\* A chat line carries its events, and the session with it.
ClaudeLine(b, line) ==
    IF line.kind # "message" THEN b
    ELSE LET ext == <<line.key, 0>>
             read == AddMessage([b EXCEPT !.known = TRUE], ext, line)
         IN  IF line.call = NoKey THEN read
             ELSE AddEvent(read, <<line.call, "call", "call">>, ext, line)

\* _parent_depth_map: how long the chain of parents is that this batch holds.
ParentDepth(lines) ==
    FoldLeft(LAMBDA depth, line :
               Set(depth, line.key,
                   IF line.parent = NoKey THEN 0
                   ELSE (IF line.parent \in DOMAIN depth THEN depth[line.parent] ELSE 0) + 1),
             Empty, lines)

\* By time, then parents first, then as in the file.
ByTime(lines) ==
    LET depth == ParentDepth(lines)
        key(i) == <<lines[i].time, depth[lines[i].key], i>>
        before(i, j) == \E n \in 1..3 : /\ key(i)[n] < key(j)[n]
                                        /\ \A m \in 1..(n - 1) : key(i)[m] = key(j)[m]
        order == SetToSortSeq(DOMAIN lines, before)
    IN  [i \in DOMAIN lines |-> lines[order[i]]]

ReadLine(f, b, line) ==
    CASE f = "membox" -> MemboxLine(b, line)
      [] f = "codex"  -> CodexLine(b, line)
      [] f = "pi"     -> PiLine(b, line)
      [] f = "claude" -> ClaudeLine(b, line)

InReadingOrder(lines) == IF fmt = "claude" THEN ByTime(SelectSeq(lines, IsRecord)) ELSE lines

Parse(lines, known, seq) ==
    LET b == FoldLeft(LAMBDA read, line : ReadLine(fmt, read, line),
                      Batch(known, seq), InReadingOrder(lines))
    IN  [bad |-> b.bad \/ ~b.known, messages |-> b.messages, events |-> b.events, next |-> b.next]

\* What iter_jsonl reads from an offset, and where the last record of it ends.
After(offset) == SubSeq(log, offset \div 2 + 1, Len(log))
\* The half-written line counts.
EndOffsetWithPartial(offset) ==
    Max({offset} \cup {2 * Len(log) + (IF half THEN 2 ELSE 0)})

EndOffset(offset) ==
    Max({offset} \cup {2 * i : i \in {j \in DOMAIN log : /\ 2 * j > offset
                                                         /\ IsRecord(log[j])}})
-----------------------------------------------------------------------------
NoBatch == [bad |-> FALSE, messages |-> Empty, events |-> Empty, next |-> 0]
NoJob == [stat |-> None, offset |-> 0, known |-> FALSE, seq |-> 0, gen |-> 0, batch |-> NoBatch]

Init == /\ fmt \in Formats
        /\ log = <<>> /\ half = FALSE /\ gen = 0
        /\ session = FALSE /\ messages = Empty /\ events = Empty /\ state = None
        /\ pc = [p \in Procs |-> "idle"]
        /\ job = [p \in Procs |-> NoJob]
        /\ imports = 0
        /\ mixed = FALSE

\* Nothing is claimed of what follows an import that mixed two files: no step does.
Goto(p, from, to) == ~mixed /\ pc[p] = from /\ pc' = [pc EXCEPT ![p] = to]
Parsed == {"offset", "session", "messages", "events", "state"}
-----------------------------------------------------------------------------
(* The agent.                                                              *)

\* The id of the record depends on the record alone, and no other has it: with
\* "unkeyed" the upstream also leaves records without an id that repeat a text
\* or follow a message.
Identified(line, lines) ==
    /\ fmt \in {"membox", "codex"} => line.key # NoKey \/ ~IsEvent(line)
    /\ \A i \in DOMAIN lines : lines[i] # line \/ ~IsRecord(line)

Writable(line, lines) == "unkeyed" \in Env \/ Identified(line, lines)

\* Nothing is written between the passes of one parse, unless Env has it.
Undisturbed == ~mixed /\ ("midparse" \in Env \/ \A p \in Procs : pc[p] # "offset")

WriteHalf == /\ ~half
             /\ Len(log) + gen < MaxLines
             /\ Undisturbed
             /\ half' = TRUE
             /\ UNCHANGED <<fmt, log, gen, tables, pc, job, imports, mixed>>

WriteLine == /\ Len(log) + gen < MaxLines
             /\ Undisturbed
             /\ \E line \in Lines[fmt] : /\ Writable(line, log)
                                         /\ log' = Append(log, line)
             /\ half' = FALSE
             /\ UNCHANGED <<fmt, gen, tables, pc, job, imports, mixed>>

\* The file is replaced by some of its lines: compacted, or begun anew.
Rewrite == /\ gen < MaxRewrites /\ imports + gen < MaxImports
           /\ Undisturbed
           /\ \E n \in 0..(Len(log) - 1) : \E kept \in [1..n -> DOMAIN log] :
                 /\ \A i, j \in 1..n : i < j => kept[i] < kept[j]
                 /\ log' = [i \in 1..n |-> log[kept[i]]]
           /\ half' = FALSE
           /\ gen' = gen + 1
           /\ mixed' = (mixed \/ \E p \in Procs : pc[p] \in Parsed)
           /\ UNCHANGED <<fmt, tables, pc, job, imports>>
-----------------------------------------------------------------------------
(* import_history, step by step.                                           *)

StatFile(p) == /\ imports + gen < MaxImports
               /\ Goto(p, "idle", "decide")
               /\ job' = [job EXCEPT ![p] = [NoJob EXCEPT !.stat = Stat]]
               /\ imports' = imports + 1
               /\ UNCHANGED <<file, tables, mixed>>

\* The source has the size and the time of the last import.
SkipUnchanged(p) == /\ state # None
                    /\ state.stat = job[p].stat
                    /\ Goto(p, "decide", "idle")
                    /\ job' = [job EXCEPT ![p] = NoJob]
                    /\ UNCHANGED <<file, tables, imports, mixed>>

Resumable(stat) == /\ state # None
                   /\ state.offset \in 1..stat.size
                   /\ session

\* A resumed import numbers from zero.
DecideFromZero(p) == /\ ~(state # None /\ state.stat = job[p].stat)
                     /\ Goto(p, "decide", "parse")
                     /\ job' = [job EXCEPT ![p] =
                                  IF Resumable(@.stat)
                                  THEN [@ EXCEPT !.offset = state.offset, !.known = TRUE,
                                                 !.gen = state.gen]
                                  ELSE @]
                     /\ UNCHANGED <<file, tables, imports, mixed>>

Decide(p) == /\ ~(state # None /\ state.stat = job[p].stat)
             /\ Goto(p, "decide", "parse")
             /\ job' = [job EXCEPT ![p] =
                          IF Resumable(@.stat)
                          THEN [@ EXCEPT !.offset = state.offset, !.seq = state.next,
                                         !.known = TRUE, !.gen = state.gen]
                          ELSE @]
             /\ UNCHANGED <<file, tables, imports, mixed>>

\* The Claude importer measures the end of the log in a pass of its own.
ParseFile(p) ==
    LET j == job[p]
        b == Parse(After(j.offset), j.known, j.seq)
    IN  /\ ~b.bad
        /\ Goto(p, "parse", IF fmt = "claude" THEN "offset" ELSE "session")
        /\ job' = [job EXCEPT ![p] = [NoJob EXCEPT
                       !.stat = j.stat, !.batch = b, !.gen = gen,
                       !.offset = IF fmt = "claude" THEN j.offset ELSE EndOffset(j.offset)]]
        /\ mixed' = (mixed \/ (j.offset > 0 /\ j.gen # gen))
        /\ UNCHANGED <<file, tables, imports>>

MeasureEnd(p) ==
    /\ Goto(p, "offset", "session")
    /\ job' = [job EXCEPT ![p].offset = EndOffset(@)]
    /\ UNCHANGED <<file, tables, imports, mixed>>

\* ValueError: no session header, or a record before it.
ParseFails(p) == /\ Parse(After(job[p].offset), job[p].known, job[p].seq).bad
                 /\ Goto(p, "parse", "idle")
                 /\ job' = [job EXCEPT ![p] = NoJob]
                 /\ UNCHANGED <<file, tables, imports, mixed>>

UpsertSession(p) == /\ Goto(p, "session", "messages")
                    /\ session' = TRUE
                    /\ UNCHANGED <<file, messages, events, state, job, imports, mixed>>

UpsertMessages(p) == /\ Goto(p, "messages", "events")
                     /\ messages' = Upsert(messages, job[p].batch.messages)
                     /\ job' = [job EXCEPT ![p].batch.messages = Empty]
                     /\ UNCHANGED <<file, session, events, state, imports, mixed>>

\* message_id REFERENCES history_messages.
Orphans(evts) == {e \in DOMAIN evts : evts[e].message \notin DOMAIN messages \cup {NoMessage}}

\* An event that is there keeps its message.
UpsertEvents(p) ==
    LET new == job[p].batch.events
    IN  /\ Orphans(new) \subseteq DOMAIN events
        /\ Goto(p, "events", "state")
        /\ events' = Upsert(events, [e \in DOMAIN new |->
                                       IF e \in DOMAIN events
                                       THEN [new[e] EXCEPT !.message = events[e].message]
                                       ELSE new[e]])
        /\ job' = [job EXCEPT ![p].batch.events = Empty]
        /\ UNCHANGED <<file, session, messages, state, imports, mixed>>

\* IntegrityError: the transaction is rolled back and the import raises.
EventsRefused(p) == /\ ~(Orphans(job[p].batch.events) \subseteq DOMAIN events)
                    /\ Goto(p, "events", "idle")
                    /\ job' = [job EXCEPT ![p] = NoJob]
                    /\ UNCHANGED <<file, tables, imports, mixed>>

SetImportState(p) ==
    /\ Goto(p, "state", "idle")
    /\ state' = [kind |-> "state", stat |-> job[p].stat, offset |-> job[p].offset,
                 next |-> job[p].batch.next, gen |-> job[p].gen]
    /\ job' = [job EXCEPT ![p] = NoJob]
    /\ UNCHANGED <<file, session, messages, events, imports, mixed>>

\* Before the parse an importer that dies has left nothing behind.
Crash(p) == /\ "crash" \in Env
            /\ ~mixed /\ pc[p] \in Parsed
            /\ pc' = [pc EXCEPT ![p] = "idle"]
            /\ job' = [job EXCEPT ![p] = NoJob]
            /\ UNCHANGED <<file, tables, imports, mixed>>

Agent == WriteHalf \/ WriteLine \/ Rewrite

Import(p) == \/ StatFile(p) \/ SkipUnchanged(p) \/ Decide(p)
             \/ ParseFile(p) \/ MeasureEnd(p) \/ ParseFails(p)
             \/ UpsertSession(p) \/ UpsertMessages(p) \/ UpsertEvents(p) \/ EventsRefused(p)
             \/ SetImportState(p) \/ Crash(p)

Next == Agent \/ \E p \in Procs : Import(p)

Spec == Init /\ [][Next]_vars
-----------------------------------------------------------------------------
(* Reading.                                                                *)

\* fetch_payload parses the whole file again and looks the record up.
Fresh == Parse(log, FALSE, 0)
Fetch(id, rows) == IF id \in DOMAIN rows THEN rows[id].text ELSE NoKey

\* history_around: the messages at most radius away in seq.
Around(ext, radius) == {m \in DOMAIN messages : /\ messages[m].seq <= messages[ext].seq + radius
                                                /\ messages[ext].seq <= messages[m].seq + radius}
-----------------------------------------------------------------------------
(* Properties.                                                             *)

Stored(rows, kept) == \A r \in DOMAIN rows : r \in DOMAIN kept /\ kept[r].text = rows[r].text

\* Every record before the stored offset is in the tables, whoever stored it
\* and whatever was killed: the next import resumes there and never comes back.
NothingPassedOver ==
    state # None /\ state.gen = gen /\ ~mixed =>
        LET before == Parse(SubSeq(log, 1, Min({state.offset \div 2, Len(log)})), FALSE, 0)
        IN  Stored(before.messages, messages) /\ Stored(before.events, events)

\* "repeated and incremental imports converge" (importers/base.py:44): once the
\* file is the one last imported, the tables hold what one parse of all of it
\* gives, and of a file never replaced nothing else, in the same order (which is
\* not said of Claude).  It is true when no record is written twice and every
\* membox or Codex event has an id; otherwise it is false (README, section 6).
Converges ==
    state # None /\ state.stat = Stat /\ ~mixed =>
        LET whole == Fresh
        IN  /\ Stored(whole.messages, messages) /\ Stored(whole.events, events)
            /\ gen = 0 => /\ DOMAIN messages = DOMAIN whole.messages
                          /\ DOMAIN events = DOMAIN whole.events
                          /\ fmt # "claude" => messages = whole.messages

\* history fetch of a stored id gives the text that was stored under it, as long
\* as the file was not replaced, no record is written twice and every membox or
\* Codex event has an id: ids then do not depend on where an import started.
FetchGivesTheRow ==
    gen = 0 /\ messages # Empty =>
        LET whole == Fresh
        IN  /\ \A m \in DOMAIN messages : Fetch(m, whole.messages) = messages[m].text
            /\ \A e \in DOMAIN events : Fetch(e, whole.events) = events[e].text

\* In a log never replaced no two messages have one seq, whatever imports overlap,
\* so history around a message with radius r shows at most 2r + 1 of them.  The
\* Claude importer numbers the lines of each batch by time and is not claimed.
AroundIsAWindow ==
    gen = 0 /\ fmt # "claude" => \A m \in DOMAIN messages : \A r \in 0..1 :
                   Cardinality(Around(m, r)) <= 2 * r + 1
=============================================================================
