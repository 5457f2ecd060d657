------------------------------ MODULE LogTail ------------------------------
(***************************************************************************)
(* The log of the service, internal/logger/logger.go, and the reading of   *)
(* its tail for /debug/logs, readLogTail of internal/router/logs.go.       *)
(*                                                                         *)
(* The log is a sequence of cells, the unit in which chunks and lines may  *)
(* be cut; a line is the cells of one JSON object and a newline.  Lines    *)
(* are appended under a mutex, but a reader of the file takes no lock: it  *)
(* may see the beginning of a line still being written.                    *)
(***************************************************************************)
EXTENDS Integers, Sequences, SequencesExt, FiniteSets, Selections

CONSTANTS
    ChunkSize,  \* bytes read at a time, 4096 in the code
    Readers     \* the requests that may read the log

ASSUME LogTailAssumption == ChunkSize \in Nat \ {0}

VARIABLES
    log,        \* the cells of log/app.log
    unwritten,  \* what the holder of the mutex has yet to append of its line
    reader      \* progress of readLogTail, by request

logVars == <<log, unwritten, reader>>

(* A line: who logged it, its level, the cells its JSON text takes. *)
NoLine == [of |-> "", level |-> "", width |-> 0]
NL == [line |-> NoLine, at |-> 0]
TextOf(line) == [k \in 1..line.width |-> [line |-> line, at |-> k]]

(* bytes.Split(text, '\n') *)
Lines(text) ==
    LET places == 1..(Len(text) + 1)
        ends == Keep([i \in places |-> i], {i \in places : i > Len(text) \/ text[i] = NL})
    IN  [k \in DOMAIN ends |-> SubSeq(text, IF k = 1 THEN 1 ELSE ends[k - 1] + 1, ends[k] - 1)]

(* A text passes if it is one JSON object, whole, of the level asked for.   *)
(* The filters by key, value and message are further conjuncts of this kind.*)
parseLogLine(text, filters) ==
    /\ text # <<>>
    /\ text = TextOf(text[1].line)
    /\ filters.level \in {"", text[1].line.level}

(* The lines among these that pass; of them, at most the given number. *)
Passing(lines, filters) == Keep(lines, {text \in ToSet(lines) : parseLogLine(text, filters)})
FirstFound(lines, filters, most) ==
    LET found == Passing(lines, filters)
    IN  SubSeq(found, 1, IF Len(found) < most THEN Len(found) ELSE most)
-----------------------------------------------------------------------------
Idle == [phase |-> "idle"]

LogInit(old) ==
    /\ log = old
    /\ unwritten = <<>>
    /\ reader = [r \in Readers |-> Idle]

(* write takes the mutex; some of the line is in the file. *)
BeginWrite(line) ==
    /\ unwritten = <<>>
    /\ LET text == TextOf(line) \o <<NL>>
       IN  \E n \in 1..(Len(text) - 1) :
              /\ log' = log \o SubSeq(text, 1, n)
              /\ unwritten' = SubSeq(text, n + 1, Len(text))
    /\ UNCHANGED reader

(* The rest of it is, and write releases the mutex. *)
EndWrite ==
    /\ unwritten # <<>>
    /\ log' = log \o unwritten
    /\ unwritten' = <<>>
    /\ UNCHANGED reader

(* readLogTail opens the file and takes its size.  The size is kept for the *)
(* properties.                                                              *)
OpenLog(r, filters) ==
    /\ reader' = [reader EXCEPT ![r] =
            [phase |-> "reading", filters |-> filters, size |-> Len(log),
             offset |-> Len(log), remainder |-> <<>>, entries |-> <<>>]]
    /\ UNCHANGED <<log, unwritten>>

WantsMore(rd) == rd.offset > 0 /\ Len(rd.entries) < rd.filters.limit

(* Mutant: the chunk that is left at the beginning does not advance. *)
ChunkStartStuck(offset) == IF offset < ChunkSize THEN offset ELSE offset - ChunkSize

ChunkStart(offset) == IF offset < ChunkSize THEN 0 ELSE offset - ChunkSize

(* Mutant: the beginning of a line is forgotten with its chunk. *)
ChunkAlone(chunk, remainder) == chunk

(* The text in hand after a chunk: the chunk, and before what is next in the*)
(* file the beginning of a line that earlier chunks left.                   *)
Glued(chunk, remainder) == chunk \o remainder

(* One chunk, towards the beginning.  Its first line is not complete yet;  *)
(* the others are looked at from the newest.                               *)
ReadChunk(r) ==
    LET rd == reader[r]
        start == ChunkStart(rd.offset)
    IN  /\ rd.phase = "reading"
        /\ WantsMore(rd)
        /\ \E text \in {Glued(SubSeq(log, start + 1, rd.offset), rd.remainder)} :
           \E lines \in {Lines(text)} :
              reader' = [reader EXCEPT ![r] = [rd EXCEPT
                 !.offset = start,
                 !.remainder = lines[1],
                 !.entries = @ \o FirstFound(Reverse(Tail(lines)), rd.filters,
                                             rd.filters.limit - Len(@))]]
        /\ UNCHANGED <<log, unwritten>>

(* What remains is the first line of the file; the entries are turned into *)
(* the order of the file.                                                  *)
FinishTail(r) ==
    LET rd == reader[r]
        first == FirstFound(<<rd.remainder>>, rd.filters,
                            rd.filters.limit - Len(rd.entries))
    IN  /\ rd.phase = "reading"
        /\ ~WantsMore(rd)
        /\ reader' = [reader EXCEPT ![r] = [rd EXCEPT !.phase = "done",
                                                      !.entries = Reverse(@ \o first)]]
        /\ UNCHANGED <<log, unwritten>>
-----------------------------------------------------------------------------
(* Whatever the chunks cut and whatever is appended meanwhile, the answer   *)
(* is what one look at the whole file would have given when it was opened:  *)
(* the last lines that pass, in order.  (the remainder carried from chunk   *)
(* to chunk in readLogTail)                                                 *)
TailExact ==
    \A r \in Readers : reader[r].phase = "done" =>
        LET rd == reader[r]
            passing == Passing(Lines(SubSeq(log, 1, rd.size)), rd.filters)
            surplus == Len(passing) - rd.filters.limit
        IN  rd.entries = SubSeq(passing, IF surplus > 0 THEN surplus + 1 ELSE 1, Len(passing))
=============================================================================
