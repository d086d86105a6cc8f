------------------------------ MODULE EventLog ------------------------------
(* The event log: EventJournal of crates/fractald/src/main.rs.             *)
(*                                                                         *)
(* A line of the file is [seq, whole]: the number its first field parses   *)
(* to, or NoSeq, and whether the whole line was written.  A crash in the   *)
(* middle of a write leaves a prefix of the line: of its number may be     *)
(* left nothing, some digits, or all of them.                              *)
EXTENDS Walk, FiniteSetsExt

CONSTANTS MaxSequence,  \* stands for u64::MAX
          Base          \* of the digits a number is written with

ASSUME EventLogAssumption == MaxSequence \in Nat /\ Base \in Nat \ {0, 1}

NoSeq == -1

event_sequence(line) == line.seq

WholeLine(n) == [seq |-> n, whole |-> TRUE]

\* What a torn write of event n may leave.
TornLines(n) ==
    {[seq |-> p, whole |-> FALSE] :
        p \in {NoSeq, n} \cup (IF n >= Base THEN {n \div Base} ELSE {})}

saturating_succ(n) == IF n >= MaxSequence THEN MaxSequence ELSE n + 1

\* EventJournal::open: one more than the largest number in the file.
OpenSequence(log) ==
    LET seqs == {event_sequence(log[i]) : i \in 1 .. Len(log)} \ {NoSeq}
    IN  IF seqs = {} THEN 0 ELSE saturating_succ(Max(seqs))

\* Mutant: the new line runs on after half a line.
append_on(log, line) ==
    IF log # << >> /\ ~ log[Len(log)].whole THEN log ELSE Append(log, line)

\* A torn last line is closed with a separator before the new one.
append(log, line) == Append(log, line)

\* The last max lines stay; the file is replaced by a rename.
compact_if_needed(log, max) ==
    IF Len(log) > max THEN SubSeq(log, Len(log) - max + 1, Len(log)) ELSE log

events_since(log, since) ==
    LET Each(kept, line) ==
            IF event_sequence(line) # NoSeq /\ event_sequence(line) >= since
            THEN Append(kept, line) ELSE kept
    IN  Walk(Each, << >>, log)

(* ------------------------------ properties ----------------------------- *)

\* The events of the log are numbered upwards, across crashes in the middle
\* of a line, restarts and compactions, and the next number is a new one.
NumberedInOrder(log, next) ==
    LET whole == {i \in 1 .. Len(log) : log[i].whole}
        Before(m, n) == m < n \/ n = MaxSequence
    IN  \A i \in whole :
            /\ \A j \in whole : i < j => Before(log[i].seq, log[j].seq)
            /\ Before(log[i].seq, next)
=============================================================================
