----------------------------- MODULE AuditChain -----------------------------
(***************************************************************************)
(* The hash-chained audit log of audit/immutable_logger.py: the file, the   *)
(* chain state each worker process keeps in memory, restarts, failing       *)
(* writes, and what verify_chain answers.  audit/logger.py appends its own  *)
(* lines to the same AUDIT_LOG_PATH, and its FileHandler has created the    *)
(* file by the time the first entry is logged.                              *)
(*                                                                         *)
(* A hash is a number: 0 is "GENESIS", every contents that is hashed takes  *)
(* the next number (SHA-256 is taken as injective, and every entry as       *)
(* distinct), and -1 stands for a field that is not there.  `intact` says   *)
(* whether the entry still has the contents its entry_hash was computed     *)
(* from.  No key goes into a hash: whoever edits a line can compute it.     *)
(***************************************************************************)
EXTENDS Integers, Sequences, SequencesExt

CONSTANTS
  Processes,          \* worker processes, each with a logger singleton
  WriteFaults,        \* how an append may fail: "nothing", "torn", "unsynced"
  MaxLines,           \* how long the file grows (a bound)
  MaxTampers          \* how often somebody tampers with it (a bound)

ASSUME AuditAssumption ==
  /\ WriteFaults \subseteq {"nothing", "torn", "unsynced"}
  /\ MaxLines \in Nat
  /\ MaxTampers \in Nat

VARIABLES
  file,               \* the lines of the file
  torn,               \* the file ends in a fragment that has no newline
  loaded,             \* loaded[p]: _initialized
  sequence,           \* sequence[p]: _sequence
  prevHash,           \* prevHash[p]: _prev_hash
  hashes,             \* how many contents were hashed and written
  acked,              \* history: hashes of the entries whose log() returned
  upsets,             \* history: kinds of write fault, and "plain" for a plain line
  tampers,            \* history: how often somebody changed or removed lines
  unseen,             \* history: only the end of the file was tampered with, and
                      \* no process that knew that end has logged since
  knowing             \* history: the processes that ran then and have run since

vars == <<file, torn, loaded, sequence, prevHash, hashes, acked, upsets, tampers, unseen,
          knowing>>
chainState == <<loaded, sequence, prevHash>>
tampering == <<tampers, unseen, knowing>>

Genesis == 0
Absent == -1

Line(type, seq, prev, hash) ==
  [type |-> type, seq |-> seq, prev |-> prev, hash |-> hash, intact |-> type = "chained"]

PlainLine == Line("plain", 0, Absent, Absent)
JunkLine == Line("junk", 0, Absent, Absent)

\* A line written after a fragment ends up in the fragment's line.
Appended(line) ==
  file' = Append(file, IF torn THEN JunkLine ELSE line)

Init ==
  /\ file = <<>>
  /\ torn = FALSE
  /\ loaded = [p \in Processes |-> FALSE]
  /\ sequence = [p \in Processes |-> 0]
  /\ prevHash = [p \in Processes |-> Genesis]
  /\ hashes = 0
  /\ acked = {}
  /\ upsets = {}
  /\ tampers = 0
  /\ unseen = FALSE
  /\ knowing = {}

Unreadable == torn \/ \E i \in DOMAIN file : file[i].type = "junk"

\* initialize() on the first entry after a start: resume from the last line,
\* or start a fresh chain if any line cannot be parsed.
Resume(p, seq, prev) ==
  /\ ~loaded[p]
  /\ loaded' = [loaded EXCEPT ![p] = TRUE]
  /\ sequence' = [sequence EXCEPT ![p] = seq]
  /\ prevHash' = [prevHash EXCEPT ![p] = prev]
  /\ UNCHANGED <<file, torn, hashes, acked, upsets, tampering>>

Fresh == Unreadable \/ file = <<>>

HashOr(line, default) == IF line.hash = Absent THEN default ELSE line.hash

Load_SameSequence(p) ==
  IF Fresh THEN Resume(p, 0, Genesis)
  ELSE Resume(p, Last(file).seq, HashOr(Last(file), Genesis))

Load_NoDefault(p) ==
  IF Fresh THEN Resume(p, 0, Genesis) ELSE Resume(p, Last(file).seq + 1, Last(file).hash)

Load(p) ==
  IF Fresh THEN Resume(p, 0, Genesis)
  ELSE Resume(p, Last(file).seq + 1, HashOr(Last(file), Genesis))

Entry(p) == Line("chained", sequence[p], prevHash[p], hashes + 1)

Log_PrevNotAdvanced(p) ==
  /\ loaded[p] /\ Len(file) < MaxLines
  /\ Appended(Entry(p)) /\ torn' = FALSE
  /\ hashes' = hashes + 1 /\ acked' = acked \cup {hashes + 1}
  /\ sequence' = [sequence EXCEPT ![p] = @ + 1]
  /\ UNCHANGED <<loaded, prevHash, upsets, tampering>>

\* log(): the entry is in the file, then the chain state moves on.
Log(p) ==
  /\ loaded[p] /\ Len(file) < MaxLines
  /\ Appended(Entry(p))
  /\ torn' = FALSE
  /\ hashes' = hashes + 1
  /\ acked' = acked \cup {hashes + 1}
  /\ sequence' = [sequence EXCEPT ![p] = @ + 1]
  /\ prevHash' = [prevHash EXCEPT ![p] = hashes + 1]
  /\ unseen' = (unseen /\ p \notin knowing)
  /\ UNCHANGED <<loaded, upsets, tampers, knowing>>

LogRaises_Swallowed(p) ==
  /\ loaded[p] /\ "nothing" \in WriteFaults /\ hashes < MaxLines
  /\ hashes' = hashes + 1 /\ acked' = acked \cup {hashes + 1}
  /\ UNCHANGED <<file, torn, chainState, upsets, tampering>>

\* log() raises and the chain state stays: nothing was written, or a part of
\* the line was, or all of it was and fsync failed.
LogRaises(p) ==
  /\ loaded[p] /\ Len(file) < MaxLines
  /\ \/ /\ "nothing" \in WriteFaults
        /\ UNCHANGED <<file, torn, hashes, upsets>>
     \/ /\ "torn" \in WriteFaults
        /\ torn' = TRUE
        /\ upsets' = upsets \cup {"torn"}
        /\ UNCHANGED <<file, hashes>>
     \/ /\ "unsynced" \in WriteFaults
        /\ Appended(Entry(p))
        /\ torn' = FALSE
        /\ hashes' = hashes + 1
        /\ upsets' = upsets \cup {"unsynced"}
  /\ UNCHANGED <<chainState, acked, tampering>>

\* audit_log() of audit/logger.py: a line without hashes.
PlainLog ==
  /\ Len(file) < MaxLines
  /\ Appended(PlainLine)
  /\ torn' = FALSE
  /\ upsets' = upsets \cup {"plain"}
  /\ UNCHANGED <<chainState, hashes, acked, tampering>>

\* The process dies and is started again; it may have been writing.
Restart(p) ==
  /\ loaded[p]
  /\ loaded' = [loaded EXCEPT ![p] = FALSE]
  /\ sequence' = [sequence EXCEPT ![p] = 0]
  /\ prevHash' = [prevHash EXCEPT ![p] = Genesis]
  /\ \/ UNCHANGED <<torn, upsets>>
     \/ /\ "torn" \in WriteFaults
        /\ torn' = TRUE
        /\ upsets' = upsets \cup {"torn"}
  /\ knowing' = knowing \ {p}
  /\ UNCHANGED <<file, hashes, acked, tampers, unseen>>

\* Somebody tampers with the file; `end` says that no line below names what changed.
Tamper(end) ==
  /\ tampers < MaxTampers
  /\ tampers' = tampers + 1
  /\ unseen' = end
  /\ knowing' = IF end THEN {p \in Processes : loaded[p]} ELSE {}
  /\ UNCHANGED <<torn, chainState, acked, upsets>>

\* A line gets other contents, or loses its hash; or it gets other contents and
\* the hash of these.
Alter(i) ==
  /\ file[i].type = "chained"
  /\ \/ /\ \E h \in {file[i].hash, Absent} :
             file' = [file EXCEPT ![i].intact = FALSE, ![i].hash = h]
        /\ hashes' = hashes
        /\ Tamper(FALSE)
     \/ /\ file' = [file EXCEPT ![i].intact = TRUE, ![i].hash = hashes + 1]
        /\ hashes' = hashes + 1
        /\ Tamper(i = Len(file))

\* The lines from i to j are taken out, which cuts the file off when j is the last.
TakeOut(i, j) ==
  /\ i <= j
  /\ file' = SubSeq(file, 1, i - 1) \o SubSeq(file, j + 1, Len(file))
  /\ hashes' = hashes
  /\ Tamper(j = Len(file))

Next ==
  \/ \E p \in Processes : Load(p) \/ Log(p) \/ LogRaises(p) \/ Restart(p)
  \/ PlainLog
  \/ \E i \in DOMAIN file : Alter(i) \/ \E j \in DOMAIN file : TakeOut(i, j)

Spec == Init /\ [][Next]_vars
-----------------------------------------------------------------------------
(* verify_chain, which reads the file and nothing else.                     *)

\* prev_hash as verify_chain holds it when it comes to line i: the entry_hash
\* of the nearest line above that could be parsed.
Expected(i) ==
  LET above == {j \in 1..(i - 1) : file[j].type # "junk"}
  IN  IF above = {} THEN Genesis
      ELSE file[CHOOSE j \in above : \A k \in above : k <= j].hash

Sound_HashUnchecked(i) == file[i].type = "chained" /\ file[i].prev = Expected(i)

\* A line that can be parsed, whose hash is that of its contents, and that
\* names the hash of the line before.
Sound(i) ==
  /\ file[i].type = "chained"
  /\ file[i].intact
  /\ file[i].prev = Expected(i)

Valid == ~torn /\ \A i \in DOMAIN file : Sound(i)
-----------------------------------------------------------------------------
Lines == [type : {"chained", "plain", "junk"}, seq : Nat, prev : Nat \cup {Absent},
          hash : Nat \cup {Absent}, intact : BOOLEAN]

\* The type invariant of the file and the chain states.
TypeOK ==
  /\ file \in Seq(Lines)
  /\ torn \in BOOLEAN
  /\ loaded \in [Processes -> BOOLEAN]
  /\ sequence \in [Processes -> Nat]
  /\ prevHash \in [Processes -> Nat]
  /\ hashes \in Nat
  /\ acked \subseteq 1..hashes
  /\ upsets \subseteq {"torn", "unsynced", "plain"}
  /\ tampers \in 0..MaxTampers
  /\ unseen \in BOOLEAN
  /\ knowing \subseteq Processes

\* Every chain a logger writes verifies, over any number of restarts and of
\* writes that failed without leaving a trace (test_immutable_audit.py:14-15).
ChainVerifies == tampers = 0 /\ upsets = {} => Valid

\* The entries carry their place in the file as sequence number, over restarts
\* and failed writes: initialize() continues where the file ends.
NumberedInOrder ==
  tampers = 0 /\ upsets = {} => \A i \in DOMAIN file : file[i].seq = i - 1

\* One modification of the file breaks the chain, and the break stays over every
\* entry and restart that follows.  If it left a file that is sound in itself, cut
\* off or with the last line rewritten and hashed again, the break comes with the
\* next entry of a process that was running then, and never if it restarts first.
\* (immutable_logger.py:46-48 says "Modifying any entry causes a chain break".  A
\* second modification can hide the first.)
TamperingShows == tampers = 1 /\ upsets = {} /\ ~unseen => ~Valid

\* An entry whose log() returned is in the file, unless a fragment swallowed it.
AcknowledgedIsLogged ==
  tampers = 0 /\ "torn" \notin upsets =>
    \A h \in acked : \E i \in DOMAIN file : file[i].hash = h
=============================================================================
