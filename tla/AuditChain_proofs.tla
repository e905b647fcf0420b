-------------------------- MODULE AuditChain_proofs -------------------------
(***************************************************************************)
(* Theorems about the audit chain of one process, for a file of any length, *)
(* any number of restarts and any number of writes that fail and leave      *)
(* nothing behind, and about acknowledged entries for any processes.        *)
(*                                                                         *)
(* That the file verifies is not inductive alone: what log() appends links  *)
(* to the hash the process keeps in memory, so the memory of a process that *)
(* has run initialize() must mirror the end of the file, and what           *)
(* initialize() reads there must be enough to mirror it again.              *)
(***************************************************************************)
EXTENDS AuditChain, SequenceTheorems, TLAPS

\* The hash that ends the first n lines of the file.
EndHash(n) == IF n = 0 THEN Genesis ELSE file[n].hash

\* Line i is an entry as log() wrote it, with its place and its link.
Linked(i) ==
  /\ file[i].type = "chained" /\ file[i].intact
  /\ file[i].seq = i - 1
  /\ file[i].hash \in Nat
  /\ file[i].prev = EndHash(i - 1)

\* The chain state of a process is that of the end of the file.
Mirrors(p) == sequence[p] = Len(file) /\ prevHash[p] = EndHash(Len(file))

Undisturbed == tampers = 0 /\ upsets = {}

ChainInv ==
  Undisturbed =>
    /\ ~torn
    /\ \A i \in 1..Len(file) : Linked(i)
    /\ \A p \in Processes : loaded[p] => Mirrors(p)

IInv == TypeOK /\ ChainInv

OneWriter == \A p, q \in Processes : p = q
-----------------------------------------------------------------------------
\* An append keeps the lines there were, and so their links.
LEMMA AppendKeeps ==
  ASSUME TypeOK, NEW line, file' = Append(file, line)
  PROVE  /\ Len(file') = Len(file) + 1
         /\ file'[Len(file) + 1] = line
         /\ \A i \in 1..Len(file) : file'[i] = file[i]
         /\ \A i \in 0..Len(file) : EndHash(i)' = EndHash(i)
         /\ \A i \in 1..Len(file) : Linked(i)' <=> Linked(i)
  <1>1. Len(file) \in Nat /\ file = [i \in 1..Len(file) |-> file[i]]
    BY DEF TypeOK
  <1>2. /\ Len(file') = Len(file) + 1
        /\ file'[Len(file) + 1] = line
        /\ \A i \in 1..Len(file) : file'[i] = file[i]
    BY DEF TypeOK
  <1>3. \A i \in 0..Len(file) : EndHash(i)' = EndHash(i)
    BY <1>1, <1>2 DEF EndHash
  <1>4. \A i \in 1..Len(file) : Linked(i)' <=> Linked(i)
    BY <1>1, <1>2, <1>3 DEF Linked
  <1> QED BY <1>2, <1>3, <1>4

LEMMA LineTypes ==
  ASSUME TypeOK
  PROVE  JunkLine \in Lines /\ PlainLine \in Lines /\ \A p \in Processes : Entry(p) \in Lines
  BY DEF TypeOK, JunkLine, PlainLine, Entry, Line, Lines, Absent

LEMMA AppendedType ==
  ASSUME TypeOK, NEW line \in Lines, Appended(line)
  PROVE  file' \in Seq(Lines)
  BY LineTypes DEF Appended, TypeOK

LEMMA LoadType ==
  ASSUME TypeOK, NEW p \in Processes, Load(p)
  PROVE  TypeOK'
  <1>1. PICK seq \in Nat, prev \in Nat : Resume(p, seq, prev)
    <2>1. CASE Fresh
      BY <2>1 DEF Load, Genesis
    <2>2. CASE ~Fresh
      <3>1. Last(file) \in Lines
        BY <2>2 DEF Fresh, Last, TypeOK
      <3>2. Last(file).seq + 1 \in Nat /\ HashOr(Last(file), Genesis) \in Nat
        BY <3>1 DEF HashOr, Genesis, Lines
      <3> QED BY <2>2, <3>2 DEF Load
    <2> QED BY <2>1, <2>2
  <1>2. loaded' \in [Processes -> BOOLEAN]
    <2>1. loaded \in [Processes -> BOOLEAN] /\ loaded' = [loaded EXCEPT ![p] = TRUE]
      BY <1>1 DEF Resume, TypeOK
    <2> QED BY <2>1
  <1>3. sequence' \in [Processes -> Nat] /\ prevHash' \in [Processes -> Nat]
    BY <1>1 DEF Resume, TypeOK
  <1> QED BY <1>1, <1>2, <1>3 DEF Resume, tampering, TypeOK

LEMMA LogType ==
  ASSUME TypeOK, NEW p \in Processes, Log(p)
  PROVE  TypeOK'
  <1>1. file' \in Seq(Lines)
    <2>1. Entry(p) \in Lines /\ Appended(Entry(p))
      BY LineTypes DEF Log
    <2> QED BY <2>1, AppendedType
  <1>2. hashes' \in Nat /\ acked' \subseteq 1..hashes'
    BY DEF Log, TypeOK
  <1>3. /\ sequence' \in [Processes -> Nat] /\ prevHash' \in [Processes -> Nat]
        /\ UNCHANGED <<loaded, upsets, tampers, knowing>> /\ unseen' \in BOOLEAN
    BY DEF Log, TypeOK
  <1>4. torn' \in BOOLEAN
    BY DEF Log
  <1> QED BY <1>1, <1>2, <1>3, <1>4 DEF TypeOK

LEMMA LogRaisesType ==
  ASSUME TypeOK, NEW p \in Processes, LogRaises(p)
  PROVE  TypeOK'
  <1>1. file' \in Seq(Lines)
    <2>1. Entry(p) \in Lines /\ (file' = file \/ Appended(Entry(p)))
      BY LineTypes DEF LogRaises
    <2>2. CASE file' = file
      BY <2>2 DEF TypeOK
    <2> QED BY <2>1, <2>2, AppendedType
  <1>2. hashes' \in Nat /\ acked' \subseteq 1..hashes'
    BY DEF LogRaises, TypeOK
  <1>3. /\ UNCHANGED chainState /\ UNCHANGED tampering
        /\ upsets' \subseteq {"torn", "unsynced", "plain"}
    BY DEF LogRaises, TypeOK
  <1>4. torn' \in BOOLEAN
    BY DEF LogRaises, TypeOK
  <1> QED BY <1>1, <1>2, <1>3, <1>4 DEF chainState, tampering, TypeOK

LEMMA PlainLogType ==
  ASSUME TypeOK, PlainLog
  PROVE  TypeOK'
  <1>1. file' \in Seq(Lines)
    BY LineTypes, AppendedType DEF PlainLog
  <1> QED BY <1>1 DEF PlainLog, chainState, tampering, TypeOK

LEMMA RestartType ==
  ASSUME TypeOK, NEW p \in Processes, Restart(p)
  PROVE  TypeOK'
  BY DEF Restart, Genesis, TypeOK

\* Every act of tampering changes the file, and its history with it.
Tampered == \/ \E i \in DOMAIN file : Alter(i)
            \/ \E i, j \in DOMAIN file : TakeOut(i, j)

LEMMA TamperedIs ==
  ASSUME TypeOK, Tampered
  PROVE  /\ tampers' = tampers + 1 /\ tampers \in Nat /\ tampers' \in 0..MaxTampers
         /\ UNCHANGED <<torn, acked, upsets>> /\ UNCHANGED chainState
  <1>1. PICK end : Tamper(end)
    BY DEF Tampered, Alter, TakeOut
  <1> QED BY <1>1, AuditAssumption DEF Tamper, TypeOK

LEMMA AlteredLine ==
  ASSUME TypeOK, NEW i \in DOMAIN file, Alter(i)
  PROVE  \E h \in Nat \cup {Absent}, whole \in BOOLEAN :
           /\ file' = [file EXCEPT ![i] = [file[i] EXCEPT !.intact = whole, !.hash = h]]
           /\ \/ ~whole /\ hashes' = hashes /\ Tamper(FALSE)
              \/ h = hashes + 1 /\ whole /\ hashes' = hashes + 1 /\ Tamper(i = Len(file))
  <1>1. file[i] \in Lines
    BY DEF TypeOK
  <1>2. CASE hashes' = hashes /\ Tamper(FALSE)
             /\ \E h \in {file[i].hash, Absent} :
                  file' = [file EXCEPT ![i].intact = FALSE, ![i].hash = h]
    <2>1. PICK h \in {file[i].hash, Absent} :
            file' = [file EXCEPT ![i] = [file[i] EXCEPT !.intact = FALSE, !.hash = h]]
      BY <1>2
    <2>2. h \in Nat \cup {Absent}
      BY <1>1 DEF Lines
    <2> QED BY <1>2, <2>1, <2>2
  <1>3. CASE hashes' = hashes + 1 /\ Tamper(i = Len(file))
             /\ file' = [file EXCEPT ![i].intact = TRUE, ![i].hash = hashes + 1]
    <2>1. file' = [file EXCEPT ![i] = [file[i] EXCEPT !.intact = TRUE, !.hash = hashes + 1]]
      BY <1>3
    <2>2. hashes + 1 \in Nat
      BY DEF TypeOK
    <2> QED BY <1>3, <2>1, <2>2
  <1> QED BY <1>2, <1>3 DEF Alter

LEMMA AlterType ==
  ASSUME TypeOK, NEW i \in DOMAIN file, Alter(i)
  PROVE  file' \in Seq(Lines) /\ hashes' \in Nat /\ hashes' >= hashes
  <1>1. PICK h \in Nat \cup {Absent}, whole \in BOOLEAN :
           /\ file' = [file EXCEPT ![i] = [file[i] EXCEPT !.intact = whole, !.hash = h]]
           /\ hashes' = hashes \/ hashes' = hashes + 1
    BY AlteredLine
  <1>2. [file[i] EXCEPT !.intact = whole, !.hash = h] \in Lines
    <2>1. file[i] \in Lines
      BY DEF TypeOK
    <2> QED BY <2>1 DEF Lines
  <1> QED BY <1>1, <1>2 DEF TypeOK

LEMMA TamperType ==
  ASSUME TypeOK, Tampered
  PROVE  TypeOK'
  <1>1. file' \in Seq(Lines) /\ hashes' \in Nat /\ hashes' >= hashes
    <2>1. ASSUME NEW i \in DOMAIN file, NEW j \in DOMAIN file, TakeOut(i, j)
          PROVE  file' \in Seq(Lines) /\ hashes' \in Nat /\ hashes' >= hashes
      BY <2>1 DEF TakeOut, TypeOK
    <2> QED BY <2>1, AlterType DEF Tampered
  <1>2. unseen' \in BOOLEAN /\ knowing' \subseteq Processes
    <2>1. PICK end \in BOOLEAN : Tamper(end)
      BY DEF Tampered, Alter, TakeOut
    <2> QED BY <2>1 DEF Tamper
  <1>3. acked \subseteq 1..hashes'
    BY <1>1 DEF TypeOK
  <1> QED BY <1>1, <1>2, <1>3, TamperedIs DEF chainState, TypeOK

LEMMA TypeStep == TypeOK /\ [Next]_vars => TypeOK'
  <1> SUFFICES ASSUME TypeOK, [Next]_vars PROVE TypeOK'
    OBVIOUS
  <1>1. CASE UNCHANGED vars
    BY <1>1 DEF vars, TypeOK
  <1> QED BY <1>1, LoadType, LogType, LogRaisesType, PlainLogType, RestartType, TamperType
          DEF Next, Tampered
-----------------------------------------------------------------------------
(* The chain.                                                               *)

\* initialize() finds in the last line what the process needs to continue.
LEMMA LoadChain ==
  ASSUME IInv, NEW p \in Processes, Load(p), OneWriter
  PROVE  ChainInv'
  <1> SUFFICES ASSUME Undisturbed' PROVE ~torn' /\ (\A i \in 1..Len(file) : Linked(i))'
                                         /\ \A q \in Processes : loaded'[q] => Mirrors(q)'
    BY DEF ChainInv
  <1>1. PICK seq, prev : /\ Resume(p, seq, prev)
                         /\ Fresh => seq = 0 /\ prev = Genesis
                         /\ ~Fresh => /\ seq = Last(file).seq + 1
                                      /\ prev = HashOr(Last(file), Genesis)
    BY DEF Load
  <1>2. Undisturbed /\ UNCHANGED <<file, torn>>
    BY <1>1 DEF Undisturbed, Resume, tampering
  <1>3. ~torn /\ \A i \in 1..Len(file) : Linked(i)
    BY <1>2 DEF IInv, ChainInv
  <1>4. ~Unreadable
    <2>1. DOMAIN file = 1..Len(file)
      BY DEF IInv, TypeOK
    <2> QED BY <1>3, <2>1 DEF Unreadable, Linked
  <1>5. seq = Len(file) /\ prev = EndHash(Len(file))
    <2>1. CASE file = <<>>
      BY <1>1, <2>1 DEF Fresh, EndHash
    <2>2. CASE file # <<>>
      <3>1. Len(file) \in 1..Len(file) /\ Len(file) # 0
        BY <2>2 DEF IInv, TypeOK
      <3>2. Linked(Len(file)) /\ ~Fresh
        BY <1>3, <1>4, <2>2, <3>1 DEF Fresh
      <3> QED BY <1>1, <3>1, <3>2 DEF Linked, EndHash, Last, HashOr, Absent
    <2> QED BY <2>1, <2>2
  <1>6. \A q \in Processes : Mirrors(q)'
    <2>1. sequence'[p] = seq /\ prevHash'[p] = prev
      BY <1>1 DEF Resume, IInv, TypeOK
    <2>2. EndHash(Len(file))' = EndHash(Len(file))
      BY <1>2 DEF EndHash
    <2> QED BY <1>2, <1>5, <2>1, <2>2 DEF Mirrors, OneWriter
  <1>7. (\A i \in 1..Len(file) : Linked(i))'
    BY <1>2, <1>3 DEF Linked, EndHash
  <1> QED BY <1>2, <1>3, <1>6, <1>7

\* log() links its entry to the end of the file and moves the memory along.
LEMMA LogChain ==
  ASSUME IInv, NEW p \in Processes, Log(p), OneWriter
  PROVE  ChainInv'
  <1> SUFFICES ASSUME Undisturbed' PROVE ~torn' /\ (\A i \in 1..Len(file) : Linked(i))'
                                         /\ \A q \in Processes : loaded'[q] => Mirrors(q)'
    BY DEF ChainInv
  <1> DEFINE n == Len(file)
  <1>0. n \in Nat
    BY DEF IInv, TypeOK
  <1>1. Undisturbed
    BY DEF Undisturbed, Log
  <1>2. /\ ~torn /\ \A i \in 1..n : Linked(i)
        /\ Mirrors(p)
    BY <1>1 DEF IInv, ChainInv, Log
  <1>3. PICK line : line = Entry(p)
    OBVIOUS
  <1>4. file' = Append(file, line)
    BY <1>2, <1>3 DEF Log, Appended
  <1>5. /\ Len(file') = n + 1 /\ file'[n + 1] = line
        /\ \A i \in 0..n : EndHash(i)' = EndHash(i)
        /\ \A i \in 1..n : Linked(i)' <=> Linked(i)
    BY <1>4, AppendKeeps DEF IInv
  <1>6. /\ line.type = "chained" /\ line.intact /\ line.seq = n
        /\ line.prev = EndHash(n) /\ line.hash = hashes + 1
    BY <1>2, <1>3 DEF Entry, Line, Mirrors
  <1>7. hashes + 1 \in Nat
    BY DEF IInv, TypeOK
  <1>8. PICK m : m = n + 1
    OBVIOUS
  <1>9. Linked(m)'
    <2>1. m - 1 = n /\ n \in 0..n
      BY <1>0, <1>8
    <2>2. EndHash(m - 1)' = EndHash(n)
      BY <1>5, <2>1
    <2> QED BY <1>5, <1>6, <1>7, <1>8, <2>1, <2>2 DEF Linked
  <1>10. (\A i \in 1..Len(file) : Linked(i))'
    <2>1. \A i \in 1..Len(file') : i = m \/ i \in 1..n
      BY <1>0, <1>5, <1>8
    <2> QED BY <1>2, <1>5, <1>9, <2>1
  <1>11. \A q \in Processes : Mirrors(q)'
    <2>1. sequence'[p] = sequence[p] + 1 /\ prevHash'[p] = hashes + 1
      BY DEF Log, IInv, TypeOK
    <2>2. EndHash(m)' = hashes + 1
      BY <1>0, <1>5, <1>6, <1>8 DEF EndHash
    <2> QED BY <1>2, <1>5, <1>8, <2>1, <2>2 DEF Mirrors, OneWriter
  <1> QED BY <1>10, <1>11 DEF Log

\* The other steps change nothing the chain rests on, or disturb it.
LEMMA OtherChain ==
  ASSUME IInv,
         \/ \E p \in Processes : LogRaises(p) \/ Restart(p)
         \/ PlainLog
         \/ Tampered
         \/ UNCHANGED vars
  PROVE  ChainInv'
  <1> SUFFICES ASSUME Undisturbed' PROVE ChainInv'
    BY DEF ChainInv
  <1>1. /\ Undisturbed /\ UNCHANGED <<file, torn>>
        /\ \/ UNCHANGED chainState
           \/ \E p \in Processes : Restart(p)
    <2>1. ASSUME NEW p \in Processes, LogRaises(p)
          PROVE  Undisturbed /\ UNCHANGED <<file, torn>> /\ UNCHANGED chainState
      BY <2>1 DEF Undisturbed, LogRaises, tampering
    <2>2. ASSUME NEW p \in Processes, Restart(p)
          PROVE  Undisturbed /\ UNCHANGED <<file, torn>>
      BY <2>2 DEF Undisturbed, Restart
    <2>3. ~PlainLog
      BY DEF Undisturbed, PlainLog
    <2>4. ~Tampered
      BY TamperedIs DEF Undisturbed, IInv
    <2>5. CASE UNCHANGED vars
      BY <2>5 DEF Undisturbed, vars, chainState
    <2> QED BY <2>1, <2>2, <2>3, <2>4, <2>5
  <1>2. \A i : Linked(i)' <=> Linked(i)
    BY <1>1 DEF Linked, EndHash
  <1>3. \A q \in Processes : loaded'[q] => loaded[q] /\ (Mirrors(q)' <=> Mirrors(q))
    <2>1. CASE UNCHANGED chainState
      BY <1>1, <2>1 DEF chainState, Mirrors, EndHash
    <2>2. ASSUME NEW p \in Processes, Restart(p)
          PROVE  \A q \in Processes : loaded'[q] => loaded[q] /\ (Mirrors(q)' <=> Mirrors(q))
      BY <1>1, <2>2 DEF Restart, Mirrors, EndHash, IInv, TypeOK
    <2> QED BY <1>1, <2>1, <2>2
  <1> QED BY <1>1, <1>2, <1>3 DEF IInv, ChainInv

LEMMA InitInv == Init => IInv
  <1> SUFFICES ASSUME Init PROVE IInv
    OBVIOUS
  <1>1. TypeOK
    <2>1. torn \in BOOLEAN /\ loaded \in [Processes -> BOOLEAN]
      BY DEF Init
    <2>2. sequence \in [Processes -> Nat] /\ prevHash \in [Processes -> Nat]
      BY DEF Init, Genesis
    <2>3. file \in Seq(Lines) /\ hashes \in Nat /\ acked \subseteq 1..hashes
          /\ upsets \subseteq {"torn", "unsynced", "plain"} /\ tampers \in 0..MaxTampers
      BY AuditAssumption DEF Init
    <2>4. unseen \in BOOLEAN /\ knowing \subseteq Processes
      BY DEF Init
    <2> QED BY <2>1, <2>2, <2>3, <2>4 DEF TypeOK
  <1>2. ~torn /\ 1..Len(file) = {} /\ \A p \in Processes : ~loaded[p]
    BY DEF Init
  <1> QED BY <1>1, <1>2 DEF IInv, ChainInv

LEMMA NextInv == OneWriter /\ IInv /\ [Next]_vars => IInv'
  BY TypeStep, LoadChain, LogChain, OtherChain DEF IInv, Next, Tampered

LEMMA AlwaysIInv ==
  ASSUME OneWriter
  PROVE  Spec => []IInv
  <1>1. IInv /\ [Next]_vars => IInv'
    BY NextInv
  <1> QED BY <1>1, InitInv, PTL DEF Spec

\* The file and the chain states keep their types, for any number of processes.
THEOREM ChainTyped == Spec => []TypeOK
  <1>1. Init => TypeOK
    BY InitInv DEF IInv
  <1> QED BY <1>1, TypeStep, PTL DEF Spec

\* Where every line can be parsed, verify_chain expects the hash of the line above.
LEMMA ExpectedIsEnd ==
  ASSUME TypeOK, \A j \in 1..Len(file) : file[j].type # "junk", NEW i \in 1..Len(file)
  PROVE  Expected(i) = EndHash(i - 1)
  <1> DEFINE above == {j \in 1..(i - 1) : file[j].type # "junk"}
  <1>1. above = 1..(i - 1) /\ i \in Nat /\ i - 1 \in Nat
    BY DEF TypeOK
  <1>2. CASE i = 1
    BY <1>1, <1>2 DEF Expected, EndHash
  <1>3. CASE i # 1
    <2>1. i - 1 \in above /\ \A k \in above : k <= i - 1
      BY <1>1, <1>3
    <2>2. \A j \in above : (\A k \in above : k <= j) => j = i - 1
      BY <1>1, <2>1
    <2>3. (CHOOSE j \in above : \A k \in above : k <= j) = i - 1
      BY <2>1, <2>2
    <2> QED BY <1>1, <1>3, <2>1, <2>3 DEF Expected, EndHash
  <1> QED BY <1>2, <1>3

LEMMA LinkedIsSound ==
  ASSUME TypeOK, \A i \in 1..Len(file) : Linked(i), NEW i \in 1..Len(file)
  PROVE  Sound(i)
  <1>1. \A j \in 1..Len(file) : file[j].type # "junk"
    BY DEF Linked
  <1>2. Expected(i) = EndHash(i - 1)
    BY <1>1, ExpectedIsEnd
  <1> QED BY <1>2 DEF Sound, Linked

\* A chain with one writer verifies, however long it grows and however often
\* the process restarts or a write fails and leaves nothing behind.
THEOREM Verifies ==
  ASSUME OneWriter
  PROVE  Spec => []ChainVerifies
  <1>1. IInv => ChainVerifies
    <2> SUFFICES ASSUME IInv, Undisturbed PROVE Valid
      BY DEF ChainVerifies, Undisturbed
    <2>1. TypeOK /\ ~torn /\ (\A i \in 1..Len(file) : Linked(i)) /\ DOMAIN file = 1..Len(file)
      BY DEF IInv, ChainInv, TypeOK
    <2> QED BY <2>1, LinkedIsSound DEF Valid
  <1> QED BY <1>1, AlwaysIInv, PTL

\* Under the same conditions every entry carries its place in the file.
THEOREM Numbered ==
  ASSUME OneWriter
  PROVE  Spec => []NumberedInOrder
  <1>1. IInv => NumberedInOrder
    BY DEF IInv, ChainInv, TypeOK, Undisturbed, NumberedInOrder, Linked
  <1> QED BY <1>1, AlwaysIInv, PTL
-----------------------------------------------------------------------------
(* Tampering.  A modification leaves a break, a line that was altered or one *)
(* that does not name the hash above it, and what is appended later does not *)
(* reach it; or it left the end of the file sound, and then the processes    *)
(* that ran at that time hold another hash than the one the file ends with.  *)
(* For lines that were taken out this needs that the lines around them had   *)
(* different hashes, so the invariant also tells which they were.            *)

AllChained == \A i \in 1..Len(file) : file[i].type = "chained"

HashIsPlace == hashes = Len(file) /\ \A i \in 1..Len(file) : file[i].hash = i

Broken(i) == ~file[i].intact \/ file[i].prev # EndHash(i - 1)

\* What a process that knew the end of the file will break the chain with.
Waiting == \A p \in knowing : loaded[p] /\ prevHash[p] # EndHash(Len(file))

Breaks == IF unseen THEN Waiting ELSE \E i \in 1..Len(file) : Broken(i)

TamperInv ==
  upsets = {} /\ tampers <= 1 =>
    /\ ~torn /\ AllChained
    /\ tampers = 0 => HashIsPlace
    /\ tampers = 1 => Breaks

\* log() places its hash and moves no break.
LEMMA LogTamper ==
  ASSUME IInv, TamperInv, OneWriter, NEW p \in Processes, Log(p)
  PROVE  TamperInv'
  <1> DEFINE n == Len(file)
  <1> SUFFICES ASSUME upsets' = {} /\ tampers' <= 1
               PROVE  /\ ~torn' /\ AllChained'
                      /\ tampers' = 0 => HashIsPlace'
                      /\ tampers' = 1 => Breaks'
    BY DEF TamperInv
  <1>0. n \in Nat /\ tampers' = tampers /\ upsets = {} /\ tampers <= 1 /\ ~torn'
    BY DEF Log, IInv, TypeOK
  <1>1. ~torn /\ AllChained
    BY <1>0 DEF TamperInv
  <1>2. PICK line : line = Entry(p)
    OBVIOUS
  <1>3. line.type = "chained" /\ line.hash = hashes + 1 /\ file' = Append(file, line)
    BY <1>1, <1>2 DEF Log, Appended, Entry, Line
  <1>4. /\ Len(file') = n + 1 /\ file'[n + 1] = line
        /\ \A i \in 1..n : file'[i] = file[i]
        /\ \A i \in 0..n : EndHash(i)' = EndHash(i)
    BY <1>3, AppendKeeps DEF IInv
  <1>5. \A i \in 1..(n + 1) : i = n + 1 \/ i \in 1..n
    BY <1>0
  <1>6. AllChained'
    BY <1>1, <1>3, <1>4, <1>5 DEF AllChained
  <1>7. tampers = 0 => HashIsPlace'
    <2> SUFFICES ASSUME tampers = 0 PROVE HashIsPlace'
      OBVIOUS
    <2>1. HashIsPlace
      BY <1>0 DEF TamperInv
    <2>2. hashes' = hashes + 1
      BY DEF Log
    <2> QED BY <1>3, <1>4, <1>5, <2>1, <2>2 DEF HashIsPlace
  <1>8. ASSUME tampers = 1
        PROVE  Breaks'
    <2>1. CASE ~unseen
      <3>1. PICK i \in 1..n : Broken(i)
        BY <1>0, <1>8, <2>1 DEF TamperInv, Breaks
      <3>2. i \in 1..(n + 1) /\ i - 1 \in 0..n
        BY <1>0
      <3>3. file'[i] = file[i] /\ EndHash(i - 1)' = EndHash(i - 1)
        BY <1>4, <3>2
      <3>4. Broken(i)'
        BY <3>1, <3>3 DEF Broken
      <3>5. ~unseen'
        BY <2>1 DEF Log
      <3> QED BY <1>4, <3>2, <3>4, <3>5 DEF Breaks
    <2>2. CASE unseen /\ p \notin knowing
      <3>1. knowing = {} /\ knowing' = {}
        BY <2>2 DEF OneWriter, Log, IInv, TypeOK
      <3>2. unseen'
        BY <2>2 DEF Log
      <3> QED BY <3>1, <3>2 DEF Breaks, Waiting
    <2>3. CASE unseen /\ p \in knowing
      <3>1. prevHash[p] # EndHash(n)
        BY <1>0, <1>8, <2>3 DEF TamperInv, Breaks, Waiting
      <3>2. line.prev = prevHash[p]
        BY <1>2 DEF Entry, Line
      <3>3. PICK m : m = n + 1
        OBVIOUS
      <3>4. EndHash(m - 1)' = EndHash(n)
        <4>1. m - 1 = n /\ n \in 0..n
          BY <1>0, <3>3
        <4> QED BY <1>4, <4>1
      <3>5. Broken(m)'
        BY <1>4, <3>1, <3>2, <3>3, <3>4 DEF Broken
      <3>6. m \in 1..Len(file')
        BY <1>0, <1>4, <3>3
      <3>7. ~unseen'
        BY <2>3 DEF Log
      <3> QED BY <3>5, <3>6, <3>7 DEF Breaks
    <2> QED BY <2>1, <2>2, <2>3
  <1> QED BY <1>0, <1>6, <1>7, <1>8

\* A process that knew how a file ended that now ends otherwise waits with the old hash.
LEMMA OldEndWaits ==
  ASSUME IInv, Undisturbed, HashIsPlace, Tamper(TRUE), Len(file) # 0,
         EndHash(Len(file))' # Len(file)
  PROVE  Waiting'
  <1>1. knowing' = {p \in Processes : loaded[p]} /\ UNCHANGED <<loaded, prevHash>>
    BY DEF Tamper, chainState
  <1>2. EndHash(Len(file)) = Len(file)
    BY DEF EndHash, HashIsPlace, IInv, TypeOK
  <1>3. \A p \in knowing' : loaded[p] /\ prevHash[p] = Len(file)
    BY <1>1, <1>2 DEF IInv, ChainInv, Mirrors
  <1> QED BY <1>1, <1>3 DEF Waiting

\* A line altered alone no longer matches its hash.  Hashed again, it is not what
\* the next line names, or not what the process names next.
LEMMA AlterTamper ==
  ASSUME IInv, TamperInv, NEW i \in DOMAIN file, Alter(i)
  PROVE  TamperInv'
  <1> DEFINE n == Len(file)
  <1> SUFFICES ASSUME upsets' = {} /\ tampers' <= 1
               PROVE  /\ ~torn' /\ AllChained'
                      /\ tampers' = 0 => HashIsPlace'
                      /\ tampers' = 1 => Breaks'
    BY DEF TamperInv
  <1>1. upsets = {} /\ tampers = 0 /\ tampers' = 1 /\ torn' = torn
    BY TamperedIs DEF Tampered, IInv
  <1>2. /\ ~torn /\ AllChained /\ HashIsPlace /\ Undisturbed
        /\ \A j \in 1..n : Linked(j)
    BY <1>1 DEF TamperInv, IInv, ChainInv, Undisturbed
  <1>3. PICK h \in Nat \cup {Absent}, whole \in BOOLEAN :
           /\ file' = [file EXCEPT ![i] = [file[i] EXCEPT !.intact = whole, !.hash = h]]
           /\ \/ ~whole /\ hashes' = hashes /\ Tamper(FALSE)
              \/ h = hashes + 1 /\ whole /\ hashes' = hashes + 1 /\ Tamper(i = Len(file))
    BY AlteredLine DEF IInv
  <1>4. /\ file \in Seq(Lines) /\ i \in 1..n /\ file[i] \in Lines /\ n \in Nat /\ i \in Nat
    BY DEF IInv, TypeOK
  <1>5. /\ Len(file') = n
        /\ \A j \in 1..n : j # i => file'[j] = file[j]
        /\ file'[i] = [file[i] EXCEPT !.intact = whole, !.hash = h]
    BY <1>3, <1>4
  <1>6. file'[i].type = "chained" /\ file'[i].intact = whole /\ file'[i].hash = h
    BY <1>4, <1>5 DEF Alter, Lines
  <1>7. AllChained'
    BY <1>2, <1>5, <1>6 DEF AllChained
  <1>8. Breaks'
    <2>1. CASE ~whole
      <3>1. Broken(i)' /\ i \in 1..Len(file')
        BY <1>4, <1>5, <1>6, <2>1 DEF Broken
      <3>2. ~unseen'
        BY <1>3, <2>1 DEF Tamper
      <3> QED BY <3>1, <3>2 DEF Breaks
    <2>2. CASE whole /\ i # n
      <3>1. h = n + 1 /\ ~unseen'
        BY <1>2, <1>3, <2>2 DEF Tamper, HashIsPlace
      <3>2. PICK m : m = i + 1
        OBVIOUS
      <3>3. m \in 1..n /\ m # i /\ m - 1 = i /\ i # 0
        BY <1>4, <2>2, <3>2
      <3>4. EndHash(m - 1)' = n + 1
        BY <1>6, <3>1, <3>3 DEF EndHash
      <3>5. file'[m].prev = i
        <4>1. file[m].prev = EndHash(i) /\ file'[m] = file[m]
          BY <1>2, <1>5, <3>3 DEF Linked
        <4> QED BY <1>2, <1>4, <3>3, <4>1 DEF EndHash, HashIsPlace
      <3>6. i # n + 1
        BY <1>4
      <3>7. Broken(m)'
        BY <3>4, <3>5, <3>6 DEF Broken
      <3> QED BY <1>5, <3>1, <3>3, <3>7 DEF Breaks
    <2>3. CASE whole /\ i = n
      <3>1. h = n + 1 /\ Tamper(TRUE) /\ unseen'
        BY <1>2, <1>3, <2>3 DEF Tamper, HashIsPlace
      <3>2. n # 0 /\ n + 1 # n
        BY <1>4
      <3>3. EndHash(Len(file))' = n + 1
        BY <1>5, <1>6, <2>3, <3>1, <3>2 DEF EndHash
      <3>4. Waiting'
        BY <1>2, <3>1, <3>2, <3>3, OldEndWaits
      <3> QED BY <3>1, <3>4 DEF Breaks
    <2> QED BY <2>1, <2>2, <2>3
  <1> QED BY <1>1, <1>2, <1>7, <1>8

\* What is left when a stretch is taken out of a sequence.
LEMMA StretchTakenOut ==
  ASSUME NEW S, NEW s \in Seq(S), NEW i \in 1..Len(s), NEW k \in i..Len(s), NEW t,
         t = SubSeq(s, 1, i - 1) \o SubSeq(s, k + 1, Len(s))
  PROVE  /\ Len(t) = (i - 1) + (Len(s) - k)
         /\ \A j \in 1..(i - 1) : t[j] = s[j]
         /\ \A j \in 1..(Len(s) - k) : t[(i - 1) + j] = s[k + j]
  <1> DEFINE n == Len(s)
             front == SubSeq(s, 1, i - 1)
             back == SubSeq(s, k + 1, n)
  <1>1. n \in Nat /\ i \in Nat /\ k \in Nat /\ 1 <= i /\ i <= k /\ k <= n
    OBVIOUS
  <1>2. /\ front \in Seq(S) /\ Len(front) = i - 1
        /\ \A j \in 1..(i - 1) : front[j] = s[j]
    <2>1. \A j \in 1..(i - 1) : s[j] \in S
      BY <1>1
    <2> QED BY <1>1, <2>1, SubSeqProperties
  <1>3. /\ back \in Seq(S) /\ Len(back) = n - k
        /\ \A j \in 1..(n - k) : back[j] = s[k + j]
    <2>1. PICK m \in Nat : m = k + 1
      BY <1>1
    <2>2. \A j \in m..n : s[j] \in S
      BY <1>1, <2>1
    <2>3. PICK u : u = SubSeq(s, m, n)
      OBVIOUS
    <2>4. /\ u \in Seq(S) /\ Len(u) = IF m <= n THEN n - m + 1 ELSE 0
          /\ \A j \in 1..(n - m + 1) : u[j] = s[m + j - 1]
      BY <1>1, <2>1, <2>2, <2>3, SubSeqProperties
    <2>5. n - m + 1 = n - k /\ \A j \in 1..(n - k) : m + j - 1 = k + j
      BY <1>1, <2>1
    <2>6. Len(u) = n - k
      BY <1>1, <2>1, <2>4
    <2>7. u = back
      BY <2>1, <2>3
    <2> QED BY <2>4, <2>5, <2>6, <2>7
  <1> HIDE DEF front, back
  <1>4. /\ Len(front \o back) = Len(front) + Len(back)
        /\ \A j \in 1..(Len(front) + Len(back)) :
             (front \o back)[j] = IF j <= Len(front) THEN front[j] ELSE back[j - Len(front)]
    BY <1>2, <1>3, ConcatProperties
  <1>5. t = front \o back
    BY DEF front, back
  <1>6. ASSUME NEW j \in 1..(i - 1) PROVE t[j] = s[j]
    <2>1. j \in 1..(Len(front) + Len(back)) /\ j <= Len(front)
      BY <1>1, <1>2, <1>3
    <2> QED BY <1>2, <1>4, <1>5, <2>1
  <1>7. ASSUME NEW j \in 1..(n - k) PROVE t[(i - 1) + j] = s[k + j]
    <2>1. PICK l : l = (i - 1) + j
      OBVIOUS
    <2>2. l \in 1..(Len(front) + Len(back)) /\ ~(l <= Len(front)) /\ l - Len(front) = j
      BY <1>1, <1>2, <1>3, <2>1
    <2> QED BY <1>3, <1>4, <1>5, <2>1, <2>2
  <1> QED BY <1>2, <1>3, <1>4, <1>5, <1>6, <1>7

\* The line after those that were taken out names a hash that is not above it any
\* more; when there is none, the file ends with another hash than it did.
LEMMA TakeOutTamper ==
  ASSUME IInv, TamperInv, NEW i \in DOMAIN file, NEW k \in DOMAIN file, TakeOut(i, k)
  PROVE  TamperInv'
  <1> DEFINE n == Len(file)
  <1> SUFFICES ASSUME upsets' = {} /\ tampers' <= 1
               PROVE  /\ ~torn' /\ AllChained'
                      /\ tampers' = 0 => HashIsPlace'
                      /\ tampers' = 1 => Breaks'
    BY DEF TamperInv
  <1>1. upsets = {} /\ tampers = 0 /\ tampers' = 1 /\ torn' = torn
    BY TamperedIs DEF Tampered, IInv
  <1>2. /\ ~torn /\ AllChained /\ HashIsPlace /\ Undisturbed
        /\ \A j \in 1..n : Linked(j)
    BY <1>1 DEF TamperInv, IInv, ChainInv, Undisturbed
  <1>3. n \in Nat /\ i \in 1..n /\ k \in i..n /\ i \in Nat /\ k \in Nat /\ n # 0
    BY DEF TakeOut, IInv, TypeOK
  <1>4. /\ Len(file') = (i - 1) + (n - k)
        /\ \A j \in 1..(i - 1) : file'[j] = file[j]
        /\ \A j \in 1..(n - k) : file'[(i - 1) + j] = file[k + j]
    <2>1. file \in Seq(Lines) /\ file' = SubSeq(file, 1, i - 1) \o SubSeq(file, k + 1, n)
      BY DEF TakeOut, IInv, TypeOK
    <2> QED BY <1>3, <2>1, StretchTakenOut
  <1>5. AllChained'
    <2>1. ASSUME NEW j \in 1..Len(file') PROVE file'[j].type = "chained"
      <3>1. CASE j \in 1..(i - 1)
        <4>1. j \in 1..n
          BY <1>3, <3>1
        <4> QED BY <1>2, <1>4, <3>1, <4>1 DEF AllChained
      <3>2. CASE j \notin 1..(i - 1)
        <4>1. PICK l : l = j - (i - 1)
          OBVIOUS
        <4>2. l \in 1..(n - k) /\ (i - 1) + l = j /\ k + l \in 1..n
          BY <1>3, <1>4, <3>2, <4>1
        <4>3. file'[j] = file[k + l]
          BY <1>4, <4>2
        <4> QED BY <1>2, <4>2, <4>3 DEF AllChained
      <3> QED BY <3>1, <3>2
    <2> QED BY <2>1 DEF AllChained
  <1>6. EndHash(i - 1)' = i - 1
    <2>1. CASE i = 1
      BY <2>1 DEF EndHash, Genesis
    <2>2. CASE i # 1
      <3>1. i - 1 \in 1..(i - 1) /\ i - 1 # 0 /\ i - 1 \in 1..n
        BY <1>3, <2>2
      <3> QED BY <1>2, <1>4, <3>1 DEF EndHash, HashIsPlace
    <2> QED BY <2>1, <2>2
  <1>7. CASE k # n
    <2>1. PICK m : m = k + 1
      OBVIOUS
    <2>2. 1 \in 1..(n - k) /\ (i - 1) + 1 = i /\ m \in 1..n /\ m - 1 = k /\ k \in 1..n /\ k # 0
      BY <1>3, <1>7, <2>1
    <2>3. file'[i] = file[m]
      BY <1>4, <2>1, <2>2
    <2>4. file[m].prev = k
      BY <1>2, <2>2 DEF Linked, EndHash, HashIsPlace
    <2>5. k # i - 1
      BY <1>3
    <2>6. Broken(i)'
      BY <1>6, <2>3, <2>4, <2>5 DEF Broken
    <2>7. ~unseen'
      BY <1>7 DEF TakeOut, Tamper
    <2>8. i \in 1..Len(file')
      BY <1>3, <1>4, <1>7
    <2> QED BY <1>1, <1>2, <1>5, <2>6, <2>7, <2>8 DEF Breaks
  <1>8. CASE k = n
    <2>1. Tamper(TRUE) /\ unseen'
      BY <1>8 DEF TakeOut, Tamper
    <2>2. Len(file') = i - 1 /\ i - 1 # n
      BY <1>3, <1>4, <1>8
    <2>3. Waiting'
      BY <1>2, <1>3, <1>6, <2>1, <2>2, OldEndWaits
    <2> QED BY <1>1, <1>2, <1>5, <2>1, <2>3 DEF Breaks
  <1> QED BY <1>7, <1>8

\* The other steps leave the lines alone, or upset the file; and a process that
\* waits with an old hash keeps it, or is restarted.
LEMMA OtherTamper ==
  ASSUME IInv, TamperInv,
         \/ \E p \in Processes : Load(p) \/ LogRaises(p) \/ Restart(p)
         \/ PlainLog
         \/ UNCHANGED vars
  PROVE  TamperInv'
  <1> SUFFICES ASSUME upsets' = {} PROVE TamperInv'
    BY DEF TamperInv
  <1> DEFINE Keeps == \A p \in knowing' : /\ p \in knowing /\ (loaded[p] => loaded'[p])
                                          /\ loaded[p] => prevHash'[p] = prevHash[p]
  <1>1. UNCHANGED <<file, torn, hashes, upsets, tampers, unseen>> /\ Keeps
    <2>1. ASSUME NEW p \in Processes, Load(p)
          PROVE  UNCHANGED <<file, torn, hashes, upsets, tampers, unseen>> /\ Keeps
      BY <2>1 DEF Load, Resume, tampering, IInv, TypeOK
    <2>2. ASSUME NEW p \in Processes, LogRaises(p)
          PROVE  UNCHANGED <<file, torn, hashes, upsets, tampers, unseen>> /\ Keeps
      BY <2>2 DEF LogRaises, tampering, chainState
    <2>3. ASSUME NEW p \in Processes, Restart(p)
          PROVE  UNCHANGED <<file, torn, hashes, upsets, tampers, unseen>> /\ Keeps
      BY <2>3 DEF Restart, IInv, TypeOK
    <2>4. ~PlainLog
      BY DEF PlainLog
    <2>5. CASE UNCHANGED vars
      BY <2>5 DEF vars
    <2> QED BY <2>1, <2>2, <2>3, <2>4, <2>5
  <1>2. \A i : EndHash(i)' = EndHash(i) /\ (Broken(i)' <=> Broken(i))
    BY <1>1 DEF EndHash, Broken
  <1>3. Waiting => Waiting'
    BY <1>1, <1>2 DEF Waiting
  <1>4. Breaks => Breaks'
    BY <1>1, <1>2, <1>3 DEF Breaks
  <1>5. (AllChained' <=> AllChained) /\ (HashIsPlace' <=> HashIsPlace)
    BY <1>1 DEF AllChained, HashIsPlace
  <1> QED BY <1>1, <1>4, <1>5 DEF TamperInv

LEMMA AlwaysTamperInv ==
  ASSUME OneWriter
  PROVE  Spec => [](IInv /\ TamperInv)
  <1>1. Init => TamperInv
    <2> SUFFICES ASSUME Init PROVE TamperInv
      OBVIOUS
    <2>1. ~torn /\ file = <<>> /\ Len(file) = 0 /\ hashes = 0 /\ tampers = 0 /\ 1..Len(file) = {}
      BY DEF Init
    <2> QED BY <2>1 DEF TamperInv, AllChained, HashIsPlace
  <1>2. IInv /\ TamperInv /\ [Next]_vars => TamperInv'
    <2> SUFFICES ASSUME IInv, TamperInv, [Next]_vars PROVE TamperInv'
      OBVIOUS
    <2> QED BY LogTamper, AlterTamper, TakeOutTamper, OtherTamper DEF Next
  <1>3. IInv /\ [Next]_vars => IInv'
    BY NextInv
  <1> QED BY <1>1, <1>2, <1>3, InitInv, PTL DEF Spec

\* One act of tampering shows from then on, whatever is logged after it and however
\* often the process restarts; if it touched the end of the file alone and left it
\* sound, from the next entry of the process on, unless that restarts before.
THEOREM Shows ==
  ASSUME OneWriter
  PROVE  Spec => []TamperingShows
  <1>1. IInv /\ TamperInv => TamperingShows
    <2> SUFFICES ASSUME IInv, TamperInv, tampers = 1, upsets = {}, ~unseen PROVE ~Valid
      BY DEF TamperingShows
    <2>1. PICK i \in 1..Len(file) : Broken(i)
      BY DEF TamperInv, Breaks
    <2>2. \A j \in 1..Len(file) : file[j].type # "junk"
      BY DEF TamperInv, AllChained
    <2>3. Expected(i) = EndHash(i - 1)
      BY <2>2, ExpectedIsEnd DEF IInv
    <2>4. i \in DOMAIN file /\ ~Sound(i)
      BY <2>1, <2>3 DEF Sound, Broken, IInv, TypeOK
    <2> QED BY <2>4 DEF Valid
  <1> QED BY <1>1, AlwaysTamperInv, PTL
-----------------------------------------------------------------------------
(* Acknowledged entries.                                                    *)

\* What log() returned for is in the file, and no fragment waits at its end to
\* swallow the next entry.
AckInv ==
  tampers = 0 /\ "torn" \notin upsets =>
    /\ ~torn
    /\ \A h \in acked : \E i \in 1..Len(file) : file[i].hash = h

LEMMA AppendKeepsAcked ==
  ASSUME TypeOK, AckInv, NEW line, file' = Append(file, line), NEW h \in acked,
         tampers = 0, "torn" \notin upsets
  PROVE  \E i \in 1..Len(file') : file'[i].hash = h
  <1>1. PICK i \in 1..Len(file) : file[i].hash = h
    BY DEF AckInv
  <1>2. Len(file') = Len(file) + 1 /\ file'[i] = file[i]
    BY AppendKeeps
  <1>3. i \in 1..Len(file')
    BY <1>2 DEF TypeOK
  <1> QED BY <1>1, <1>2, <1>3

LEMMA AckStep == TypeOK /\ AckInv /\ [Next]_vars => AckInv'
  <1> SUFFICES ASSUME TypeOK, AckInv, [Next]_vars, tampers' = 0, "torn" \notin upsets'
               PROVE  /\ ~torn'
                      /\ \A h \in acked' : \E i \in 1..Len(file') : file'[i].hash = h
    BY DEF AckInv
  <1>1. ASSUME NEW p \in Processes, Log(p)
        PROVE  ~torn' /\ \A h \in acked' : \E i \in 1..Len(file') : file'[i].hash = h
    <2>1. tampers = 0 /\ "torn" \notin upsets /\ ~torn' /\ ~torn
      BY <1>1 DEF Log, AckInv
    <2>2. PICK line : line = Entry(p)
      OBVIOUS
    <2>3. line.hash = hashes + 1 /\ file' = Append(file, line)
      BY <1>1, <2>1, <2>2 DEF Log, Appended, Entry, Line
    <2>4. Len(file') = Len(file) + 1 /\ file'[Len(file) + 1] = line
      BY <2>3, AppendKeeps
    <2>5. Len(file) + 1 \in 1..Len(file')
      BY <2>4 DEF TypeOK
    <2>6. acked' = acked \cup {hashes + 1}
      BY <1>1 DEF Log
    <2> QED BY <2>1, <2>3, <2>4, <2>5, <2>6, AppendKeepsAcked
  <1>2. ASSUME NEW p \in Processes, LogRaises(p)
        PROVE  ~torn' /\ \A h \in acked' : \E i \in 1..Len(file') : file'[i].hash = h
    <2>1. tampers = 0 /\ "torn" \notin upsets /\ acked' = acked
      BY <1>2 DEF LogRaises, tampering
    <2>2. ~torn
      BY <2>1 DEF AckInv
    <2>3. /\ ~torn'
          /\ file' = file \/ file' = Append(file, Entry(p))
      BY <1>2, <2>2 DEF LogRaises, Appended
    <2>4. CASE file' = file
      BY <2>1, <2>3, <2>4 DEF AckInv
    <2>5. CASE file' = Append(file, Entry(p))
      BY <2>1, <2>3, <2>5, AppendKeepsAcked
    <2> QED BY <2>3, <2>4, <2>5
  <1>3. CASE PlainLog
    <2>1. tampers = 0 /\ "torn" \notin upsets /\ acked' = acked /\ ~torn'
      BY <1>3 DEF PlainLog, tampering
    <2>2. file' = Append(file, PlainLine)
      BY <1>3, <2>1 DEF PlainLog, Appended, AckInv
    <2> QED BY <2>1, <2>2, AppendKeepsAcked
  <1>4. ASSUME NEW p \in Processes, Load(p)
        PROVE  UNCHANGED <<file, torn, acked, upsets, tampers>>
    BY <1>4 DEF Load, Resume, tampering
  <1>5. ASSUME NEW p \in Processes, Restart(p)
        PROVE  UNCHANGED <<file, torn, acked, upsets, tampers>>
    BY <1>5 DEF Restart
  <1>6. ~Tampered
    BY TamperedIs
  <1>7. CASE UNCHANGED vars
    BY <1>7 DEF vars, AckInv
  <1> QED BY <1>1, <1>2, <1>3, <1>4, <1>5, <1>6, <1>7
          DEF Next, Tampered, AckInv, tampering

\* An entry is in the file once its log() has returned, for any number of
\* processes, restarts, plain lines and writes that are not torn.
THEOREM Acknowledged == Spec => []AcknowledgedIsLogged
  <1>1. Init => TypeOK /\ AckInv
    BY InitInv DEF Init, IInv, AckInv
  <1>2. TypeOK /\ AckInv => AcknowledgedIsLogged
    BY DEF TypeOK, AckInv, AcknowledgedIsLogged
  <1> QED BY <1>1, <1>2, TypeStep, AckStep, PTL DEF Spec
=============================================================================
