----------------------- MODULE ImmutableRelease_proofs -----------------------
(***************************************************************************)
(* Theorems about the output directory and the release job.                *)
(***************************************************************************)
EXTENDS ImmutableRelease, SequenceTheorems, TLAPS

-----------------------------------------------------------------------------
(* The names of the files *)

\* The artifacts are seven names, and the report is none of them.
LEMMA ArtifactNames ==
  /\ Artifacts \in Seq(Files) /\ Len(Artifacts) = 7
  /\ \A k \in 1..7 : Artifacts[k] \in Files /\ Artifacts[k] # Report
  /\ \A j, k \in 1..7 : Artifacts[j] = Artifacts[k] => j = k
  BY DEF Artifacts, Report, Files

LEMMA ConformanceWrites ==
  /\ Len(Writes("conformance")) = 8
  /\ \A k \in 1..7 : Writes("conformance")[k] = Artifacts[k]
  /\ Writes("conformance")[8] = Report
  /\ \A k \in 1..8 : Writes("conformance")[k] \in Files
  <1> DEFINE all == Append(Artifacts, Report)
  <1>1. Writes("conformance") = all
    <2>1. "conformance" # "compile" /\ "conformance" # "integration"
      OBVIOUS
    <2> QED
      BY <2>1, Zenon DEF Writes
  <1>2. Report \in Files
    BY DEF Files
  <1>3. \A seq \in Seq(Files), elt \in Files :
          /\ Len(Append(seq, elt)) = Len(seq) + 1
          /\ \A k \in 1..Len(seq) : Append(seq, elt)[k] = seq[k]
          /\ Append(seq, elt)[Len(seq) + 1] = elt
    BY AppendProperties
  <1>4. Len(all) = 8 /\ all[8] = Report /\ \A k \in 1..7 : all[k] = Artifacts[k]
    <2>1. Artifacts \in Seq(Files) /\ Len(Artifacts) = 7
      BY ArtifactNames
    <2>2. /\ Len(all) = Len(Artifacts) + 1
          /\ \A k \in 1..Len(Artifacts) : all[k] = Artifacts[k]
          /\ all[Len(Artifacts) + 1] = Report
      BY <1>2, <1>3, <2>1, Zenon
    <2> HIDE DEF all
    <2> QED
      BY <2>1, <2>2
  <1>5. \A k \in 1..8 : k \in 1..7 \/ k = 8
    OBVIOUS
  <1> HIDE DEF all
  <1> QED
    BY <1>1, <1>2, <1>4, <1>5, ArtifactNames

\* The other commands write at most two files and never the report.
LEMMA OtherWrites ==
  ASSUME NEW c \in {"compile", "integration"}
  PROVE  /\ Len(Writes(c)) \in 1..2
         /\ \A k \in 1..Len(Writes(c)) : Writes(c)[k] \in Files \ {Report}
  BY DEF Writes, Files, Report, Artifacts

LEMMA PairIsNoSingle ==
  ASSUME NEW a, NEW b, NEW c
  PROVE  <<a, b>> # <<c>>
  OBVIOUS

\* What an invocation fills in is neither missing nor torn.
LEMMA BytesAreWhole ==
  ASSUME NEW f, NEW v, NEW n
  PROVE  Bytes(f, v, n) \notin {<<"missing">>, <<"torn">>}
  BY PairIsNoSingle DEF Bytes

-----------------------------------------------------------------------------
(* Types of the output directory *)

\* What keeps step and by in their types.
WriterInv ==
  \A o \in Owners :
    /\ exit[o] = "running" => number[o] >= 1
    /\ opened[o] => exit[o] = "running" /\ step[o] <= Last(o)

OutputTypeInv == OutputTypeOK /\ WriterInv

LEMMA LastIsNat ==
  ASSUME OutputTypeOK, NEW o \in Owners
  PROVE  /\ Last(o) \in 1..8
         /\ now[o].command = "conformance" => Last(o) = 8
  <1>1. now[o].command \in {"compile", "integration", "conformance"}
    BY DEF OutputTypeOK, Invocation
  <1> QED
    BY <1>1, ConformanceWrites, OtherWrites DEF Last

\* The file an invocation is at.
LEMMA FileAt ==
  ASSUME OutputTypeOK, NEW o \in Owners, step[o] <= Last(o)
  PROVE  /\ File(o) \in Files /\ step[o] + 1 \in 1..9
         /\ now[o].command = "conformance" =>
              /\ step[o] \in 1..8
              /\ step[o] \in 1..7 => File(o) = Artifacts[step[o]]
              /\ step[o] = 8 => File(o) = Report
         /\ now[o].command # "conformance" => File(o) # Report
  <1>1. step[o] \in 1..9 /\ now[o].command \in {"compile", "integration", "conformance"}
    BY DEF OutputTypeOK, Invocation
  <1>2. CASE now[o].command = "conformance"
    <2>1. Last(o) = 8 /\ File(o) = Writes("conformance")[step[o]]
      BY <1>2, ConformanceWrites DEF Last, File
    <2>2. step[o] \in 1..8
      BY <1>1, <2>1
    <2> QED
      BY <1>2, <2>1, <2>2, ConformanceWrites
  <1>3. CASE now[o].command # "conformance"
    <2>1. now[o].command \in {"compile", "integration"}
      BY <1>1, <1>3
    <2>2. Last(o) \in 1..2 /\ step[o] \in 1..Last(o)
      BY <1>1, <2>1, OtherWrites DEF Last
    <2>3. File(o) \in Files \ {Report}
      BY <2>1, <2>2, OtherWrites DEF Last, File
    <2> QED
      BY <1>1, <1>3, <2>2, <2>3
  <1> QED
    BY <1>2, <1>3

LEMMA FunctionIsSeq ==
  ASSUME NEW S, NEW m \in Nat, NEW s \in [1..m -> S]
  PROVE  s \in Seq(S)
  OBVIOUS

\* What an invocation writes.
Filled(o) ==
  [by |-> number[o], bytes |-> Bytes(File(o), now[o].version, number[o]),
   digests |-> Digests(o, File(o)), closed |-> now[o].closed]

LEMMA FilledIsCell ==
  ASSUME OutputTypeOK, NEW o \in Owners, step[o] <= Last(o)
  PROVE  Filled(o) \in Cell
  <1>1. now[o].version \in Versions /\ now[o].closed \in BOOLEAN /\ number[o] \in Nat
    BY OutputAssumption DEF OutputTypeOK, Invocation
  <1>2. Bytes(File(o), now[o].version, number[o]) \in Versions \X Nat
    BY <1>1 DEF Bytes
  <1> DEFINE n == Digested(File(o))
             all == {<<"missing">>, <<"torn">>} \cup (Versions \X Nat)
  <1>3. n \in 0..7
    BY DEF Digested
  <1>4. \A k \in 1..n : dir[o][Artifacts[k]].bytes \in all
    <2>1. \A f \in Files : dir[o][f] \in Cell
      BY DEF OutputTypeOK
    <2>2. \A f \in Files : dir[o][f].bytes \in all
      BY <2>1 DEF Cell
    <2> HIDE DEF all, n
    <2> QED
      BY <1>3, <2>2, ArtifactNames
  <1>5. Digests(o, File(o)) \in [1..n -> all]
    BY <1>4 DEF Digests
  <1>6. Digests(o, File(o)) \in Seq(all)
    <2>1. n \in Nat
      BY <1>3
    <2> HIDE DEF n, all
    <2> QED
      BY <1>5, <2>1, FunctionIsSeq
  <1> QED
    BY <1>1, <1>2, <1>6 DEF Filled, Cell

LEMMA OutputTypeInit ==
  ASSUME OutputInit
  PROVE  OutputTypeInv
  <1>1. Missing \in Cell /\ Missing.bytes = <<"missing">> /\ Missing.by = 0
    BY DEF Missing, Cell
  <1>2. (CHOOSE i \in Invocation : TRUE) \in Invocation
    <2>1. PICK v \in Versions : TRUE
      BY OutputAssumption
    <2>2. [command |-> "compile", version |-> v, closed |-> FALSE] \in Invocation
      BY DEF Invocation
    <2> QED
      BY <2>2
  <1>3. now \in [Owners -> Invocation]
    BY <1>2 DEF OutputInit
  <1>4. \A o \in Owners, f \in Files : dir[o][f] = Missing
    BY DEF OutputInit
  <1>5. dir \in [Owners -> [Files -> Cell]]
    BY <1>1 DEF OutputInit
  <1>6. number \in [Owners -> 0..Limit]
    BY OutputAssumption DEF OutputInit
  <1> QED
    BY <1>1, <1>3, <1>4, <1>5, <1>6 DEF OutputInit, OutputTypeInv, OutputTypeOK, WriterInv

\* One file of one directory changes.
LEMMA FileChanges ==
  ASSUME OutputTypeOK, NEW o \in Owners, NEW f \in Files, NEW cell \in Cell,
         cell.bytes # <<"missing">>, cell.by # 0,
         dir' = [dir EXCEPT ![o][f] = cell]
  PROVE  /\ dir' \in [Owners -> [Files -> Cell]]
         /\ \A p \in Owners, g \in Files :
              dir'[p][g] = IF p = o /\ g = f THEN cell ELSE dir[p][g]
         /\ \A p \in Owners, g \in Files :
              dir'[p][g].bytes = <<"missing">> <=> dir'[p][g].by = 0
  <1>1. \A p \in Owners, g \in Files :
          dir'[p][g] = IF p = o /\ g = f THEN cell ELSE dir[p][g]
    BY DEF OutputTypeOK
  <1>2. dir' \in [Owners -> [Files -> Cell]]
    BY DEF OutputTypeOK
  <1> QED
    BY <1>1, <1>2 DEF OutputTypeOK

LEMMA OutputTypeStep ==
  ASSUME OutputTypeInv, [OutputNext]_output
  PROVE  OutputTypeInv'
  <1> USE DEF OutputTypeInv
  <1>1. ASSUME NEW o \in Owners, NEW i \in Invocation, Invoke(o, i)
        PROVE  OutputTypeInv'
    <2>1. number[o] + 1 \in 1..Limit
      BY <1>1, OutputAssumption DEF Invoke, OutputTypeOK
    <2>2. OutputTypeOK'
      BY <1>1, <2>1 DEF Invoke, OutputTypeOK
    <2>3. \A p \in Owners : opened[p] => p # o
      BY <1>1 DEF Invoke, WriterInv
    <2> QED
      BY <1>1, <2>1, <2>2, <2>3 DEF Invoke, OutputTypeOK, WriterInv, Last
  <1>2. ASSUME NEW o \in Owners, Open(o)
        PROVE  OutputTypeInv'
    <2>1. File(o) \in Files
      BY <1>2, FileAt DEF Open
    <2>2. number[o] \in Nat /\ number[o] # 0
      BY <1>2, OutputAssumption DEF Open, OutputTypeOK, WriterInv
    <2>3. /\ Torn(number[o]) \in Cell /\ Torn(number[o]).by # 0
          /\ Torn(number[o]).bytes # <<"missing">>
      BY <2>2 DEF Torn, Cell
    <2>4. OutputTypeOK'
      <3>1. /\ dir' \in [Owners -> [Files -> Cell]]
            /\ \A p \in Owners, g \in Files :
                 dir'[p][g].bytes = <<"missing">> <=> dir'[p][g].by = 0
        BY <1>2, <2>1, <2>3, FileChanges DEF Open
      <3> QED
        BY <1>2, <3>1 DEF Open, OutputTypeOK
    <2> QED
      BY <1>2, <2>4 DEF Open, OutputTypeOK, WriterInv, Last
  <1>3. ASSUME NEW o \in Owners, Fill(o)
        PROVE  OutputTypeInv'
    <2>1. step[o] <= Last(o)
      BY <1>3 DEF Fill, WriterInv
    <2>2. File(o) \in Files /\ step[o] + 1 \in 1..9
      BY <2>1, FileAt
    <2>3. number[o] \in Nat /\ number[o] # 0
      BY <1>3, OutputAssumption DEF Fill, OutputTypeOK, WriterInv
    <2>4. /\ Filled(o) \in Cell /\ Filled(o).by # 0
          /\ Filled(o).bytes # <<"missing">>
      BY <2>1, <2>3, FilledIsCell, BytesAreWhole DEF Filled
    <2>5. OutputTypeOK'
      <3>1. /\ dir' \in [Owners -> [Files -> Cell]]
            /\ \A p \in Owners, g \in Files :
                 dir'[p][g].bytes = <<"missing">> <=> dir'[p][g].by = 0
        BY <1>3, <2>2, <2>4, FileChanges DEF Fill, Filled
      <3> QED
        BY <1>3, <2>2, <3>1 DEF Fill, OutputTypeOK
    <2> QED
      BY <1>3, <2>5 DEF Fill, OutputTypeOK, WriterInv, Last
  <1>4. ASSUME NEW o \in Owners, Stop(o)
        PROVE  OutputTypeInv'
    BY <1>4 DEF Stop, OutputTypeOK, WriterInv, Last
  <1>5. ASSUME NEW o \in Owners, Finish(o)
        PROVE  OutputTypeInv'
    <2>1. ~opened[o]
      BY <1>5, LastIsNat DEF Finish, WriterInv, OutputTypeOK
    <2>2. OutputTypeOK'
      BY <1>5 DEF Finish, OutputTypeOK
    <2> QED
      BY <1>5, <2>1, <2>2 DEF Finish, OutputTypeOK, WriterInv, Last
  <1>6. CASE UNCHANGED output
    BY <1>6 DEF output, OutputTypeOK, WriterInv, Last
  <1> QED
    BY <1>1, <1>2, <1>3, <1>4, <1>5, <1>6 DEF OutputNext, OutputStep

-----------------------------------------------------------------------------
(* The files of a directory *)

Current(o, k) ==
  /\ dir[o][Artifacts[k]].by = number[o]
  /\ dir[o][Artifacts[k]].bytes = Bytes(Artifacts[k], now[o].version, number[o])

\* The artifacts before the step of a conformance are its own.
WrittenInv(o) ==
  now[o].command = "conformance" /\ exit[o] \in {"running", "ok"} =>
    \A k \in 1..7 : k < step[o] => Current(o, k)

AgeInv(o) == \A f \in Files : dir[o][f].by <= number[o]

\* The report of a running invocation is an earlier one's, until it has written
\* its own.
OlderInv(o) ==
  Whole(dir[o][Report]) /\ exit[o] = "running" =>
    \/ dir[o][Report].by < number[o]
    \/ now[o].command = "conformance" /\ step[o] = 9

BesideInv(o) ==
  Whole(dir[o][Report]) =>
    \A k \in 1..7 :
      /\ dir[o][Report].by <= dir[o][Artifacts[k]].by
      /\ dir[o][Report].by = dir[o][Artifacts[k]].by => Whole(dir[o][Artifacts[k]])

\* A report lists what its own invocation wrote.
DigestInv(o) ==
  Whole(dir[o][Report]) =>
    /\ DOMAIN dir[o][Report].digests = 1..7
    /\ \A k \in 1..7 :
         dir[o][Report].digests[k]
           = Bytes(Artifacts[k], dir[o][Report].bytes[1], dir[o][Report].bytes[2])

OwnInv(o) ==
  /\ now[o].command = "conformance"
  /\ exit[o] = "ok" \/ (exit[o] = "running" /\ step[o] = 9)
  => /\ Whole(dir[o][Report]) /\ dir[o][Report].by = number[o]
     /\ dir[o][Report].bytes = <<now[o].version, number[o]>>
     /\ step[o] = 9

OwnerInv(o) ==
  /\ WrittenInv(o) /\ AgeInv(o) /\ OlderInv(o)
  /\ BesideInv(o) /\ DigestInv(o) /\ OwnInv(o)

OutputInv == OutputTypeInv /\ \A o \in Owners : OwnerInv(o)

\* The invariant of an owner is about its own slots.
LEMMA OwnerUntouched ==
  ASSUME NEW o \in Owners, OwnerInv(o), OutputTypeOK,
         dir'[o] = dir[o], now'[o] = now[o], number'[o] = number[o],
         step'[o] = step[o], exit'[o] = exit[o]
  PROVE  OwnerInv(o)'
  <1>1. WrittenInv(o)' /\ AgeInv(o)'
    BY DEF OwnerInv, WrittenInv, AgeInv, Current
  <1>2. OlderInv(o)' /\ OwnInv(o)'
    BY DEF OwnerInv, OlderInv, OwnInv, Whole
  <1>3. BesideInv(o)' /\ DigestInv(o)'
    BY DEF OwnerInv, BesideInv, DigestInv, Whole
  <1> QED
    BY <1>1, <1>2, <1>3 DEF OwnerInv

LEMMA NumberFacts ==
  ASSUME OutputTypeInv, NEW o \in Owners
  PROVE  /\ number[o] \in Nat /\ step[o] \in 1..9
         /\ \A f \in Files : dir[o][f].by \in Nat
         /\ Report \in Files
         /\ exit[o] = "running" => number[o] >= 1
  <1>1. number[o] \in Nat /\ step[o] \in 1..9
    BY OutputAssumption DEF OutputTypeInv, OutputTypeOK
  <1>2. \A f \in Files : dir[o][f] \in Cell
    BY DEF OutputTypeInv, OutputTypeOK
  <1>3. \A f \in Files : dir[o][f].by \in Nat
    BY <1>2 DEF Cell
  <1>4. Report \in Files
    BY DEF Files
  <1> QED
    BY <1>1, <1>3, <1>4 DEF OutputTypeInv, WriterInv

LEMMA InvokeKeeps ==
  ASSUME OutputInv, NEW o \in Owners, NEW i \in Invocation, Invoke(o, i)
  PROVE  OwnerInv(o)'
  <1>1. /\ dir' = dir /\ exit'[o] = "running" /\ step'[o] = 1
        /\ number'[o] = number[o] + 1
    BY DEF Invoke, OutputInv, OutputTypeInv, OutputTypeOK
  <1>2. /\ number[o] \in Nat /\ \A f \in Files : dir[o][f].by \in Nat
        /\ Report \in Files
    BY NumberFacts DEF OutputInv
  <1>3. WrittenInv(o)'
    BY <1>1 DEF WrittenInv
  <1>4. AgeInv(o)' /\ OlderInv(o)'
    BY <1>1, <1>2 DEF OutputInv, OwnerInv, AgeInv, OlderInv, Whole
  <1>5. BesideInv(o)' /\ DigestInv(o)'
    BY <1>1 DEF OutputInv, OwnerInv, BesideInv, DigestInv, Whole
  <1>6. OwnInv(o)'
    BY <1>1 DEF OwnInv
  <1> QED
    BY <1>3, <1>4, <1>5, <1>6 DEF OwnerInv

LEMMA OpenKeeps ==
  ASSUME OutputInv, NEW o \in Owners, Open(o)
  PROVE  OwnerInv(o)'
  <1> DEFINE f == File(o)
  <1>1. /\ exit[o] = "running" /\ step[o] <= Last(o) /\ OutputTypeOK /\ OwnerInv(o)
        /\ UNCHANGED <<now, number, step, exit>>
    BY DEF Open, OutputInv, OutputTypeInv
  <1>2. /\ number[o] \in Nat /\ step[o] \in 1..9 /\ number[o] >= 1
        /\ Report \in Files /\ \A g \in Files : dir[o][g].by \in Nat
    BY <1>1, NumberFacts DEF OutputInv
  <1>3. /\ f \in Files
        /\ now[o].command = "conformance" =>
             /\ step[o] \in 1..8
             /\ step[o] \in 1..7 => f = Artifacts[step[o]]
             /\ step[o] = 8 => f = Report
        /\ now[o].command # "conformance" => f # Report
    BY <1>1, FileAt
  <1>4. \A g \in Files : dir'[o][g] = IF g = f THEN Torn(number[o]) ELSE dir[o][g]
    <2>1. /\ Torn(number[o]) \in Cell /\ Torn(number[o]).by # 0
          /\ Torn(number[o]).bytes # <<"missing">>
      BY <1>2 DEF Torn, Cell
    <2> QED
      BY <1>1, <1>3, <2>1, FileChanges DEF Open
  <1>5. Torn(number[o]).by = number[o] /\ ~Whole(Torn(number[o]))
    BY DEF Torn, Whole
  <1> HIDE DEF f
  <1>6. AgeInv(o)'
    BY <1>1, <1>2, <1>4, <1>5 DEF OwnerInv, AgeInv
  <1>7. WrittenInv(o)'
    <2>1. ASSUME now[o].command = "conformance", NEW k \in 1..7, k < step[o]
          PROVE  Artifacts[k] \in Files /\ Artifacts[k] # f
      BY <1>2, <1>3, <2>1, ArtifactNames
    <2> QED
      BY <1>1, <1>4, <2>1 DEF OwnerInv, WrittenInv, Current
  <1>8. CASE f = Report
    <2>1. ~Whole(dir'[o][Report])
      BY <1>2, <1>4, <1>5, <1>8
    <2>2. step[o] # 9
      BY <1>2, <1>3, <1>8
    <2>3. OlderInv(o)' /\ BesideInv(o)' /\ DigestInv(o)'
      BY <2>1 DEF OlderInv, BesideInv, DigestInv, Whole
    <2>4. OwnInv(o)'
      BY <1>1, <2>2 DEF OwnInv
    <2> QED
      BY <1>6, <1>7, <2>3, <2>4 DEF OwnerInv
  <1>9. CASE f # Report
    <2>1. dir'[o][Report] = dir[o][Report]
      BY <1>2, <1>4, <1>9
    <2>2. now[o].command = "conformance" => step[o] # 9
      BY <1>3
    <2>3. Whole(dir[o][Report]) => dir[o][Report].by < number[o]
      BY <1>1, <2>2 DEF OwnerInv, OlderInv
    <2>4. OlderInv(o)' /\ DigestInv(o)' /\ OwnInv(o)'
      BY <1>1, <2>1, <2>2 DEF OwnerInv, OlderInv, DigestInv, OwnInv, Whole
    <2>5. BesideInv(o)'
      <3>1. SUFFICES ASSUME Whole(dir[o][Report]), NEW k \in 1..7
                     PROVE  /\ dir[o][Report].by <= dir'[o][Artifacts[k]].by
                            /\ dir[o][Report].by = dir'[o][Artifacts[k]].by =>
                                 Whole(dir'[o][Artifacts[k]])
        BY <2>1 DEF BesideInv, Whole
      <3>2. Artifacts[k] \in Files
        BY ArtifactNames
      <3>3. CASE Artifacts[k] = f
        BY <1>2, <1>4, <1>5, <2>3, <3>1, <3>2, <3>3
      <3>4. CASE Artifacts[k] # f
        BY <1>1, <1>4, <3>1, <3>2, <3>4 DEF OwnerInv, BesideInv
      <3> QED
        BY <3>3, <3>4
    <2> QED
      BY <1>6, <1>7, <2>4, <2>5 DEF OwnerInv
  <1> QED
    BY <1>8, <1>9

LEMMA FillKeeps ==
  ASSUME OutputInv, NEW o \in Owners, Fill(o)
  PROVE  OwnerInv(o)'
  <1> DEFINE f == File(o)
  <1>1. /\ exit[o] = "running" /\ step[o] <= Last(o) /\ OutputTypeOK /\ OwnerInv(o)
        /\ UNCHANGED <<now, number, exit>> /\ step'[o] = step[o] + 1
    BY DEF Fill, OutputInv, OutputTypeInv, OutputTypeOK, WriterInv
  <1>2. /\ number[o] \in Nat /\ step[o] \in 1..9 /\ number[o] >= 1
        /\ Report \in Files /\ \A g \in Files : dir[o][g].by \in Nat
    BY <1>1, NumberFacts DEF OutputInv
  <1>3. /\ f \in Files
        /\ now[o].command = "conformance" =>
             /\ step[o] \in 1..8
             /\ step[o] \in 1..7 => f = Artifacts[step[o]]
             /\ step[o] = 8 => f = Report
        /\ now[o].command # "conformance" => f # Report
    BY <1>1, FileAt
  <1>4. /\ Filled(o).by = number[o] /\ Whole(Filled(o))
        /\ Filled(o).bytes = Bytes(f, now[o].version, number[o])
        /\ Filled(o).digests = Digests(o, f)
    BY BytesAreWhole DEF Filled, Whole
  <1>5. \A g \in Files : dir'[o][g] = IF g = f THEN Filled(o) ELSE dir[o][g]
    <2>1. Filled(o) \in Cell
      BY <1>1, FilledIsCell
    <2>2. Filled(o).by # 0 /\ Filled(o).bytes # <<"missing">>
      BY <1>2, <1>4 DEF Whole
    <2>3. dir' = [dir EXCEPT ![o][f] = Filled(o)]
      BY DEF Fill, Filled
    <2> QED
      BY <1>1, <1>3, <2>1, <2>2, <2>3, FileChanges
  <1> HIDE DEF f
  <1>6. AgeInv(o)'
    BY <1>1, <1>2, <1>4, <1>5 DEF OwnerInv, AgeInv
  <1>7. WrittenInv(o)'
    <2>1. SUFFICES ASSUME now[o].command = "conformance", NEW k \in 1..7, k < step[o] + 1
                   PROVE  Current(o, k)'
      BY <1>1 DEF WrittenInv
    <2>2. Artifacts[k] \in Files
      BY ArtifactNames
    <2>3. CASE k = step[o]
      <3>1. f = Artifacts[k]
        BY <1>3, <2>1, <2>3
      <3> QED
        BY <1>1, <1>4, <1>5, <2>2, <3>1 DEF Current
    <2>4. CASE k < step[o]
      <3>1. Artifacts[k] # f
        BY <1>2, <1>3, <2>1, <2>4, ArtifactNames
      <3> QED
        BY <1>1, <1>5, <2>1, <2>2, <2>4, <3>1 DEF OwnerInv, WrittenInv, Current
    <2> QED
      BY <1>2, <2>1, <2>3, <2>4
  <1>8. CASE f = Report
    <2>1. now[o].command = "conformance" /\ step[o] = 8
      BY <1>2, <1>3, <1>8, ArtifactNames
    <2>2. \A k \in 1..7 : Current(o, k)
      BY <1>1, <2>1 DEF OwnerInv, WrittenInv
    <2>3. dir'[o][Report] = Filled(o)
      BY <1>2, <1>5, <1>8
    <2>4. \A k \in 1..7 : dir'[o][Artifacts[k]] = dir[o][Artifacts[k]]
      BY <1>5, <1>8, ArtifactNames
    <2>5. OlderInv(o)' /\ OwnInv(o)'
      <3>1. Filled(o).bytes = <<now[o].version, number[o]>>
        BY <1>4, <1>8 DEF Bytes, Timed
      <3>2. step'[o] = 9
        BY <1>1, <2>1
      <3> QED
        BY <1>1, <1>4, <2>1, <2>3, <3>1, <3>2 DEF OlderInv, OwnInv, Whole
    <2>6. BesideInv(o)'
      <3>1. \A k \in 1..7 : /\ dir'[o][Artifacts[k]].by = number[o]
                            /\ Whole(dir'[o][Artifacts[k]])
        BY <2>2, <2>4, BytesAreWhole DEF Current, Whole
      <3> QED
        BY <1>2, <1>4, <2>3, <3>1 DEF BesideInv, Whole
    <2>7. DigestInv(o)'
      <3>1. Digested(Report) = 7
        BY DEF Digested, Report
      <3>2. Digests(o, Report) = [k \in 1..7 |-> dir[o][Artifacts[k]].bytes]
        BY <3>1 DEF Digests
      <3>3. Filled(o).bytes = <<now[o].version, number[o]>>
        BY <1>4, <1>8 DEF Bytes, Timed
      <3>4. /\ DOMAIN Filled(o).digests = 1..7
            /\ \A k \in 1..7 : Filled(o).digests[k]
                                = Bytes(Artifacts[k], now[o].version, number[o])
        BY <1>4, <1>8, <2>2, <3>2 DEF Current
      <3>5. Filled(o).bytes[1] = now[o].version /\ Filled(o).bytes[2] = number[o]
        BY <3>3
      <3> QED
        BY <2>3, <3>4, <3>5 DEF DigestInv
    <2> QED
      BY <1>6, <1>7, <2>5, <2>6, <2>7 DEF OwnerInv
  <1>9. CASE f # Report
    <2>1. dir'[o][Report] = dir[o][Report]
      BY <1>2, <1>5, <1>9
    <2>2. now[o].command = "conformance" => step[o] # 9 /\ step[o] + 1 # 9
      BY <1>2, <1>3, <1>9
    <2>3. Whole(dir[o][Report]) => dir[o][Report].by < number[o]
      BY <1>1, <2>2 DEF OwnerInv, OlderInv
    <2>4. OlderInv(o)' /\ DigestInv(o)' /\ OwnInv(o)'
      BY <1>1, <2>1, <2>2, <2>3 DEF OwnerInv, OlderInv, DigestInv, OwnInv, Whole
    <2>5. BesideInv(o)'
      <3>1. SUFFICES ASSUME Whole(dir[o][Report]), NEW k \in 1..7
                     PROVE  /\ dir[o][Report].by <= dir'[o][Artifacts[k]].by
                            /\ dir[o][Report].by = dir'[o][Artifacts[k]].by =>
                                 Whole(dir'[o][Artifacts[k]])
        BY <2>1 DEF BesideInv, Whole
      <3>2. Artifacts[k] \in Files
        BY ArtifactNames
      <3>3. CASE Artifacts[k] = f
        BY <1>2, <1>4, <1>5, <2>3, <3>1, <3>2, <3>3
      <3>4. CASE Artifacts[k] # f
        BY <1>1, <1>5, <3>1, <3>2, <3>4 DEF OwnerInv, BesideInv
      <3> QED
        BY <3>3, <3>4
    <2> QED
      BY <1>6, <1>7, <2>4, <2>5 DEF OwnerInv
  <1> QED
    BY <1>8, <1>9

LEMMA EndKeeps ==
  ASSUME OutputInv, NEW o \in Owners, Stop(o) \/ Finish(o)
  PROVE  OwnerInv(o)'
  <1>1. /\ OutputTypeOK /\ OwnerInv(o)
        /\ UNCHANGED <<dir, now, number, step>> /\ exit[o] = "running"
        /\ exit'[o] = "failed" \/ (exit'[o] = "ok" /\ step[o] > Last(o))
    <2>1. OutputTypeOK /\ OwnerInv(o)
      BY DEF OutputInv, OutputTypeInv
    <2>2. CASE Stop(o)
      <3>1. exit' = [exit EXCEPT ![o] = "failed"]
        BY <2>2 DEF Stop
      <3>2. UNCHANGED <<dir, now, number, step>> /\ exit[o] = "running"
        BY <2>2 DEF Stop
      <3> QED
        BY <2>1, <3>1, <3>2 DEF OutputTypeOK
    <2>3. CASE Finish(o)
      <3>1. exit' = [exit EXCEPT ![o] = "ok"] /\ step[o] > Last(o)
        BY <2>3 DEF Finish
      <3>2. UNCHANGED <<dir, now, number, step>> /\ exit[o] = "running"
        BY <2>3 DEF Finish
      <3> QED
        BY <2>1, <3>1, <3>2 DEF OutputTypeOK
    <2> QED
      BY <2>1, <2>2, <2>3
  <1>2. exit'[o] = "ok" /\ now[o].command = "conformance" => step[o] = 9
    BY <1>1, LastIsNat, NumberFacts DEF OutputInv
  <1>3. WrittenInv(o)' /\ AgeInv(o)'
    BY <1>1 DEF OwnerInv, WrittenInv, AgeInv, Current
  <1>4. OlderInv(o)' /\ OwnInv(o)'
    BY <1>1, <1>2 DEF OwnerInv, OlderInv, OwnInv, Whole
  <1>5. BesideInv(o)' /\ DigestInv(o)'
    BY <1>1 DEF OwnerInv, BesideInv, DigestInv, Whole
  <1> QED
    BY <1>3, <1>4, <1>5 DEF OwnerInv

\* The slots of the other owners stay as they are.
LEMMA OthersUntouched ==
  ASSUME OutputTypeOK, NEW o \in Owners, NEW p \in Owners, p # o,
         (\E i \in Invocation : Invoke(o, i)) \/ OutputStep(o)
  PROVE  /\ dir'[p] = dir[p] /\ now'[p] = now[p] /\ number'[p] = number[p]
         /\ step'[p] = step[p] /\ exit'[p] = exit[p]
  BY DEF Invoke, OutputStep, Open, Fill, Stop, Finish, OutputTypeOK

LEMMA OutputInvInit ==
  ASSUME OutputInit
  PROVE  OutputInv
  <1>1. OutputTypeInv
    BY OutputTypeInit
  <1>2. ASSUME NEW o \in Owners PROVE OwnerInv(o)
    <2>1. /\ \A f \in Files : dir[o][f] = Missing
          /\ number[o] = 0 /\ exit[o] = "none" /\ Report \in Files
      BY <1>2 DEF OutputInit, Files
    <2>2. ~Whole(dir[o][Report])
      BY <2>1 DEF Missing, Whole
    <2> QED
      BY <2>1, <2>2 DEF OwnerInv, WrittenInv, AgeInv, OlderInv, BesideInv,
                        DigestInv, OwnInv, Missing
  <1> QED
    BY <1>1, <1>2 DEF OutputInv

LEMMA OutputInvStep ==
  ASSUME OutputInv, [OutputNext]_output
  PROVE  OutputInv'
  <1>1. OutputTypeInv'
    BY OutputTypeStep DEF OutputInv
  <1>2. ASSUME NEW p \in Owners PROVE OwnerInv(p)'
    <2>1. OwnerInv(p) /\ OutputTypeOK
      BY DEF OutputInv, OutputTypeInv
    <2>2. ASSUME NEW o \in Owners,
                 (\E i \in Invocation : Invoke(o, i)) \/ OutputStep(o)
          PROVE  OwnerInv(p)'
      <3>1. CASE p = o
        BY <2>2, <3>1, InvokeKeeps, OpenKeeps, FillKeeps, EndKeeps DEF OutputStep
      <3>2. CASE p # o
        BY <2>1, <2>2, <3>2, OthersUntouched, OwnerUntouched
      <3> QED
        BY <3>1, <3>2
    <2>3. CASE UNCHANGED output
      BY <2>1, <2>3, OwnerUntouched DEF output
    <2> QED
      BY <2>2, <2>3 DEF OutputNext
  <1> QED
    BY <1>1, <1>2 DEF OutputInv

\* What the invariant says of a report.
LEMMA OutputInvSafe ==
  ASSUME OutputInv
  PROVE  OutputTypeOK /\ ReportLast /\ MixtureNoticed
  <1>1. OutputTypeOK
    BY DEF OutputInv, OutputTypeInv
  <1>2. ReportLast
    <2>1. ASSUME NEW o \in Owners, Whole(dir[o][Report]), NEW k \in 1..7
          PROVE  /\ dir[o][Artifacts[k]].by >= dir[o][Report].by
                 /\ dir[o][Artifacts[k]].by = dir[o][Report].by =>
                      Whole(dir[o][Artifacts[k]])
      <3>1. dir[o][Artifacts[k]].by \in Nat /\ dir[o][Report].by \in Nat
        BY NumberFacts, ArtifactNames DEF OutputInv
      <3> QED
        BY <2>1, <3>1 DEF OutputInv, OwnerInv, BesideInv
    <2>2. ASSUME NEW o \in Owners, exit[o] = "ok", now[o].command = "conformance"
          PROVE  Whole(dir[o][Report]) /\ dir[o][Report].by = number[o]
      BY <2>2 DEF OutputInv, OwnerInv, OwnInv
    <2>3. SUFFICES ASSUME NEW o \in Owners
                   PROVE  /\ Whole(dir[o][Report]) =>
                               \A k \in 1..7 :
                                 /\ dir[o][Artifacts[k]].by >= dir[o][Report].by
                                 /\ dir[o][Artifacts[k]].by = dir[o][Report].by =>
                                      Whole(dir[o][Artifacts[k]])
                          /\ exit[o] = "ok" /\ now[o].command = "conformance" =>
                               Whole(dir[o][Report]) /\ dir[o][Report].by = number[o]
      BY DEF ReportLast
    <2> QED
      BY <2>1, <2>2
  <1>3. MixtureNoticed
    BY DEF MixtureNoticed, Verified, OfOneInvocation, OutputInv, OwnerInv, DigestInv
  <1> QED
    BY <1>1, <1>2, <1>3

-----------------------------------------------------------------------------
(* Types of the job *)

Places ==
  {"unborn", "look", "tag", "gates", "conformance", "create", "publish",
   "verify", "done", "failed"}

Release(r) ==
  r \in [job : {r.job}, version : {r.version}, assets : {r.assets}, draft : BOOLEAN]

\* A started job has a commit, and a release is the record gh shows.
ShapeInv ==
  /\ \A j \in Jobs : at[j] # "unborn" => sha[j] \in Versions
  /\ \A r \in releases : Release(r)

JobTypeInv == TypeOK /\ ShapeInv

JobTypes ==
  /\ caller \in {"shell", "workflow"} /\ protected \in BOOLEAN
  /\ tag \in [version : Versions \cup {"none"}, annotated : BOOLEAN]
  /\ \A r \in releases :
       r.job \in Jobs /\ r.version \in Versions /\ r.draft \in BOOLEAN
  /\ at \in [Jobs -> Places] /\ sha \in [Jobs -> Versions \cup {"none"}]
  /\ moved \in [Jobs -> BOOLEAN] /\ alone \in [Jobs -> BOOLEAN]
  /\ ShapeInv

LEMMA TypeParts == JobTypeInv <=> OutputTypeOK /\ JobTypes
  BY DEF JobTypeInv, TypeOK, JobTypes, Places

LEMMA JobsOwnDirectories ==
  /\ "shell" \in Owners
  /\ \A j \in Jobs : j \in Owners /\ j # "shell"
  BY JobAssumption

\* A job touches the directories as a caller of EvidenceOutput does.
LEMMA NextIsOutput ==
  ASSUME JobTypeInv, [Next]_vars
  PROVE  [OutputNext]_output
  <1>1. CASE Shell
    BY <1>1, JobAssumption, JobsOwnDirectories DEF Shell, OutputNext
  <1>2. ASSUME NEW j \in Jobs, NEW closed \in BOOLEAN, Conform(j, closed)
        PROVE  OutputNext
    <2>1. sha[j] \in Versions
      BY <1>2 DEF Conform, JobTypeInv, ShapeInv
    <2>2. [command |-> "conformance", version |-> sha[j], closed |-> closed] \in Invocation
      BY <2>1 DEF Invocation
    <2> QED
      BY <1>2, <2>2, JobsOwnDirectories DEF Conform, OutputNext
  <1>3. ASSUME NEW j \in Jobs, Conformance(j)
        PROVE  OutputNext
    BY <1>3, JobsOwnDirectories DEF Conformance, OutputNext
  <1>4. CASE Over \/ UNCHANGED vars
    BY <1>4 DEF Over, vars
  <1> QED
    <2>1. ASSUME NEW j \in Jobs, Job(j) PROVE [OutputNext]_output
      <3>1. ASSUME NEW r \in releases, Publish(j, r) PROVE UNCHANGED output
        BY <3>1 DEF Publish
      <3> QED
        BY <1>2, <1>3, <2>1, <3>1
        DEF Job, Fail, Look, CheckTag, Decide, Create, Verify
    <2>2. ASSUME NEW j \in Jobs, NEW v \in Versions, NEW annotated \in BOOLEAN,
                 PushTag(v, annotated, j)
          PROVE  UNCHANGED output
      BY <2>2 DEF PushTag
    <2>3. ASSUME NEW j \in Jobs, NEW k \in Jobs, Rerun(k, j) PROVE UNCHANGED output
      BY <2>3 DEF Rerun
    <2> QED
      BY <1>1, <1>4, <2>1, <2>2, <2>3 DEF Next

\* A release that a job adds.
LEMMA DraftShape ==
  ASSUME NEW j, NEW assets
  PROVE  /\ Draft(j, assets).job = j /\ Draft(j, assets).version = sha[j]
         /\ Draft(j, assets).assets = assets /\ Draft(j, assets).draft = TRUE
         /\ Release(Draft(j, assets))
  BY DEF Draft, Release

\* A release that is published.
Opened(r) == [r EXCEPT !.draft = FALSE]

LEMMA OpenedShape ==
  ASSUME JobTypeInv, NEW r \in releases
  PROVE  /\ Opened(r).job = r.job /\ Opened(r).version = r.version
         /\ Opened(r).assets = r.assets /\ Opened(r).draft = FALSE
         /\ Release(Opened(r))
         /\ ~r.draft => Opened(r) = r
  <1>1. r.draft \in BOOLEAN /\ Release(r)
    BY DEF JobTypeInv, ShapeInv, TypeOK
  <1> DEFINE J == {r.job}  V == {r.version}  A == {r.assets}
  <1>2. r \in [job : J, version : V, assets : A, draft : BOOLEAN]
    BY <1>1 DEF Release
  <1>3. /\ Opened(r).job = r.job /\ Opened(r).version = r.version
        /\ Opened(r).assets = r.assets /\ Opened(r).draft = FALSE
        /\ Opened(r) \in [job : J, version : V, assets : A, draft : BOOLEAN]
        /\ ~r.draft => Opened(r) = r
    <2> HIDE DEF J, V, A
    <2> QED
      BY <1>2 DEF Opened
  <1> QED
    BY <1>3 DEF Release

\* The releases after a step: the same, one more draft of a job in "create", or
\* one published, the first if it was a draft.
Added(j) ==
  /\ at[j] = "create" /\ at'[j] \in {"publish", "failed"}
  /\ \E assets \in {dir[j], <<>>} :
       /\ releases' = releases \cup {Draft(j, assets)}
       /\ at'[j] = "publish" => assets = dir[j]

Revealed(j) ==
  /\ at[j] = "publish" /\ at'[j] \in {"verify", "failed"}
  /\ \E r \in releases :
       \/ releases' = releases
       \/ /\ r.draft => Published = {}
          /\ releases' = (releases \ {r}) \cup {Opened(r)}

LEMMA CreateAdds ==
  ASSUME JobTypeInv, NEW j \in Jobs, Create(j)
  PROVE  Added(j)
  BY DEF Create, Goto, Added, JobTypeInv, TypeOK

LEMMA PublishReveals ==
  ASSUME JobTypeInv, NEW j \in Jobs, NEW r \in releases, Publish(j, r)
  PROVE  Revealed(j)
  <1>1. at' = [at EXCEPT ![j] = "verify"] \/ at' = [at EXCEPT ![j] = "failed"]
    BY DEF Publish, Goto
  <1>2. at'[j] \in {"verify", "failed"}
    BY <1>1 DEF JobTypeInv, TypeOK
  <1>3. \/ releases' = releases
        \/ /\ r.draft => Published = {}
           /\ releases' = (releases \ {r}) \cup {Opened(r)}
    BY DEF Publish, Opened
  <1> QED
    BY <1>2, <1>3 DEF Publish, Revealed

\* The kinds of steps: a job goes to its next place, by the action that leads
\* there; a job begins; or only the directories change.
Moves(j) ==
  /\ at[j] # "unborn"
  /\ \E place \in Places \ {"unborn", "look"} : at' = [at EXCEPT ![j] = place]
  /\ UNCHANGED <<caller, protected, tag, sha, moved>>

Arrives(j) ==
  /\ at'[j] = "tag" => \E answered \in BOOLEAN : Look(j, answered)
  /\ at'[j] = "gates" => CheckTag(j)
  /\ at'[j] = "conformance" => \E closed \in BOOLEAN : Conform(j, closed)
  /\ at'[j] = "create" => Decide(j)
  /\ at'[j] = "publish" => Added(j)
  /\ at'[j] \in {"verify", "done"} => at[j] \in {"publish", "verify"}
  /\ at'[j] = "done" => Verify(j)
  /\ UNCHANGED releases \/ Added(j) \/ Revealed(j)
  /\ UNCHANGED alone \/ \E answered \in BOOLEAN : Look(j, answered)
  /\ UNCHANGED output \/ \E closed \in BOOLEAN : Conform(j, closed)

Still == UNCHANGED <<caller, protected, server, jobs>>

LEMMA JobKinds ==
  ASSUME JobTypeInv, NEW j \in Jobs, Job(j)
  PROVE  Still \/ (Moves(j) /\ Arrives(j))
  <1>1. /\ at \in [Jobs -> Places]
        /\ \A place \in Places : [at EXCEPT ![j] = place][j] = place
    BY DEF JobTypeInv, TypeOK, Places
  <1>2. CASE Fail(j)
    <2>1. at' = [at EXCEPT ![j] = "failed"] /\ at'[j] = "failed"
      BY <1>1, <1>2 DEF Fail, Goto, Places
    <2> QED
      BY <1>2, <2>1 DEF Fail, Moves, Arrives, Places, server
  <1>3. ASSUME NEW answered \in BOOLEAN, Look(j, answered)
        PROVE  Moves(j) /\ Arrives(j)
    <2>1. \E place \in {"tag", "failed"} :
            at' = [at EXCEPT ![j] = place] /\ at'[j] = place
      BY <1>1, <1>3 DEF Look, Goto, Places
    <2> QED
      BY <1>3, <2>1 DEF Look, Moves, Arrives, Places, server
  <1>4. CASE CheckTag(j)
    <2>1. \E place \in {"gates", "failed"} :
            at' = [at EXCEPT ![j] = place] /\ at'[j] = place
      BY <1>1, <1>4 DEF CheckTag, Goto, Places
    <2> QED
      BY <1>4, <2>1 DEF CheckTag, Moves, Arrives, Places, server
  <1>5. ASSUME NEW closed \in BOOLEAN, Conform(j, closed)
        PROVE  Moves(j) /\ Arrives(j)
    <2>1. at' = [at EXCEPT ![j] = "conformance"] /\ at'[j] = "conformance"
      BY <1>1, <1>5 DEF Conform, Goto, Places
    <2> QED
      BY <1>5, <2>1 DEF Conform, Moves, Arrives, Places, server
  <1>6. CASE Conformance(j)
    BY <1>6 DEF Conformance, Still
  <1>7. CASE Decide(j)
    <2>1. \E place \in {"create", "failed"} :
            at' = [at EXCEPT ![j] = place] /\ at'[j] = place
      BY <1>1, <1>7 DEF Decide, Goto, Places
    <2> QED
      BY <1>7, <2>1 DEF Decide, Moves, Arrives, Places, server
  <1>8. CASE Create(j)
    <2>1. \E place \in {"publish", "failed"} :
            at' = [at EXCEPT ![j] = place] /\ at'[j] = place
      BY <1>1, <1>8 DEF Create, Goto, Places
    <2>2. Added(j)
      BY <1>8, CreateAdds
    <2> QED
      BY <1>8, <2>1, <2>2 DEF Create, Moves, Arrives, Places
  <1>9. ASSUME NEW r \in releases, Publish(j, r)
        PROVE  Moves(j) /\ Arrives(j)
    <2>1. \E place \in {"verify", "failed"} :
            at' = [at EXCEPT ![j] = place] /\ at'[j] = place
      BY <1>1, <1>9 DEF Publish, Goto, Places
    <2>2. Revealed(j)
      BY <1>9, PublishReveals
    <2> QED
      BY <1>9, <2>1, <2>2 DEF Publish, Moves, Arrives, Places
  <1>10. CASE Verify(j)
    <2>1. \E place \in {"done", "failed"} :
            at' = [at EXCEPT ![j] = place] /\ at'[j] = place
      BY <1>1, <1>10 DEF Verify, Goto, Places
    <2> QED
      BY <1>10, <2>1 DEF Verify, Moves, Arrives, Places, server
  <1> QED
    BY <1>2, <1>3, <1>4, <1>5, <1>6, <1>7, <1>8, <1>9, <1>10 DEF Job

LEMMA StepKinds ==
  ASSUME JobTypeInv, [Next]_vars
  PROVE  \/ Still
         \/ \E j \in Jobs :
              \/ \E v \in Versions, annotated \in BOOLEAN : PushTag(v, annotated, j)
              \/ \E k \in Jobs : Rerun(k, j)
              \/ Moves(j) /\ Arrives(j)
  <1>1. CASE Shell \/ Over \/ UNCHANGED vars
    BY <1>1 DEF Shell, Over, vars, Still
  <1> QED
    BY <1>1, JobKinds DEF Next

\* A job that begins had no commit; the others stay where they are.
LEMMA BeginTypes ==
  ASSUME JobTypeInv, NEW j \in Jobs, NEW v \in Versions, Begin(j, v)
  PROVE  /\ at' \in [Jobs -> Places] /\ sha' \in [Jobs -> Versions \cup {"none"}]
         /\ at'[j] = "look" /\ sha'[j] = v /\ at[j] = "unborn"
         /\ \A k \in Jobs : k # j => at'[k] = at[k] /\ sha'[k] = sha[k]
  BY DEF Begin, JobTypeInv, TypeOK, Places

LEMMA MovesTypes ==
  ASSUME JobTypeInv, NEW j \in Jobs, Moves(j)
  PROVE  /\ at' \in [Jobs -> Places]
         /\ at'[j] \in Places \ {"unborn", "look"}
         /\ \A k \in Jobs : k # j => at'[k] = at[k]
  BY DEF Moves, JobTypeInv, TypeOK, Places

LEMMA JobTypeStep ==
  ASSUME JobTypeInv, [Next]_vars, OutputTypeOK'
  PROVE  JobTypeInv'
  <1>1. OutputTypeOK /\ JobTypes
    BY TypeParts
  <1>2. CASE Still
    BY <1>1, <1>2, TypeParts
    DEF Still, server, jobs, JobTypes, ShapeInv, Release, JobTypeInv, TypeOK, Places
  <1>3. ASSUME NEW j \in Jobs, NEW v \in Versions, NEW annotated \in BOOLEAN,
               PushTag(v, annotated, j)
        PROVE  JobTypeInv'
    <2>1. /\ at' \in [Jobs -> Places] /\ sha' \in [Jobs -> Versions \cup {"none"}]
          /\ at'[j] = "look" /\ sha'[j] = v
          /\ \A k \in Jobs : k # j => at'[k] = at[k] /\ sha'[k] = sha[k]
      BY <1>3, BeginTypes DEF PushTag
    <2>2. /\ tag' \in [version : Versions \cup {"none"}, annotated : BOOLEAN]
          /\ moved' \in [Jobs -> BOOLEAN]
      BY <1>1, <1>3 DEF PushTag, JobTypes
    <2>3. UNCHANGED <<caller, protected, releases, alone>>
      BY <1>3 DEF PushTag
    <2>4. ShapeInv'
      BY <1>1, <2>1, <2>3 DEF JobTypes, ShapeInv, Release
    <2> QED
      BY <1>1, <2>1, <2>2, <2>3, <2>4 DEF JobTypeInv, TypeOK, JobTypes, Places
  <1>4. ASSUME NEW j \in Jobs, NEW k \in Jobs, Rerun(k, j)
        PROVE  JobTypeInv'
    <2>1. sha[k] \in Versions
      BY <1>1, <1>4 DEF Rerun, JobTypes, ShapeInv
    <2>2. /\ at' \in [Jobs -> Places] /\ sha' \in [Jobs -> Versions \cup {"none"}]
          /\ at'[j] = "look" /\ sha'[j] = sha[k]
          /\ \A i \in Jobs : i # j => at'[i] = at[i] /\ sha'[i] = sha[i]
      BY <1>4, <2>1, BeginTypes DEF Rerun
    <2>3. UNCHANGED <<caller, protected, tag, releases, moved, alone>>
      BY <1>4 DEF Rerun, server
    <2>4. ShapeInv'
      BY <1>1, <2>1, <2>2, <2>3 DEF JobTypes, ShapeInv, Release
    <2> QED
      BY <1>1, <2>2, <2>3, <2>4 DEF JobTypeInv, TypeOK, JobTypes, Places
  <1>5. ASSUME NEW j \in Jobs, Moves(j), Arrives(j)
        PROVE  JobTypeInv'
    <2>1. /\ at' \in [Jobs -> Places] /\ at[j] # "unborn"
          /\ \A k \in Jobs : k # j => at'[k] = at[k]
          /\ UNCHANGED <<caller, protected, tag, sha, moved>>
      BY <1>5, MovesTypes DEF Moves
    <2>2. alone' \in [Jobs -> BOOLEAN]
      BY <1>1, <1>5 DEF Arrives, Look, JobTypes
    <2>3. \A k \in Jobs : at'[k] # "unborn" => sha'[k] \in Versions
      BY <1>1, <2>1 DEF JobTypes, ShapeInv
    <2>4. \A r \in releases' : /\ r.job \in Jobs /\ r.version \in Versions
                               /\ r.draft \in BOOLEAN /\ Release(r)
      <3>1. \A r \in releases : /\ r.job \in Jobs /\ r.version \in Versions
                                /\ r.draft \in BOOLEAN /\ Release(r)
        BY <1>1 DEF JobTypes, ShapeInv
      <3>2. sha[j] \in Versions
        BY <1>1, <2>1 DEF JobTypes, ShapeInv
      <3>3. CASE Added(j)
        <4>1. PICK assets : releases' = releases \cup {Draft(j, assets)}
          BY <3>3 DEF Added
        <4> DEFINE new == Draft(j, assets)
        <4>2. new.job = j /\ new.version = sha[j] /\ new.draft = TRUE /\ Release(new)
          BY DraftShape
        <4> HIDE DEF new
        <4> QED
          BY <3>1, <3>2, <4>1, <4>2 DEF new
      <3>4. CASE Revealed(j)
        <4>1. PICK r \in releases :
                releases' = releases \/ releases' = (releases \ {r}) \cup {Opened(r)}
          BY <3>4 DEF Revealed
        <4>2. /\ Opened(r).job = r.job /\ Opened(r).version = r.version
              /\ Opened(r).draft = FALSE /\ Release(Opened(r))
          BY OpenedShape
        <4> QED
          BY <3>1, <4>1, <4>2
      <3> QED
        BY <1>5, <3>1, <3>3, <3>4 DEF Arrives
    <2>5. ShapeInv'
      BY <2>3, <2>4 DEF ShapeInv, Release
    <2> QED
      BY <1>1, <2>1, <2>2, <2>4, <2>5 DEF JobTypeInv, TypeOK, JobTypes, Places
  <1> QED
    BY <1>2, <1>3, <1>4, <1>5, StepKinds

-----------------------------------------------------------------------------
(* What a job is about to release *)

\* The conformance of a job is for its commit, and closed when it goes on.
ConformanceInv ==
  \A j \in Jobs :
    /\ at[j] \in {"conformance", "create"} =>
         now[j].command = "conformance" /\ now[j].version = sha[j]
    /\ at[j] = "create" => Closed(j)

JobOutputInv == JobTypeInv /\ OutputInv

\* A job's directory has no invocation but that of the job's conformance.
Kept(j) ==
  /\ now'[j] = now[j]
  /\ at[j] # "conformance" => dir'[j] = dir[j] /\ exit'[j] = exit[j]

LEMMA DirectoryKept ==
  ASSUME JobOutputInv, [Next]_vars, NEW j \in Jobs, at[j] # "gates"
  PROVE  Kept(j)
  <1>1. OutputTypeOK /\ j \in Owners /\ j # "shell" /\ "shell" \in Owners
    BY JobsOwnDirectories DEF JobOutputInv, JobTypeInv, TypeOK
  <1>2. CASE Shell
    BY <1>1, <1>2, OthersUntouched, JobAssumption DEF Shell, Kept
  <1>3. ASSUME NEW k \in Jobs, NEW closed \in BOOLEAN, Conform(k, closed)
        PROVE  Kept(j)
    <2>1. k # j /\ at[k] = "gates" /\ k \in Owners
      BY <1>3, JobsOwnDirectories DEF Conform
    <2>2. sha[k] \in Versions
      BY <2>1 DEF JobOutputInv, JobTypeInv, ShapeInv
    <2>3. [command |-> "conformance", version |-> sha[k], closed |-> closed] \in Invocation
      BY <2>2 DEF Invocation
    <2> QED
      BY <1>1, <1>3, <2>1, <2>3, OthersUntouched DEF Conform, Kept
  <1>4. ASSUME NEW k \in Jobs, Conformance(k)
        PROVE  Kept(j)
    <2>1. CASE k # j
      BY <1>1, <1>4, <2>1, OthersUntouched, JobsOwnDirectories DEF Conformance, Kept
    <2>2. CASE k = j
      BY <1>4, <2>2
      DEF Conformance, OutputStep, Open, Fill, Stop, Finish, Kept
    <2> QED
      BY <2>1, <2>2
  <1>5. CASE UNCHANGED output
    BY <1>5 DEF output, Kept
  <1>6. ASSUME NEW k \in Jobs, Job(k)
        PROVE  Kept(j)
    <2>1. ASSUME NEW r \in releases, Publish(k, r) PROVE UNCHANGED output
      BY <2>1 DEF Publish
    <2> QED
      BY <1>3, <1>4, <1>5, <1>6, <2>1
      DEF Job, Fail, Look, CheckTag, Decide, Create, Verify
  <1>7. ASSUME NEW k \in Jobs, NEW v \in Versions, NEW annotated \in BOOLEAN,
               PushTag(v, annotated, k)
        PROVE  UNCHANGED output
    BY <1>7 DEF PushTag
  <1>8. ASSUME NEW k \in Jobs, NEW i \in Jobs, Rerun(i, k) PROVE UNCHANGED output
    BY <1>8 DEF Rerun
  <1>9. CASE Over \/ UNCHANGED vars
    BY <1>5, <1>9 DEF Over, vars
  <1> QED
    BY <1>2, <1>5, <1>6, <1>7, <1>8, <1>9 DEF Next

LEMMA ConformanceStep ==
  ASSUME JobOutputInv, ConformanceInv, [Next]_vars
  PROVE  ConformanceInv'
  <1>1. ASSUME NEW k \in Jobs, at'[k] = at[k], sha'[k] = sha[k]
        PROVE  /\ at'[k] \in {"conformance", "create"} =>
                    now'[k].command = "conformance" /\ now'[k].version = sha'[k]
               /\ at'[k] = "create" => Closed(k)'
    BY <1>1, DirectoryKept DEF ConformanceInv, Kept, Closed, Whole
  <1>2. CASE Still
    BY <1>1, <1>2 DEF Still, jobs, ConformanceInv
  <1>3. ASSUME NEW j \in Jobs, NEW v \in Versions, Begin(j, v)
        PROVE  ConformanceInv'
    <2>1. /\ at'[j] = "look"
          /\ \A k \in Jobs : k # j => at'[k] = at[k] /\ sha'[k] = sha[k]
      BY <1>3, BeginTypes DEF JobOutputInv
    <2> QED
      BY <1>1, <2>1 DEF ConformanceInv
  <1>4. ASSUME NEW j \in Jobs, NEW k \in Jobs, Rerun(k, j)
        PROVE  ConformanceInv'
    <2>1. sha[k] \in Versions
      BY <1>4 DEF Rerun, JobOutputInv, JobTypeInv, ShapeInv
    <2> QED
      BY <1>3, <1>4, <2>1 DEF Rerun
  <1>5. ASSUME NEW j \in Jobs, Moves(j), Arrives(j)
        PROVE  ConformanceInv'
    <2>1. sha' = sha /\ \A k \in Jobs : k # j => at'[k] = at[k]
      BY <1>5, MovesTypes DEF Moves, JobOutputInv
    <2>2. ASSUME at'[j] = "conformance"
          PROVE  now'[j].command = "conformance" /\ now'[j].version = sha[j]
      <3>1. PICK closed \in BOOLEAN : Conform(j, closed)
        BY <1>5, <2>2 DEF Arrives
      <3>2. now \in [Owners -> Invocation] /\ j \in Owners
        BY JobsOwnDirectories DEF JobOutputInv, JobTypeInv, TypeOK, OutputTypeOK
      <3>3. now'[j] = [command |-> "conformance", version |-> sha[j], closed |-> closed]
        BY <3>1, <3>2 DEF Conform, Invoke
      <3> QED
        BY <3>3
    <2>3. ASSUME at'[j] = "create"
          PROVE  /\ now'[j].command = "conformance" /\ now'[j].version = sha[j]
                 /\ Closed(j)'
      <3>1. Decide(j) /\ at[j] = "conformance" /\ Closed(j) /\ UNCHANGED output
        <4>1. Decide(j) /\ at[j] = "conformance" /\ UNCHANGED output
          BY <1>5, <2>3 DEF Arrives, Decide
        <4>2. at'[j] = IF Closed(j) THEN "create" ELSE "failed"
          BY <4>1 DEF Decide, Goto, JobOutputInv, JobTypeInv, TypeOK
        <4> QED
          BY <2>3, <4>1, <4>2
      <3> QED
        BY <3>1 DEF ConformanceInv, Closed, Whole, output
    <2> QED
      BY <1>1, <2>1, <2>2, <2>3 DEF ConformanceInv
  <1> QED
    BY <1>2, <1>3, <1>4, <1>5, StepKinds DEF PushTag, JobOutputInv

\* A job that goes on has a complete output to release.
LEMMA ClosedIsComplete ==
  ASSUME JobOutputInv, ConformanceInv, NEW j \in Jobs, at[j] = "create"
  PROVE  Complete(Draft(j, dir[j]))
  <1>1. /\ OwnerInv(j) /\ OutputTypeOK /\ j \in Owners
        /\ now[j].command = "conformance" /\ now[j].version = sha[j] /\ Closed(j)
    BY JobsOwnDirectories DEF JobOutputInv, OutputInv, OutputTypeInv, ConformanceInv
  <1>2. /\ Whole(dir[j][Report]) /\ dir[j][Report].closed /\ step[j] = 9
        /\ dir[j][Report].bytes = <<sha[j], number[j]>>
    BY <1>1 DEF Closed, OwnerInv, OwnInv
  <1>3. \A k \in 1..7 :
          dir[j][Artifacts[k]].bytes = Bytes(Artifacts[k], sha[j], number[j])
    BY <1>1, <1>2 DEF Closed, OwnerInv, WrittenInv, Current
  <1>4. dir[j][Report].bytes[1] = sha[j] /\ dir[j][Report].bytes[2] = number[j]
    BY <1>2
  <1>5. OfOneInvocation(dir[j])
    BY <1>3, <1>4 DEF OfOneInvocation
  <1>6. Verified(dir[j])
    BY <1>1, <1>2, <1>3, <1>4 DEF OwnerInv, DigestInv, Verified
  <1>7. dir[j] # <<>>
    <2>1. DOMAIN dir[j] = Files /\ Report \in Files
      BY <1>1 DEF OutputTypeOK, Files
    <2> QED
      BY <2>1
  <1>8. ASSUME NEW r, r.assets = dir[j], r.version = sha[j]
        PROVE  Complete(r)
    BY <1>2, <1>4, <1>5, <1>6, <1>7, <1>8, Zenon DEF Complete
  <1> DEFINE new == Draft(j, dir[j])
  <1>9. new.assets = dir[j] /\ new.version = sha[j]
    BY DraftShape
  <1> HIDE DEF new
  <1>10. Complete(new)
    BY <1>8, <1>9
  <1> QED
    BY <1>10 DEF new

-----------------------------------------------------------------------------
(* The releases of the tag *)

SomeComplete == \E s \in releases : Complete(s)

\* Nothing is published before a job has uploaded a complete draft.
CompleteInv ==
  (\E j \in Jobs : at[j] = "publish") \/ Published # {} => SomeComplete

LEMMA CompleteStep ==
  ASSUME JobOutputInv, ConformanceInv, CompleteInv, [Next]_vars
  PROVE  CompleteInv'
  <1>1. JobTypeInv
    BY DEF JobOutputInv
  <1>2. ASSUME NEW j \in Jobs, NEW v \in Versions, Begin(j, v), UNCHANGED releases
        PROVE  CompleteInv'
    <2>1. \A k \in Jobs : at'[k] = "publish" => at[k] = "publish"
      BY <1>1, <1>2, BeginTypes
    <2> QED
      BY <1>2, <2>1 DEF CompleteInv, Published, SomeComplete, Complete, Verified,
                        OfOneInvocation, Whole
  <1>3. ASSUME NEW j \in Jobs, NEW k \in Jobs, Rerun(k, j)
        PROVE  CompleteInv'
    <2>1. sha[k] \in Versions
      BY <1>1, <1>3 DEF Rerun, JobTypeInv, ShapeInv
    <2> QED
      BY <1>2, <1>3, <2>1 DEF Rerun, server
  <1>4. ASSUME NEW j \in Jobs, Moves(j), Arrives(j)
        PROVE  CompleteInv'
    <2>1. \A k \in Jobs : k # j => at'[k] = at[k]
      BY <1>1, <1>4, MovesTypes
    <2>2. CASE Added(j)
      <3>1. PICK assets \in {dir[j], <<>>} :
              /\ releases' = releases \cup {Draft(j, assets)}
              /\ at'[j] = "publish" => assets = dir[j]
        BY <2>2 DEF Added
      <3>2. Draft(j, assets).draft = TRUE
        BY DraftShape
      <3>3. Published' = Published
        BY <3>1, <3>2 DEF Published
      <3>4. at'[j] = "publish" => SomeComplete'
        <4>1. at[j] = "create"
          BY <2>2 DEF Added
        <4>2. Complete(Draft(j, dir[j]))
          BY <4>1, ClosedIsComplete
        <4>3. at'[j] = "publish" => Draft(j, dir[j]) \in releases'
          BY <3>1
        <4>4. \A s : Complete(s)' <=> Complete(s)
          BY DEF Complete, Verified, OfOneInvocation, Whole
        <4> QED
          BY <4>2, <4>3, <4>4 DEF SomeComplete
      <3>5. SomeComplete => SomeComplete'
        BY <3>1 DEF SomeComplete, Complete, Verified, OfOneInvocation, Whole
      <3> QED
        BY <2>1, <3>3, <3>4, <3>5 DEF CompleteInv
    <2>3. CASE Revealed(j)
      <3>1. at[j] = "publish" /\ SomeComplete
        BY <2>3 DEF Revealed, CompleteInv
      <3>2. PICK r \in releases :
              releases' = releases \/ releases' = (releases \ {r}) \cup {Opened(r)}
        BY <2>3 DEF Revealed
      <3>3. Opened(r).assets = r.assets /\ Opened(r).version = r.version
        BY <1>1, OpenedShape
      <3>4. Complete(r) => Complete(Opened(r))
        BY <3>3 DEF Complete
      <3>5. SomeComplete'
        <4>1. \A s : Complete(s)' <=> Complete(s)
          BY DEF Complete, Verified, OfOneInvocation, Whole
        <4> QED
          BY <3>1, <3>2, <3>4, <4>1 DEF SomeComplete
      <3> QED
        BY <3>5 DEF CompleteInv
    <2>4. CASE UNCHANGED releases
      <3>1. at'[j] = "publish" => Added(j)
        BY <1>4 DEF Arrives
      <3>2. CASE at'[j] # "publish"
        <4>1. SomeComplete' <=> SomeComplete
          BY <2>4 DEF SomeComplete, Complete, Verified, OfOneInvocation, Whole
        <4>2. Published' = Published
          BY <2>4 DEF Published
        <4> QED
          BY <2>1, <3>2, <4>1, <4>2 DEF CompleteInv
      <3> QED
        BY <2>2, <3>1, <3>2
    <2> QED
      BY <1>4, <2>2, <2>3, <2>4 DEF Arrives
  <1>5. CASE Still
    BY <1>5 DEF Still, server, jobs, CompleteInv, Published, SomeComplete, Complete,
                Verified, OfOneInvocation, Whole
  <1> QED
    BY <1>1, <1>2, <1>3, <1>4, <1>5, StepKinds DEF PushTag

\* A draft with assets holds a whole output of a closed conformance.
AssetsInv == \A r \in releases : r.assets # <<>> => Complete(r)

LEMMA AssetsStep ==
  ASSUME JobOutputInv, ConformanceInv, AssetsInv, [Next]_vars
  PROVE  AssetsInv'
  <1>1. JobTypeInv
    BY DEF JobOutputInv
  <1>2. \A r : Complete(r)' <=> Complete(r)
    BY DEF Complete, Verified, OfOneInvocation, Whole
  <1>3. CASE UNCHANGED releases
    BY <1>2, <1>3 DEF AssetsInv
  <1>4. ASSUME NEW j \in Jobs, Added(j)
        PROVE  AssetsInv'
    <2>0. ASSUME NEW some PROVE Draft(j, some).assets = some
      BY DEF Draft
    <2>1. PICK assets \in {dir[j], <<>>} : releases' = releases \cup {Draft(j, assets)}
      BY <1>4 DEF Added
    <2>2. Complete(Draft(j, dir[j]))
      BY <1>4, ClosedIsComplete DEF Added
    <2> DEFINE new == Draft(j, assets)
    <2>3. new.assets = assets
      BY <2>0, Zenon
    <2>4. new.assets # <<>> => Complete(new)
      <3>1. CASE assets = dir[j]
        BY <2>2, <3>1
      <3>2. CASE assets = <<>>
        <4> HIDE DEF new
        <4> QED
          BY <2>3, <3>2
      <3> QED
        BY <2>1, <3>1, <3>2
    <2>5. releases' = releases \cup {new}
      BY <2>1
    <2> HIDE DEF new
    <2>6. \A r \in releases' : r.assets # <<>> => Complete(r)
      BY <2>4, <2>5 DEF AssetsInv
    <2> QED
      BY <1>2, <2>6 DEF AssetsInv
  <1>5. ASSUME NEW j \in Jobs, Revealed(j)
        PROVE  AssetsInv'
    <2>1. PICK r \in releases :
            releases' = releases \/ releases' = (releases \ {r}) \cup {Opened(r)}
      BY <1>5 DEF Revealed
    <2>2. Opened(r).assets = r.assets /\ Opened(r).version = r.version
      BY <1>1, OpenedShape
    <2>3. Complete(r) => Complete(Opened(r))
      BY <2>2 DEF Complete
    <2> QED
      BY <1>2, <2>1, <2>2, <2>3 DEF AssetsInv
  <1> QED
    BY <1>1, <1>3, <1>4, <1>5, StepKinds DEF Still, server, PushTag, Rerun, Arrives

\* A job past the check of its tag, and its releases, have the tag's commit
\* until the tag moves.
TaggedInv ==
  /\ \A j \in Jobs :
       at[j] \notin {"unborn", "look", "tag", "failed"} /\ ~moved[j] =>
         sha[j] = tag.version
  /\ \A r \in releases :
       /\ at[r.job] \notin {"unborn", "look", "tag"}
       /\ ~moved[r.job] => r.version = tag.version

LEMMA TaggedStep ==
  ASSUME JobTypeInv, TaggedInv, [Next]_vars
  PROVE  TaggedInv'
  <1>1. /\ at \in [Jobs -> Places] /\ moved \in [Jobs -> BOOLEAN]
        /\ \A r \in releases : r.job \in Jobs
    BY DEF JobTypeInv, TypeOK, Places
  <1>2. CASE Still
    BY <1>2 DEF Still, server, jobs, TaggedInv
  <1>3. ASSUME NEW j \in Jobs, NEW v \in Versions, NEW annotated \in BOOLEAN,
               PushTag(v, annotated, j)
        PROVE  TaggedInv'
    <2>1. /\ at'[j] = "look" /\ at[j] = "unborn"
          /\ \A k \in Jobs : k # j => at'[k] = at[k]
      BY <1>3, BeginTypes DEF PushTag
    <2>2. /\ \A k \in Jobs : at[k] \notin {"unborn", "look", "tag"} => moved'[k]
          /\ releases' = releases
      BY <1>3 DEF PushTag
    <2> QED
      BY <1>1, <2>1, <2>2 DEF TaggedInv
  <1>4. ASSUME NEW j \in Jobs, NEW k \in Jobs, Rerun(k, j)
        PROVE  TaggedInv'
    <2>1. sha[k] \in Versions
      BY <1>4 DEF Rerun, JobTypeInv, ShapeInv
    <2>2. /\ at'[j] = "look" /\ at[j] = "unborn"
          /\ \A i \in Jobs : i # j => at'[i] = at[i] /\ sha'[i] = sha[i]
      BY <1>4, <2>1, BeginTypes DEF Rerun
    <2>3. UNCHANGED <<tag, releases, moved>>
      BY <1>4 DEF Rerun, server
    <2> QED
      BY <1>1, <2>2, <2>3 DEF TaggedInv
  <1>5. ASSUME NEW j \in Jobs, Moves(j), Arrives(j)
        PROVE  TaggedInv'
    <2>1. /\ at'[j] \in Places \ {"unborn", "look"}
          /\ \A k \in Jobs : k # j => at'[k] = at[k]
          /\ UNCHANGED <<tag, sha, moved>>
      BY <1>5, MovesTypes DEF Moves
    <2>2. at'[j] = "tag" => at[j] = "look"
      BY <1>5 DEF Arrives, Look
    <2>3. at'[j] = "gates" => sha[j] = tag.version
      <3>1. SUFFICES ASSUME at'[j] = "gates", CheckTag(j) PROVE TagChecked(j)
        BY <1>5 DEF Arrives, TagChecked
      <3>2. at'[j] = IF TagChecked(j) THEN "gates" ELSE "failed"
        BY <1>1, <3>1 DEF CheckTag, Goto
      <3> QED
        BY <3>1, <3>2
    <2>4. at'[j] \in {"conformance", "create", "publish", "verify", "done"} =>
            at[j] \notin {"unborn", "look", "tag", "failed"}
      BY <1>5 DEF Arrives, Conform, Decide, Added
    <2>5. \A k \in Jobs :
            at'[k] \notin {"unborn", "look", "tag", "failed"} /\ ~moved[k] =>
              sha[k] = tag.version
      BY <2>1, <2>3, <2>4 DEF TaggedInv, Places
    <2>6. \A r \in releases' :
            /\ at'[r.job] \notin {"unborn", "look", "tag"}
            /\ ~moved[r.job] => r.version = tag.version
      <3>1. \A r \in releases :
              /\ at'[r.job] \notin {"unborn", "look", "tag"}
              /\ ~moved[r.job] => r.version = tag.version
        BY <1>1, <2>1, <2>2 DEF TaggedInv
      <3>2. CASE Added(j)
        <4>1. PICK assets : releases' = releases \cup {Draft(j, assets)}
          BY <3>2 DEF Added
        <4> DEFINE new == Draft(j, assets)
        <4>2. new.job = j /\ new.version = sha[j]
          BY DraftShape
        <4>3. /\ at[j] = "create" /\ at'[j] \in {"publish", "failed"}
              /\ ~moved[j] => sha[j] = tag.version
          BY <3>2 DEF Added, TaggedInv
        <4> HIDE DEF new
        <4> QED
          BY <3>1, <4>1, <4>2, <4>3 DEF new
      <3>3. CASE Revealed(j)
        <4>1. PICK r \in releases :
                releases' = releases \/ releases' = (releases \ {r}) \cup {Opened(r)}
          BY <3>3 DEF Revealed
        <4>2. Opened(r).job = r.job /\ Opened(r).version = r.version
          BY OpenedShape
        <4> QED
          BY <3>1, <4>1, <4>2
      <3> QED
        BY <1>5, <3>1, <3>2, <3>3 DEF Arrives
    <2> QED
      BY <2>1, <2>5, <2>6 DEF TaggedInv
  <1> QED
    BY <1>2, <1>3, <1>4, <1>5, StepKinds

Window == {"tag", "gates", "conformance", "create"}

\* Of the jobs that had the tag for themselves at most one is between its lookup
\* and its draft, and then none of them has a release yet.
AloneInv ==
  /\ \A j \in Jobs : at[j] \in {"unborn", "look"} => alone[j]
  /\ \A j, k \in Jobs :
       alone[j] /\ alone[k] /\ at[j] \in Window /\ at[k] \in Window => j = k
  /\ \A j \in Jobs :
       alone[j] /\ at[j] \in Window => \A r \in releases : ~alone[r.job]
  /\ OneRelease

\* A job passes its lookup when it is answered that there is no release.
LEMMA LookFacts ==
  ASSUME JobTypeInv, NEW j \in Jobs, NEW answered \in BOOLEAN, Look(j, answered)
  PROVE  /\ at[j] = "look" /\ UNCHANGED releases
         /\ alone'[j] = (answered /\ Pending = {j})
         /\ \A k \in Jobs : k # j => alone'[k] = alone[k]
         /\ at'[j] = "tag" => ~answered \/ releases = {}
  <1>1. at'[j] = IF answered /\ Found THEN "failed" ELSE "tag"
    BY DEF Look, Goto, JobTypeInv, TypeOK
  <1>2. alone' = [alone EXCEPT ![j] = answered /\ Pending = {j}]
    BY DEF Look
  <1>3. alone \in [Jobs -> BOOLEAN]
    BY DEF JobTypeInv, TypeOK
  <1>4. alone'[j] = (answered /\ Pending = {j})
    BY <1>2, <1>3, Zenon
  <1>5. \A k \in Jobs : k # j => alone'[k] = alone[k]
    BY <1>2, <1>3, Zenon
  <1> QED
    BY <1>1, <1>4, <1>5 DEF Look, server, Found

LEMMA AloneStep ==
  ASSUME JobTypeInv, AloneInv, [Next]_vars
  PROVE  AloneInv'
  <1>0. \A r \in releases : r.job \in Jobs
    BY DEF JobTypeInv, TypeOK
  <1>1. CASE Still
    BY <1>1 DEF Still, server, jobs, AloneInv, OneRelease
  <1>2. ASSUME NEW j \in Jobs, NEW v \in Versions, Begin(j, v),
               UNCHANGED <<releases, alone>>
        PROVE  AloneInv'
    <2>1. /\ at'[j] = "look" /\ at[j] = "unborn"
          /\ \A k \in Jobs : k # j => at'[k] = at[k]
      BY <1>2, BeginTypes
    <2> QED
      BY <1>2, <2>1 DEF AloneInv, OneRelease, Window
  <1>3. ASSUME NEW j \in Jobs, NEW k \in Jobs, Rerun(k, j)
        PROVE  AloneInv'
    <2>1. sha[k] \in Versions
      BY <1>3 DEF Rerun, JobTypeInv, ShapeInv
    <2> QED
      BY <1>2, <1>3, <2>1 DEF Rerun, server
  <1>4. ASSUME NEW j \in Jobs, Moves(j), Arrives(j)
        PROVE  AloneInv'
    <2>1. /\ at'[j] \in Places \ {"unborn", "look"}
          /\ \A k \in Jobs : k # j => at'[k] = at[k]
      BY <1>4, MovesTypes
    <2>2. ASSUME NEW answered \in BOOLEAN, Look(j, answered)
          PROVE  AloneInv'
      <3>1. /\ at[j] = "look" /\ UNCHANGED releases
            /\ alone'[j] = (answered /\ Pending = {j})
            /\ \A k \in Jobs : k # j => alone'[k] = alone[k]
            /\ at'[j] = "tag" => ~answered \/ releases = {}
        BY <2>2, LookFacts
      <3>2. /\ \A k \in Jobs : at'[k] \in {"unborn", "look"} => alone'[k]
            /\ \A k \in Jobs : alone'[k] => alone[k]
        BY <2>1, <3>1 DEF AloneInv
      <3>3. ASSUME at'[j] \in Window, alone'[j]
            PROVE  /\ releases' = {}
                   /\ \A k \in Jobs : k # j => at'[k] \notin Window
        <4>1. answered /\ Pending = {j}
          BY <3>1, <3>3
        <4>2. \A k \in Jobs : k # j => at[k] \notin Window
          BY <4>1 DEF Pending, Window
        <4>3. at'[j] = "tag"
          <5>1. at[j] = "look"
            BY <3>1
          <5> QED
            BY <1>4, <3>3, <5>1 DEF Arrives, CheckTag, Conform, Decide, Window
        <4> QED
          BY <2>1, <3>1, <4>1, <4>2, <4>3
      <3>4. OneRelease'
        BY <1>0, <3>1, <3>2 DEF AloneInv, OneRelease
      <3>5. \A i, k \in Jobs :
              alone'[i] /\ alone'[k] /\ at'[i] \in Window /\ at'[k] \in Window => i = k
        BY <2>1, <3>2, <3>3 DEF AloneInv
      <3>6. ASSUME NEW k \in Jobs, alone'[k], at'[k] \in Window
            PROVE  \A r \in releases' : ~alone'[r.job]
        BY <1>0, <2>1, <3>1, <3>2, <3>3, <3>6 DEF AloneInv
      <3> QED
        BY <3>2, <3>4, <3>5, <3>6 DEF AloneInv
    <2>3. CASE UNCHANGED alone
      <3>1. at'[j] # "tag" \/ \E answered \in BOOLEAN : Look(j, answered)
        BY <1>4 DEF Arrives
      <3>2. CASE at'[j] = "tag"
        BY <2>2, <3>1, <3>2
      <3>3. CASE at'[j] # "tag"
        <4>1. at'[j] \in Window => at[j] \in Window
          BY <1>4, <3>3 DEF Arrives, CheckTag, Conform, Decide, Window
        <4>2. at'[j] \in Window => releases' = releases
          BY <1>4 DEF Arrives, Added, Revealed, Window
        <4>3. \A k \in Jobs : at'[k] \in {"unborn", "look"} => alone'[k]
          BY <2>1, <2>3 DEF AloneInv
        <4>4. \A i, k \in Jobs :
                alone'[i] /\ alone'[k] /\ at'[i] \in Window /\ at'[k] \in Window => i = k
          BY <2>1, <2>3, <4>1 DEF AloneInv
        <4>5. CASE UNCHANGED releases
          BY <2>1, <2>3, <4>1, <4>3, <4>4, <4>5 DEF AloneInv, OneRelease
        <4>6. CASE Added(j)
          <5>1. PICK assets : releases' = releases \cup {Draft(j, assets)}
            BY <4>6 DEF Added
          <5> DEFINE new == Draft(j, assets)
          <5>2. new.job = j
            BY DraftShape
          <5>3. at[j] \in Window /\ at'[j] \notin Window
            BY <4>6 DEF Added, Window
          <5>4. alone[j] => \A r \in releases : ~alone[r.job]
            BY <5>3 DEF AloneInv
          <5> HIDE DEF new
          <5>5. releases' = releases \cup {new}
            BY <5>1 DEF new
          <5>6. OneRelease'
            BY <2>3, <5>2, <5>4, <5>5 DEF AloneInv, OneRelease
          <5>7. ASSUME NEW k \in Jobs, alone'[k], at'[k] \in Window
                PROVE  \A r \in releases' : ~alone'[r.job]
            <6>1. k # j /\ alone[k] /\ at[k] \in Window
              BY <2>1, <2>3, <5>3, <5>7
            <6>2. ~alone[j]
              BY <5>3, <6>1 DEF AloneInv
            <6> QED
              BY <2>3, <5>2, <5>5, <6>1, <6>2 DEF AloneInv
          <5> QED
            BY <4>3, <4>4, <5>6, <5>7 DEF AloneInv
        <4>7. CASE Revealed(j)
          <5>1. PICK r \in releases :
                  releases' = releases \/ releases' = (releases \ {r}) \cup {Opened(r)}
            BY <4>7 DEF Revealed
          <5>2. Opened(r).job = r.job
            BY OpenedShape
          <5>3. OneRelease'
            <6>1. CASE releases' = releases
              BY <2>3, <6>1 DEF AloneInv, OneRelease
            <6>2. CASE releases' = (releases \ {r}) \cup {Opened(r)}
              BY <2>3, <5>2, <6>2 DEF AloneInv, OneRelease
            <6> QED
              BY <5>1, <6>1, <6>2
          <5>4. at'[j] \notin Window
            BY <4>7 DEF Revealed, Window
          <5>5. ASSUME NEW k \in Jobs, alone'[k], at'[k] \in Window
                PROVE  \A s \in releases' : ~alone'[s.job]
            <6>1. k # j /\ alone[k] /\ at[k] \in Window
              BY <2>1, <2>3, <5>4, <5>5
            <6> QED
              BY <2>3, <5>1, <5>2, <6>1 DEF AloneInv
          <5> QED
            BY <4>3, <4>4, <5>3, <5>5 DEF AloneInv
        <4> QED
          BY <1>4, <4>5, <4>6, <4>7 DEF Arrives
      <3> QED
        BY <3>2, <3>3
    <2> QED
      BY <1>4, <2>2, <2>3 DEF Arrives
  <1> QED
    BY <1>1, <1>2, <1>3, <1>4, StepKinds DEF PushTag

-----------------------------------------------------------------------------
(* The success of a job *)

\* A job that has succeeded found a published release, which is immutable.
DoneInv == \A j \in Jobs : at[j] = "done" => ForGood

\* What is published for good is the only release that gh can publish, and its
\* tag is not pushed again.
LEMMA ForGoodStays ==
  ASSUME JobTypeInv, ForGood, [Next]_vars
  PROVE  UNCHANGED <<tag, Published, protected>>
  <1>1. Published # {} /\ protected
    BY DEF ForGood
  <1>2. CASE UNCHANGED <<tag, releases, protected>>
    BY <1>2 DEF Published
  <1>3. ASSUME NEW j \in Jobs, NEW v \in Versions, NEW annotated \in BOOLEAN,
               PushTag(v, annotated, j)
        PROVE  FALSE
    BY <1>1, <1>3 DEF PushTag
  <1>4. ASSUME NEW j \in Jobs, Moves(j), Arrives(j)
        PROVE  UNCHANGED <<tag, Published, protected>>
    <2>1. UNCHANGED <<tag, protected>>
      BY <1>4 DEF Moves
    <2>2. CASE Added(j)
      <3>1. PICK assets : releases' = releases \cup {Draft(j, assets)}
        BY <2>2 DEF Added
      <3>2. Draft(j, assets).draft = TRUE
        BY DraftShape
      <3> QED
        BY <2>1, <3>1, <3>2 DEF Published
    <2>3. CASE Revealed(j)
      <3>1. PICK r \in releases :
              \/ releases' = releases
              \/ /\ r.draft => Published = {}
                 /\ releases' = (releases \ {r}) \cup {Opened(r)}
        BY <2>3 DEF Revealed
      <3>2. CASE r.draft
        BY <1>1, <1>2, <2>1, <3>1, <3>2
      <3>3. CASE ~r.draft
        <4>1. Opened(r) = r
          BY <3>3, OpenedShape
        <4> QED
          BY <1>2, <2>1, <3>1, <4>1
      <3> QED
        BY <3>2, <3>3
    <2> QED
      BY <1>2, <1>4, <2>1, <2>2, <2>3 DEF Arrives
  <1> QED
    BY <1>2, <1>3, <1>4, StepKinds DEF Still, server, Rerun

LEMMA DoneStep ==
  ASSUME JobTypeInv, DoneInv, [Next]_vars
  PROVE  DoneInv'
  <1>1. ForGood => ForGood'
    BY ForGoodStays DEF ForGood
  <1>2. ASSUME NEW k \in Jobs, at[k] = "done" PROVE ForGood'
    BY <1>1, <1>2 DEF DoneInv
  <1>3. CASE Still
    BY <1>2, <1>3 DEF Still, jobs, DoneInv
  <1>4. ASSUME NEW j \in Jobs, NEW v \in Versions, Begin(j, v)
        PROVE  DoneInv'
    <2>1. \A k \in Jobs : at'[k] = "done" => at[k] = "done"
      BY <1>4, BeginTypes
    <2> QED
      BY <1>2, <2>1 DEF DoneInv
  <1>5. ASSUME NEW j \in Jobs, NEW k \in Jobs, Rerun(k, j)
        PROVE  DoneInv'
    <2>1. sha[k] \in Versions
      BY <1>5 DEF Rerun, JobTypeInv, ShapeInv
    <2> QED
      BY <1>4, <1>5, <2>1 DEF Rerun
  <1>6. ASSUME NEW j \in Jobs, Moves(j), Arrives(j)
        PROVE  DoneInv'
    <2>1. \A k \in Jobs : k # j => at'[k] = at[k]
      BY <1>6, MovesTypes
    <2>2. ASSUME at'[j] = "done" PROVE ForGood
      <3>1. Verify(j)
        BY <1>6, <2>2 DEF Arrives
      <3>2. at'[j] = IF ForGood THEN "done" ELSE "failed"
        BY <3>1 DEF Verify, Goto, JobTypeInv, TypeOK
      <3> QED
        BY <2>2, <3>2
    <2> QED
      BY <1>1, <1>2, <2>1, <2>2 DEF DoneInv
  <1> QED
    BY <1>3, <1>4, <1>5, <1>6, StepKinds DEF PushTag

-----------------------------------------------------------------------------
(* Theorems *)

IInv ==
  /\ JobOutputInv /\ ConformanceInv
  /\ CompleteInv /\ AssetsInv /\ TaggedInv /\ AloneInv /\ DoneInv

LEMMA InitIInv == Init => IInv
  <1> SUFFICES ASSUME Init PROVE IInv
    OBVIOUS
  <1>1. OutputInv /\ OutputTypeOK
    BY OutputInvInit DEF Init, OutputInv, OutputTypeInv
  <1>2. JobTypes
    BY DEF Init, JobTypes, ShapeInv, NoTag, Places
  <1>3. JobOutputInv
    BY <1>1, <1>2, TypeParts DEF JobOutputInv
  <1>4. \A j \in Jobs : at[j] = "unborn" /\ alone[j]
    BY DEF Init
  <1>5. releases = {}
    BY DEF Init
  <1>6. ConformanceInv /\ CompleteInv /\ AssetsInv /\ DoneInv
    BY <1>4, <1>5 DEF ConformanceInv, CompleteInv, AssetsInv, DoneInv, Published
  <1>7. TaggedInv /\ AloneInv
    BY <1>4, <1>5 DEF TaggedInv, AloneInv, OneRelease, Window
  <1> QED
    BY <1>3, <1>6, <1>7 DEF IInv

LEMMA NextIInv == IInv /\ [Next]_vars => IInv'
  <1> SUFFICES ASSUME IInv, [Next]_vars PROVE IInv'
    OBVIOUS
  <1>1. /\ JobTypeInv /\ OutputInv /\ JobOutputInv /\ ConformanceInv
        /\ CompleteInv /\ AssetsInv /\ TaggedInv /\ AloneInv /\ DoneInv
    BY DEF IInv, JobOutputInv
  <1>2. OutputInv'
    BY <1>1, NextIsOutput, OutputInvStep
  <1>3. OutputTypeOK'
    BY <1>2 DEF OutputInv, OutputTypeInv
  <1>4. JobTypeInv'
    BY <1>1, <1>3, JobTypeStep
  <1>5. /\ ConformanceInv' /\ CompleteInv' /\ AssetsInv'
        /\ TaggedInv' /\ AloneInv' /\ DoneInv'
    BY <1>1, ConformanceStep, CompleteStep, AssetsStep, TaggedStep, AloneStep, DoneStep
  <1> QED
    BY <1>2, <1>4, <1>5 DEF IInv, JobOutputInv

LEMMA SpecIInv == Spec => []IInv
  BY InitIInv, NextIInv, PTL DEF Spec

\* Every variable of the job and of the output directories keeps its type
\* (immutable-release.yml and WriteOutputs of output.go).
THEOREM Types == Spec => []TypeOK
  <1>1. IInv => TypeOK
    BY DEF IInv, JobOutputInv, JobTypeInv
  <1> QED
    BY <1>1, SpecIInv, PTL

\* The report of an output directory is written after the artifacts it sums up:
\* beside a complete report there are no older and no missing artifacts, whatever
\* commands were stopped in that directory (main.go, output.go).
THEOREM ReportIsLast == Spec => []ReportLast
  <1>1. IInv => ReportLast
    BY OutputInvSafe DEF IInv, JobOutputInv
  <1> QED
    BY <1>1, SpecIInv, PTL

\* Files that agree with the digests of their report were all written by the
\* invocation that wrote it (digestOutputs of output.go).
THEOREM NoMixtureUnnoticed == Spec => []MixtureNoticed
  <1>1. IInv => MixtureNoticed
    BY OutputInvSafe DEF IInv, JobOutputInv
  <1> QED
    BY <1>1, SpecIInv, PTL

\* A published release holds the complete output of a closed conformance, or
\* nothing at all and a complete one stands beside it (immutable-release.yml, from
\* the conformance to the publication of the draft).
THEOREM PublishedComplete == Spec => []PublishedIsClosed
  <1>1. IInv => PublishedIsClosed
    <2>1. SUFFICES ASSUME CompleteInv, AssetsInv, NEW r \in Published
                   PROVE  \/ Complete(r)
                          \/ r.assets = <<>> /\ \E s \in releases : Complete(s)
      BY DEF IInv, PublishedIsClosed
    <2>2. PICK s \in releases : Complete(s)
      BY <2>1 DEF CompleteInv, SomeComplete
    <2> QED
      BY <2>1, <2>2 DEF AssetsInv, Published
  <1> QED
    BY <1>1, SpecIInv, PTL

\* Two jobs that had the tag for themselves, and were answered, do not both give
\* it a release (immutable-release.yml, the lookup before the release).
THEOREM NoSecondRelease == Spec => []OneRelease
  <1>1. IInv => OneRelease
    BY DEF IInv, AloneInv
  <1> QED
    BY <1>1, SpecIInv, PTL

\* What is published has the commit of the tag until the tag moves
\* (immutable-release.yml, the check of the tag).
THEOREM PublishedFromTag == Spec => []PublishedCommitTagged
  <1>1. IInv => PublishedCommitTagged
    BY DEF IInv, TaggedInv, Published, PublishedCommitTagged
  <1> QED
    BY <1>1, SpecIInv, PTL

\* After the success of a job nothing moves the tag or changes what is published
\* (immutable-release.yml, the test of the release response).
THEOREM SuccessStays == Spec => SuccessIsFinal
  <1>1. ASSUME IInv, [Next]_vars, NEW j \in Jobs, at[j] = "done"
        PROVE  UNCHANGED <<tag, Published>>
    <2>1. JobTypeInv /\ ForGood
      BY <1>1 DEF IInv, JobOutputInv, DoneInv
    <2> QED
      BY <1>1, <2>1, ForGoodStays
  <1>2. IInv /\ [Next]_vars =>
          [(\E j \in Jobs : at[j] = "done") => UNCHANGED <<tag, Published>>]_vars
    BY <1>1
  <1> QED
    BY <1>2, SpecIInv, PTL DEF Spec, SuccessIsFinal

\* Whatever the jobs and the shell do, each directory is one as EvidenceOutput
\* describes it: the workflow runs conformance in it and touches its files in no
\* other way (immutable-release.yml, "Run the deterministic conformance").
THEOREM OutputImplemented == Spec => OutputSpec
  <1>1. Init => OutputInit
    BY DEF Init
  <1>2. IInv /\ [Next]_vars => [OutputNext]_output
    BY NextIsOutput DEF IInv, JobOutputInv
  <1> QED
    BY <1>1, <1>2, SpecIInv, PTL DEF Spec, OutputSpec

=============================================================================
