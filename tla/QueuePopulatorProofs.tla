------------------------ MODULE QueuePopulatorProofs ------------------------
(* For any number of processes, topics and records, any batch size, and any
   number of exits and provisions: the saved offset skips no record.

   NothingSkipped is not inductive, since the offset that is saved comes from the
   batch, and the batch starts at the reader's offset or at its cursor.  Inv adds
   that every reader's offset is covered, that its cursor is covered between two
   batches, and that during a batch the only entries before the next offset that
   may be missing are those not acknowledged yet.                              *)
EXTENDS QueuePopulator, TLAPS

(* The offsets held by process p skip nothing *)
SafeReader(p) ==
    /\ Covered(logOffset[p])
    /\ phase[p] # "publish" => Covered(openLog[p])
    /\ phase[p] = "publish" =>
           /\ FilterEntries(floor, nextLogOffset[p]) \subseteq published \cup toPublish[p]
           /\ openLog[p] \in {0, nextLogOffset[p]}

Inv ==
    /\ TypeOK
    /\ NothingSkipped
    /\ \A p \in Populators : SafeReader(p)

(* A larger floor and more entries in kafka leave an offset covered *)
LEMMA CoveredMonotone ==
    ASSUME TypeOK, floor' \in Offsets, floor <= floor', published \subseteq published',
           NEW x \in Offsets, Covered(x)
    PROVE  Covered(x)'
BY DEF TypeOK, Covered, FilterEntries, Offsets

(* Nothing is before offset 0, or between the floor and an offset not above it *)
LEMMA CoveredBelow ==
    ASSUME TypeOK, NEW x \in Offsets, x <= floor
    PROVE  Covered(x)
BY DEF TypeOK, Covered, FilterEntries, Offsets

LEMMA CoveredNone ==
    ASSUME TypeOK
    PROVE  Covered(0)
BY PopulatorAssumption, CoveredBelow DEF TypeOK, Offsets, PopulatorAssumption

(* A process whose reader and batch a step leaves alone stays safe *)
LEMMA Frame ==
    ASSUME Inv, NEW p \in Populators,
           floor' \in Offsets, floor <= floor', published \subseteq published',
           phase'[p] = phase[p], logOffset'[p] = logOffset[p], openLog'[p] = openLog[p],
           nextLogOffset'[p] = nextLogOffset[p], toPublish'[p] = toPublish[p]
    PROVE  SafeReader(p)'
<1>0. TypeOK /\ SafeReader(p)
  BY DEF Inv
<1>1. logOffset[p] \in Offsets /\ openLog[p] \in Offsets
  BY <1>0 DEF TypeOK
<1>2. Covered(logOffset[p])'
  <2>1. \A x \in Offsets : Covered(x) => Covered(x)'
    BY <1>0, CoveredMonotone
  <2> QED BY <1>0, <1>1, <2>1 DEF SafeReader, Covered
<1>3. (phase[p] # "publish" => Covered(openLog[p]))'
  BY <1>0, <1>1 DEF SafeReader, Covered, FilterEntries, TypeOK, Offsets
<1>4. (phase[p] = "publish" =>
         /\ FilterEntries(floor, nextLogOffset[p]) \subseteq published \cup toPublish[p]
         /\ openLog[p] \in {0, nextLogOffset[p]})'
  BY <1>0 DEF SafeReader, FilterEntries, TypeOK, Offsets
<1> QED BY <1>2, <1>3, <1>4 DEF SafeReader

(* A step of p that moves neither the floor, nor kafka, nor the saved offset, and
   leaves the other processes alone, keeps Inv if it keeps TypeOK and p safe      *)
LEMMA LocalStep ==
    ASSUME Inv, NEW p \in Populators, TypeOK', SafeReader(p)',
           UNCHANGED <<zkOffset, floor, published>>,
           \A q \in Populators \ {p} :
               /\ phase'[q] = phase[q] /\ logOffset'[q] = logOffset[q]
               /\ openLog'[q] = openLog[q] /\ nextLogOffset'[q] = nextLogOffset[q]
               /\ toPublish'[q] = toPublish[q]
    PROVE  Inv'
<1>1. NothingSkipped'
  BY DEF Inv, NothingSkipped, Covered, FilterEntries
<1>2. floor' \in Offsets /\ floor <= floor' /\ published \subseteq published'
  BY DEF Inv, TypeOK, Offsets
<1>3. ASSUME NEW q \in Populators, q # p PROVE SafeReader(q)'
  BY <1>2, <1>3, Frame
<1> QED BY <1>1, <1>3 DEF Inv

(* The process that exits has no offset any more *)
LEMMA ExitStep ==
    ASSUME Inv, NEW p \in Populators, ProcessExit(p),
           UNCHANGED <<source, logEnd, zkOffset, floor, published, provisions>>
    PROVE  Inv'
<1>0. TypeOK
  BY DEF Inv
<1>1. TypeOK'
  <2>1. exits' \in 0 .. MaxExits
    BY <1>0, PopulatorAssumption DEF ProcessExit, TypeOK, PopulatorAssumption
  <2>2. 0 \in Offsets
    BY PopulatorAssumption DEF Offsets, PopulatorAssumption
  <2>3. /\ logOffset' \in [Populators -> Offsets]
        /\ openLog' \in [Populators -> Offsets]
        /\ nextLogOffset' \in [Populators -> Offsets]
    BY <1>0, <2>2 DEF ProcessExit, TypeOK
  <2> QED BY <1>0, <2>1, <2>3 DEF ProcessExit, TypeOK
<1>2. SafeReader(p)'
  <2>1. phase'[p] = "down" /\ logOffset'[p] = 0 /\ openLog'[p] = 0
    BY <1>0 DEF ProcessExit, TypeOK
  <2> QED BY <1>0, <2>1, CoveredNone DEF SafeReader, Covered, FilterEntries
<1> QED BY <1>0, <1>1, <1>2, LocalStep DEF ProcessExit, TypeOK

(* Writes to the log, starts, provisions and the start of a batch *)
LEMMA ControlStep ==
    ASSUME Inv, NEW p \in Populators,
           LogWrite \/ Start(p) \/ Provision(p) \/ StartBatch(p)
    PROVE  Inv'
<1>0. TypeOK /\ SafeReader(p)
  BY DEF Inv
<1>1. CASE LogWrite
  <2>1. TypeOK'
    BY <1>0, <1>1, PopulatorAssumption
       DEF LogWrite, TypeOK, reader, batch, PopulatorAssumption
  <2>2. SafeReader(p)'
    BY <1>0, <1>1 DEF LogWrite, SafeReader, Covered, FilterEntries, reader, batch
  <2> QED BY <1>1, <2>1, <2>2, LocalStep DEF LogWrite, reader, batch
<1>2. CASE Start(p)
  <2>1. TypeOK'
    BY <1>0, <1>2 DEF Start, SetupLogSources, TypeOK, reader, batch
  <2>2. SafeReader(p)'
    BY <1>0, <1>2 DEF Start, SafeReader, Covered, FilterEntries, reader, batch, TypeOK
  <2> QED BY <1>0, <1>2, <2>1, <2>2, LocalStep DEF Start, reader, batch, TypeOK
<1>3. CASE Provision(p)
  <2>1. TypeOK'
    BY <1>0, <1>3, PopulatorAssumption
       DEF Provision, TypeOK, reader, batch, PopulatorAssumption
  <2>2. SafeReader(p)'
    BY <1>0, <1>3 DEF Provision, SafeReader, Covered, FilterEntries, reader, batch
  <2> QED BY <1>3, <2>1, <2>2, LocalStep DEF Provision, reader, batch
<1>4. CASE StartBatch(p)
  <2>0. 0 \in Offsets
    BY PopulatorAssumption DEF Offsets, PopulatorAssumption
  <2>1. TypeOK'
    <3>1. /\ logOffset' \in [Populators -> Offsets]
          /\ openLog' \in [Populators -> Offsets]
          /\ logReader' \in [Populators -> BOOLEAN]
      <4>1. /\ logOffset' = logOffset \/ logOffset' = [logOffset EXCEPT ![p] = 0]
            /\ openLog' = openLog \/ openLog' = [openLog EXCEPT ![p] = 0]
            /\ logReader' = logReader \/ logReader' = [logReader EXCEPT ![p] = FALSE]
        BY <1>4 DEF StartBatch, reader
      <4>2. logOffset' \in [Populators -> Offsets]
        BY <1>0, <2>0, <4>1 DEF TypeOK
      <4>3. openLog' \in [Populators -> Offsets]
        BY <1>0, <2>0, <4>1 DEF TypeOK
      <4>4. logReader' \in [Populators -> BOOLEAN]
        BY <1>0, <4>1 DEF TypeOK
      <4> QED BY <4>2, <4>3, <4>4
    <3>2. phase' \in [Populators -> {"down", "idle", "setup", "init", "read", "publish"}]
      BY <1>0, <1>4 DEF StartBatch, TypeOK
    <3>3. logReadersUpdate' \in [Populators -> {"none", "with", "without"}]
      BY <1>0, <1>4 DEF StartBatch, TypeOK
    <3>4. UNCHANGED <<source, logEnd, zkOffset, floor, published, batch, exits, provisions>>
      BY <1>4 DEF StartBatch
    <3> QED BY <1>0, <3>1, <3>2, <3>3, <3>4 DEF TypeOK, batch
  <2>2. /\ phase[p] # "publish" /\ phase'[p] # "publish"
        /\ logOffset'[p] \in {0, logOffset[p]} /\ openLog'[p] \in {0, openLog[p]}
    BY <1>0, <1>4 DEF StartBatch, TypeOK, reader
  <2>3. UNCHANGED <<floor, published>>
    BY <1>4 DEF StartBatch
  <2>4. SafeReader(p)'
    BY <1>0, <2>2, <2>3, CoveredNone DEF SafeReader, Covered, FilterEntries
  <2>5. \A q \in Populators \ {p} :
           /\ phase'[q] = phase[q] /\ logOffset'[q] = logOffset[q]
           /\ openLog'[q] = openLog[q] /\ nextLogOffset'[q] = nextLogOffset[q]
           /\ toPublish'[q] = toPublish[q]
    BY <1>0, <1>4 DEF StartBatch, TypeOK, reader, batch
  <2> QED BY <1>4, <2>1, <2>4, <2>5, LocalStep DEF StartBatch
<1> QED BY <1>1, <1>2, <1>3, <1>4

(* A new reader starts at a covered offset: the saved one, or the first one, which
   the floor then reaches                                                         *)
LEMMA ReadLogOffsetStep ==
    ASSUME Inv, NEW p \in Populators, ReadLogOffset(p)
    PROVE  Inv'
<1>0. TypeOK /\ NothingSkipped /\ SafeReader(p) /\ 0 \in Offsets
  BY PopulatorAssumption DEF Inv, Offsets, PopulatorAssumption
<1>1. /\ phase' \in [Populators -> {"down", "idle", "setup", "init", "read", "publish"}]
      /\ logReader' \in [Populators -> BOOLEAN]
      /\ logOffset' \in [Populators -> Offsets]
      /\ openLog' \in [Populators -> Offsets]
  <2>1. CASE UNCHANGED reader /\ phase' = [phase EXCEPT ![p] = "init"]
    BY <1>0, <2>1 DEF TypeOK, reader
  <2>2. CASE ReaderReady(p, zkOffset)
    <3>1. zkOffset \in Offsets
      BY <1>0 DEF TypeOK
    <3> QED BY <1>0, <2>2, <3>1 DEF ReaderReady, TypeOK
  <2> QED BY <2>1, <2>2 DEF ReadLogOffset
<1>2. UNCHANGED <<source, logEnd, zkOffset, floor, published, logReadersUpdate, batch,
                  exits, provisions>>
  BY DEF ReadLogOffset
<1>3. TypeOK'
  BY <1>0, <1>1, <1>2 DEF TypeOK, batch
<1>4. /\ phase[p] # "publish" /\ phase'[p] # "publish"
      /\ logOffset'[p] \in {zkOffset, logOffset[p]} /\ openLog'[p] \in {0, openLog[p]}
  BY <1>0 DEF ReadLogOffset, ReaderReady, TypeOK, reader
<1>5. SafeReader(p)'
  BY <1>0, <1>2, <1>4, CoveredNone DEF SafeReader, NothingSkipped, Covered, FilterEntries
<1>6. \A q \in Populators \ {p} :
         /\ phase'[q] = phase[q] /\ logOffset'[q] = logOffset[q]
         /\ openLog'[q] = openLog[q] /\ nextLogOffset'[q] = nextLogOffset[q]
         /\ toPublish'[q] = toPublish[q]
  BY <1>0, <1>2 DEF ReadLogOffset, ReaderReady, TypeOK, reader, batch
<1> QED BY <1>2, <1>3, <1>5, <1>6, LocalStep

LEMMA InitializeLogOffsetStep ==
    ASSUME Inv, NEW p \in Populators, InitializeLogOffset(p)
    PROVE  Inv'
<1>0. TypeOK /\ NothingSkipped /\ SafeReader(p) /\ 0 \in Offsets
  BY PopulatorAssumption DEF Inv, Offsets, PopulatorAssumption
<1>1. PICK x \in FirstOffset :
         /\ ReaderReady(p, x) /\ floor' = IF x > floor THEN x ELSE floor
  BY DEF InitializeLogOffset
<1>2. x \in Offsets
  BY <1>0, <1>1, PopulatorAssumption DEF FirstOffset, TypeOK, Offsets, PopulatorAssumption
<1>3. floor' \in Offsets /\ floor <= floor' /\ x <= floor' /\ published' = published
  BY <1>0, <1>1, <1>2 DEF InitializeLogOffset, TypeOK, Offsets
<1>4. UNCHANGED <<source, logEnd, zkOffset, published, logReadersUpdate, batch, exits,
                  provisions>>
  BY DEF InitializeLogOffset
<1>5. /\ phase' = [phase EXCEPT ![p] = "read"]
      /\ logReader' = [logReader EXCEPT ![p] = TRUE]
      /\ logOffset' = [logOffset EXCEPT ![p] = x]
      /\ openLog' = [openLog EXCEPT ![p] = 0]
  BY <1>1 DEF ReaderReady
<1>6. TypeOK'
  BY <1>0, <1>2, <1>3, <1>4, <1>5 DEF TypeOK, batch
<1>7. NothingSkipped'
  <2>1. Covered(zkOffset)'
    BY <1>0, <1>3, <1>4 DEF TypeOK, NothingSkipped, Covered, FilterEntries, Offsets
  <2> QED BY <2>1 DEF NothingSkipped
<1>8. SafeReader(p)'
  <2>1. phase'[p] = "read" /\ logOffset'[p] = x /\ openLog'[p] = 0
    BY <1>0, <1>5 DEF TypeOK
  <2>2. Covered(logOffset[p])'
    BY <1>2, <1>3, <2>1 DEF Covered, FilterEntries, Offsets
  <2>3. Covered(openLog[p])'
    BY <1>0, <1>3, <2>1 DEF Covered, FilterEntries, Offsets
  <2> QED BY <2>1, <2>2, <2>3 DEF SafeReader
<1>9. ASSUME NEW q \in Populators, q # p PROVE SafeReader(q)'
  BY <1>0, <1>3, <1>4, <1>5, <1>9, Frame DEF TypeOK, batch
<1> QED BY <1>6, <1>7, <1>8, <1>9 DEF Inv

(* A batch starts at a covered offset, and leaves its cursor there if it reads
   nothing                                                                     *)
LEMMA ReadFromCovered ==
    ASSUME Inv, NEW p \in Populators, phase[p] # "publish"
    PROVE  ReadFrom(p) \in Offsets /\ Covered(ReadFrom(p))
BY DEF Inv, SafeReader, ReadFrom, TypeOK

LEMMA ReadNothingStep ==
    ASSUME Inv, NEW p \in Populators, ReadNothing(p)
    PROVE  Inv'
<1>0. TypeOK /\ SafeReader(p) /\ 0 \in Offsets
  BY PopulatorAssumption DEF Inv, Offsets, PopulatorAssumption
<1>1. phase[p] = "read" /\ ReadFrom(p) \in Offsets /\ Covered(ReadFrom(p))
  BY ReadFromCovered DEF ReadNothing
<1>2. OpenLogAfter(p, 0) \in {0, ReadFrom(p)}
  BY <1>1 DEF OpenLogAfter, Offsets
<1>3. TypeOK'
  BY <1>0, <1>1, <1>2 DEF ReadNothing, TypeOK, batch
<1>4. /\ phase'[p] = "idle" /\ logOffset'[p] = logOffset[p]
      /\ openLog'[p] \in {0, ReadFrom(p)}
  BY <1>0, <1>2 DEF ReadNothing, TypeOK
<1>5. SafeReader(p)'
  BY <1>0, <1>1, <1>4, CoveredNone DEF ReadNothing, SafeReader, Covered, FilterEntries
<1> QED BY <1>0, <1>3, <1>5, LocalStep DEF ReadNothing, TypeOK, batch

(* The entries of a batch are those between its start and its next offset *)
LEMMA ReadRecordsStep ==
    ASSUME Inv, NEW p \in Populators, ReadRecords(p)
    PROVE  Inv'
<1>0. TypeOK /\ SafeReader(p) /\ 0 \in Offsets
  BY PopulatorAssumption DEF Inv, Offsets, PopulatorAssumption
<1> DEFINE f == ReadFrom(p)
<1>1. phase[p] = "read" /\ f \in Offsets /\ Covered(f)
  BY ReadFromCovered DEF ReadRecords
<1>2. PICK n \in 1 .. MaxRead :
         /\ f + n - 1 <= logEnd
         /\ openLog' = [openLog EXCEPT ![p] = OpenLogAfter(p, n)]
         /\ nextLogOffset' = [nextLogOffset EXCEPT ![p] = NextLogOffset(f, n)]
         /\ toPublish' = [toPublish EXCEPT ![p] = FilterEntries(f, f + n)]
  BY DEF ReadRecords
<1>3. /\ phase' = [phase EXCEPT ![p] = "publish"]
      /\ UNCHANGED <<source, logEnd, zkOffset, floor, published, logReadersUpdate,
                     logReader, logOffset, exits, provisions>>
  BY DEF ReadRecords
<1>4. /\ f + n \in Offsets /\ NextLogOffset(f, n) = f + n
      /\ OpenLogAfter(p, n) \in {0, f + n}
  BY <1>0, <1>1, <1>2, PopulatorAssumption
     DEF TypeOK, Offsets, NextLogOffset, OpenLogAfter, PopulatorAssumption
<1>5. FilterEntries(f, f + n) \in SUBSET (Topics \X (1 .. MaxSeq))
  BY DEF FilterEntries
<1> HIDE DEF f
<1>6. TypeOK'
  BY <1>0, <1>2, <1>3, <1>4, <1>5 DEF TypeOK
<1>7. /\ phase'[p] = "publish" /\ logOffset'[p] = logOffset[p]
      /\ openLog'[p] \in {0, f + n} /\ nextLogOffset'[p] = f + n
      /\ toPublish'[p] = FilterEntries(f, f + n)
  BY <1>0, <1>2, <1>3, <1>4 DEF TypeOK
<1>8. FilterEntries(floor, f + n) \subseteq published \cup FilterEntries(f, f + n)
  BY <1>0, <1>1, <1>4 DEF Covered, FilterEntries, TypeOK, Offsets
<1>9. SafeReader(p)'
  BY <1>0, <1>3, <1>7, <1>8 DEF SafeReader, Covered, FilterEntries
<1>10. \A q \in Populators \ {p} :
         /\ phase'[q] = phase[q] /\ logOffset'[q] = logOffset[q]
         /\ openLog'[q] = openLog[q] /\ nextLogOffset'[q] = nextLogOffset[q]
         /\ toPublish'[q] = toPublish[q]
  BY <1>0, <1>2, <1>3 DEF TypeOK
<1> QED BY <1>3, <1>6, <1>9, <1>10, LocalStep

(* An acknowledged entry is in kafka *)
LEMMA DeliveredStep ==
    ASSUME Inv, NEW p \in Populators, NEW e \in Topics \X (1 .. MaxSeq), Delivered(p, e)
    PROVE  Inv'
<1>0. TypeOK /\ NothingSkipped /\ SafeReader(p)
  BY DEF Inv
<1>1. /\ published' = published \cup {e}
      /\ toPublish' = [toPublish EXCEPT ![p] = toPublish[p] \ {e}]
      /\ UNCHANGED <<source, logEnd, zkOffset, floor, phase, logReadersUpdate, reader,
                     nextLogOffset, exits, provisions>>
  BY DEF Delivered
<1>2. TypeOK'
  BY <1>0, <1>1 DEF TypeOK, reader
<1>3. NothingSkipped'
  BY <1>0, <1>1 DEF NothingSkipped, Covered, FilterEntries
<1>4. SafeReader(p)'
  <2>1. toPublish'[p] = toPublish[p] \ {e}
    BY <1>0, <1>1 DEF TypeOK
  <2>2. published \cup toPublish[p] \subseteq published' \cup toPublish'[p]
    BY <1>1, <2>1
  <2> QED BY <1>0, <1>1, <2>2 DEF SafeReader, Covered, FilterEntries, reader
<1>5. ASSUME NEW q \in Populators, q # p PROVE SafeReader(q)'
  <2>1. floor' \in Offsets /\ floor <= floor' /\ published \subseteq published'
    BY <1>0, <1>1 DEF TypeOK, Offsets
  <2> QED BY <1>0, <1>1, <1>5, <2>1, Frame DEF TypeOK, reader
<1> QED BY <1>2, <1>3, <1>4, <1>5 DEF Inv

(* With every entry acknowledged, the next offset is covered *)
LEMMA SaveLogOffsetStep ==
    ASSUME Inv, NEW p \in Populators, SaveLogOffset(p)
    PROVE  Inv'
<1>0. TypeOK /\ NothingSkipped /\ SafeReader(p) /\ 0 \in Offsets
  BY PopulatorAssumption DEF Inv, Offsets, PopulatorAssumption
<1>1. /\ phase[p] = "publish" /\ toPublish[p] = {}
      /\ logOffset' = [logOffset EXCEPT ![p] = nextLogOffset[p]]
      /\ zkOffset' \in {zkOffset, nextLogOffset[p]}
      /\ phase' = [phase EXCEPT ![p] = "idle"]
      /\ nextLogOffset' = [nextLogOffset EXCEPT ![p] = 0]
      /\ UNCHANGED <<source, logEnd, floor, published, logReadersUpdate, logReader,
                     openLog, toPublish, exits, provisions>>
  BY <1>0 DEF SaveLogOffset, WriteLogOffset, TypeOK
<1>2. Covered(nextLogOffset[p]) /\ openLog[p] \in {0, nextLogOffset[p]}
  BY <1>0, <1>1 DEF SafeReader, Covered
<1>3. TypeOK'
  <2>1. nextLogOffset[p] \in Offsets
    BY <1>0 DEF TypeOK
  <2> QED BY <1>0, <1>1, <2>1 DEF TypeOK
<1>4. NothingSkipped'
  BY <1>0, <1>1, <1>2 DEF NothingSkipped, Covered, FilterEntries
<1>5. SafeReader(p)'
  <2>1. /\ phase'[p] = "idle" /\ logOffset'[p] = nextLogOffset[p]
        /\ openLog'[p] \in {0, nextLogOffset[p]}
    BY <1>0, <1>1, <1>2 DEF TypeOK
  <2> QED BY <1>0, <1>1, <1>2, <2>1, CoveredNone DEF SafeReader, Covered, FilterEntries
<1>6. ASSUME NEW q \in Populators, q # p PROVE SafeReader(q)'
  <2>1. floor' \in Offsets /\ floor <= floor' /\ published \subseteq published'
    BY <1>0, <1>1 DEF TypeOK, Offsets
  <2> QED BY <1>0, <1>1, <1>6, <2>1, Frame DEF TypeOK
<1> QED BY <1>3, <1>4, <1>5, <1>6 DEF Inv

(* Inv holds before any record is read *)
LEMMA InitInv ==
    ASSUME Init PROVE Inv
<1>0. 0 \in Offsets /\ 1 \in Offsets
  BY PopulatorAssumption DEF Offsets, PopulatorAssumption
<1>1. TypeOK
  BY <1>0, PopulatorAssumption DEF Init, TypeOK, PopulatorAssumption
<1>2. NothingSkipped
  <2>1. zkOffset \in Offsets /\ zkOffset <= floor
    BY <1>0 DEF Init
  <2> QED BY <1>1, <2>1, CoveredBelow DEF NothingSkipped
<1>3. \A p \in Populators : SafeReader(p)
  BY <1>1, CoveredNone DEF Init, SafeReader
<1> QED BY <1>1, <1>2, <1>3 DEF Inv

(* Every step, and a stuttering one, keeps Inv *)
LEMMA NextInv ==
    ASSUME Inv, [Next]_vars PROVE Inv'
<1>1. CASE UNCHANGED vars
  BY <1>1 DEF vars, Inv, TypeOK, NothingSkipped, SafeReader, Covered, FilterEntries
<1>2. CASE LogWrite
  <2>1. CASE Populators = {}
    BY <1>2, <2>1, PopulatorAssumption
       DEF LogWrite, Inv, TypeOK, NothingSkipped, Covered, FilterEntries, reader, batch,
           PopulatorAssumption
  <2>2. CASE Populators # {}
    BY <1>2, <2>2, ControlStep
  <2> QED BY <2>1, <2>2
<1>3. ASSUME NEW p \in Populators,
             \/ Start(p) \/ Provision(p) \/ Crash(p) \/ BatchError(p)
             \/ StartBatch(p) \/ ReadLogOffset(p) \/ InitializeLogOffset(p)
             \/ ReadNothing(p) \/ ReadRecords(p) \/ SaveLogOffset(p)
             \/ \E e \in Topics \X (1 .. MaxSeq) : Delivered(p, e)
      PROVE  Inv'
  <2>1. CASE Start(p) \/ Provision(p) \/ StartBatch(p)
    BY <2>1, ControlStep
  <2>2. CASE Crash(p) \/ BatchError(p)
    BY <2>2, ExitStep DEF Crash, BatchError
  <2>3. CASE ReadLogOffset(p)
    BY <2>3, ReadLogOffsetStep
  <2>4. CASE InitializeLogOffset(p)
    BY <2>4, InitializeLogOffsetStep
  <2>5. CASE ReadNothing(p)
    BY <2>5, ReadNothingStep
  <2>6. CASE ReadRecords(p)
    BY <2>6, ReadRecordsStep
  <2>7. CASE SaveLogOffset(p)
    BY <2>7, SaveLogOffsetStep
  <2>8. CASE \E e \in Topics \X (1 .. MaxSeq) : Delivered(p, e)
    BY <2>8, DeliveredStep
  <2> QED BY <1>3, <2>1, <2>2, <2>3, <2>4, <2>5, <2>6, <2>7, <2>8
<1> QED BY <1>1, <1>2, <1>3 DEF Next

(* The type invariant of the queue populator, for every instance *)
THEOREM TypeCorrect == Spec => []TypeOK
<1>1. Inv => TypeOK
  BY DEF Inv
<1> QED BY <1>1, InitInv, NextInv, PTL DEF Spec

(* The offset saved by _processSaveLogOffset never passes an entry that is not in
   kafka, for every number of processes, topics, records, exits and provisions    *)
THEOREM SavedOffsetSkipsNothing == Spec => []NothingSkipped
<1>1. Inv => NothingSkipped
  BY DEF Inv
<1> QED BY <1>1, InitInv, NextInv, PTL DEF Spec
=============================================================================
