--------------------------- MODULE FileWork_proofs ---------------------------
(***************************************************************************)
(* The proofs that the file workers lose no delivery and repeat no effect: *)
(* for every set of names and contents, and any number of deliveries,      *)
(* attempts, crashes of either role and late rulings.                      *)
(***************************************************************************)
EXTENDS FileWork, TLAPS, FiniteSetTheorems

States == {"none", "READY", "RUNNING", "UNKNOWN", "DONE", "REJECTED"}
Receipts == {"none", "received", "archived", "cleaned"}
Row == [state : States, attempt : Nat]

ArchiverSteps ==
  {"idle", "todos", "sweep", "admit", "select", "object", "commit", "publish", "check",
   "unlink", "mark"}

TypeOK ==
  /\ inbox \in [Names -> Contents \cup {None}]
  /\ objects \in SUBSET Contents /\ todo \in SUBSET Contents
  /\ receipt \in [Names -> Receipts]
  /\ key \in [Names -> Contents \cup {None}]
  /\ work \in [Contents -> Row]
  /\ arch \in [at : ArchiverSteps, names : SUBSET Names, keys : SUBSET Contents,
               queue : SUBSET Names, now : Names \cup {None},
               hash : Contents \cup {None}, next : {"sweep", "select"}]
  /\ proc \in [at : {"idle", "scan", "next", "call", "done"}, keys : SUBSET Contents,
               queue : SUBSET Contents, now : Contents \cup {None},
               call : {"process", "reconcile"}, did : BOOLEAN]
  /\ saw \in [key : Contents, row : Row, done : BOOLEAN] \cup {None}
  /\ effects \in [Contents -> Nat]
  /\ arrived \in SUBSET Contents

-----------------------------------------------------------------------------
(* The strengthening.                                                      *)

\* Every receipt in the archiver's hands has its source until it is archived, and its
\* work and object from then on.
ReceiptsOK ==
  /\ \A n \in Names :
       /\ receipt[n] = "received" => inbox[n] # None
       /\ receipt[n] \in {"archived", "cleaned"} => key[n] \in Contents /\ Known(key[n])
  /\ \A c \in Contents : Known(c) => c \in objects

ArchiverOK ==
  /\ \A n \in arch.names : receipt[n] = "none" => inbox[n] # None
  /\ \A n \in arch.queue : receipt[n] = "received"
  /\ arch.at \in {"object", "commit"} =>
       /\ arch.now \in Names \ arch.queue
       /\ receipt[arch.now] = "received"
  /\ arch.at = "commit" => arch.hash = inbox[arch.now] /\ arch.hash \in objects
  /\ arch.at \in {"publish", "check", "unlink", "mark"} =>
       arch.now \in Names /\ receipt[arch.now] = "archived"
  /\ arch.at \in {"unlink", "mark"} => HandedOver(key[arch.now])

\* What the process whose run it is has in hand is as it left it.
ProcessorOK ==
  /\ proc.at = "call" =>
       /\ proc.now \in Contents
       /\ proc.call = "process" =>
            /\ work[proc.now].state = "RUNNING"
            /\ effects[proc.now] = IF proc.did THEN 1 ELSE 0
       /\ proc.call = "reconcile" => work[proc.now].state = "UNKNOWN"
  /\ proc.at = "done" => proc.now \in Contents /\ Terminal(proc.now)

\* A row the operator saw in doubt is in doubt under the same attempt only while what
\* he found out is true: it runs again under a later one.
SawOK ==
  saw # None =>
    /\ Known(saw.key)
    /\ saw.row.attempt <= work[saw.key].attempt
    /\ saw.row.state = "UNKNOWN" /\ work[saw.key].attempt = saw.row.attempt =>
         /\ work[saw.key].state # "RUNNING"
         /\ work[saw.key].state = "UNKNOWN" => saw.done = (effects[saw.key] > 0)

EffectsOK ==
  \A c \in Contents :
    /\ effects[c] <= 1
    /\ work[c].state \in {"none", "READY"} => effects[c] = 0
    /\ work[c].state = "DONE" => effects[c] = 1

WorkInv ==
  TypeOK /\ ReceiptsOK /\ ArchiverOK /\ ProcessorOK /\ SawOK /\ EffectsOK /\ NothingLost

-----------------------------------------------------------------------------
\* What a move of the chart changes.
LEMMA MoveFacts ==
  ASSUME TypeOK, NEW c \in Contents, NEW event, NEW state, Move(c, event, state)
  PROVE  /\ work' \in [Contents -> Row]
         /\ \A d \in Contents : d # c => work'[d] = work[d]
         /\ work'[c].state = state /\ state \in States \ {"none"}
         /\ work'[c].attempt = IF event = "claim" THEN work[c].attempt + 1
                                                  ELSE work[c].attempt
         /\ Known(c) /\ ~Terminal(c)
         /\ event = "claim" <=> state = "RUNNING"
         /\ event = "claim" => work[c].state = "READY"
         /\ event = "completed" <=> state = "DONE"
         /\ event = "retry_safe" <=> state = "READY"
         /\ event = "uncertain" <=> state = "UNKNOWN"
         /\ event = "rejected" <=> state = "REJECTED"
         /\ event \in {"completed", "retry_safe"} => work[c].state \in {"RUNNING", "UNKNOWN"}
         /\ event = "uncertain" => work[c].state \in {"RUNNING", "UNKNOWN"}
<1>1. <<work[c].state, event, state>> \in PROCESS
  BY DEF Move
<1>2. work[c].state \in States \ {"none", "DONE", "REJECTED"} /\ state \in States \ {"none"}
  BY <1>1 DEF PROCESS, States
<1>3. work' = [work EXCEPT ![c] =
                [state |-> state,
                 attempt |-> IF event = "claim" THEN work[c].attempt + 1
                                                ELSE work[c].attempt]]
  BY DEF Move
<1>4. work[c].attempt \in Nat
  BY DEF TypeOK, Row
<1>5. work' \in [Contents -> Row]
  BY <1>2, <1>3, <1>4 DEF TypeOK, Row
<1>6. /\ \A d \in Contents : d # c => work'[d] = work[d]
      /\ work'[c].state = state
      /\ work'[c].attempt = IF event = "claim" THEN work[c].attempt + 1 ELSE work[c].attempt
  BY <1>3 DEF TypeOK
<1>7. Known(c) /\ ~Terminal(c)
  BY <1>2 DEF Known, Terminal, Final
<1>8. /\ event = "claim" <=> state = "RUNNING"
      /\ event = "claim" => work[c].state = "READY"
      /\ event = "completed" <=> state = "DONE"
      /\ event = "retry_safe" <=> state = "READY"
      /\ event = "uncertain" <=> state = "UNKNOWN"
      /\ event = "rejected" <=> state = "REJECTED"
      /\ event \in {"completed", "retry_safe"} => work[c].state \in {"RUNNING", "UNKNOWN"}
      /\ event = "uncertain" => work[c].state \in {"RUNNING", "UNKNOWN"}
  BY <1>1 DEF PROCESS
<1>9. QED
  BY <1>2, <1>5, <1>6, <1>7, <1>8

LEMMA InitInv == Init => WorkInv
<1> SUFFICES ASSUME Init PROVE WorkInv
  OBVIOUS
<1>2. arch = IdleArchiver /\ proc = IdleProcessor /\ saw = None
  BY DEF Init
<1>3. TypeOK
  <2>1. /\ inbox \in [Names -> Contents \cup {None}]
        /\ objects \in SUBSET Contents /\ todo \in SUBSET Contents
        /\ receipt \in [Names -> Receipts]
        /\ key \in [Names -> Contents \cup {None}]
        /\ effects \in [Contents -> Nat]
        /\ arrived \in SUBSET Contents
    BY DEF Init, Receipts
  <2>2. work \in [Contents -> Row]
    BY DEF Init, Row, States
  <2>3. arch \in [at : ArchiverSteps, names : SUBSET Names, keys : SUBSET Contents,
                  queue : SUBSET Names, now : Names \cup {None},
                  hash : Contents \cup {None}, next : {"sweep", "select"}]
    BY <1>2 DEF IdleArchiver, ArchiverSteps
  <2>4. proc \in [at : {"idle", "scan", "next", "call", "done"}, keys : SUBSET Contents,
                  queue : SUBSET Contents, now : Contents \cup {None},
                  call : {"process", "reconcile"}, did : BOOLEAN]
    BY <1>2 DEF IdleProcessor
  <2>5. QED
    BY <1>2, <2>1, <2>2, <2>3, <2>4 DEF TypeOK
<1>4. ReceiptsOK
  BY DEF Init, ReceiptsOK, Known
<1>5. ArchiverOK /\ ProcessorOK /\ SawOK
  BY <1>2 DEF ArchiverOK, ProcessorOK, SawOK, IdleArchiver, IdleProcessor
<1>6. EffectsOK /\ NothingLost
  BY DEF Init, EffectsOK, NothingLost
<1>7. QED
  BY <1>3, <1>4, <1>5, <1>6 DEF WorkInv

\* What no step takes back, whoever takes it.
Stays ==
  \A c \in Contents :
    /\ Known(c) => Known(c)' /\ (Terminal(c) => Terminal(c)')
    /\ HandedOver(c) => HandedOver(c)'
    /\ c \in objects => c \in objects'

LEMMA TypeStep == WorkInv /\ [Next]_vars => TypeOK'
<1> SUFFICES ASSUME WorkInv, [Next]_vars PROVE TypeOK'
  OBVIOUS
<1>1. TypeOK /\ ReceiptsOK /\ ArchiverOK /\ ProcessorOK /\ SawOK
  BY DEF WorkInv
<1>2. ASSUME NEW n \in Names, NEW c \in Contents, Deliver(n, c)
      PROVE  TypeOK'
  BY <1>1, <1>2 DEF Deliver, ledger, TypeOK
<1>3. CASE ArchiveStart
  BY <1>1, <1>3
     DEF ArchiveStart, files, ledger, observed, IdleArchiver, TypeOK, ArchiverSteps,
         ToRepair
<1>4. CASE RepairTodo
  BY <1>1, <1>4 DEF RepairTodo, ledger, observed, TypeOK, PublishTodo, ArchiverSteps
<1>5. CASE TodosRepaired
  BY <1>1, <1>5 DEF TodosRepaired, files, ledger, observed, TypeOK, ArchiverSteps
<1>6. CASE RepairCleanup
  BY <1>1, <1>6 DEF RepairCleanup, files, ledger, observed, TypeOK, ArchiverSteps, Uncleaned
<1>7. CASE Swept
  BY <1>1, <1>7 DEF Swept, files, ledger, observed, TypeOK, ArchiverSteps
<1>8. ASSUME NEW batch \in Batches, Admit(batch)
      PROVE  TypeOK'
  BY <1>1, <1>8 DEF Admit, files, observed, TypeOK, ArchiverSteps, Receipts
<1>9. CASE Select
  BY <1>1, <1>9, ZenonT(40) DEF Select, files, ledger, observed, TypeOK, ArchiverSteps
<1>10. CASE ArchiveEnd
  BY <1>1, <1>10
     DEF ArchiveEnd, files, ledger, observed, IdleArchiver, TypeOK, ArchiverSteps
<1>11. CASE PublishObject
  <2>1. arch.now \in Names /\ inbox[arch.now] \in Contents
    BY <1>1, <1>11 DEF PublishObject, TypeOK, ArchiverOK, ReceiptsOK
  <2>2. QED
    BY <1>1, <1>11, <2>1 DEF PublishObject, ledger, observed, TypeOK, ArchiverSteps
<1>12. CASE CommitArchive
  <2>1. arch.now \in Names /\ arch.hash \in Contents
    BY <1>1, <1>12 DEF CommitArchive, TypeOK, ArchiverOK
  <2>3. work' \in [Contents -> Row]
    BY <1>1, <2>1, <1>12 DEF CommitArchive, TypeOK, Row, States
  <2>4. receipt' \in [Names -> Receipts] /\ key' \in [Names -> Contents \cup {None}]
    BY <1>1, <2>1, <1>12 DEF CommitArchive, TypeOK, Receipts
  <2>5. QED
    BY <1>1, <1>12, <2>1, <2>3, <2>4
       DEF CommitArchive, files, observed, TypeOK, ArchiverSteps
<1>13. CASE PublishNew
  BY <1>1, <1>13
     DEF PublishNew, ledger, observed, TypeOK, PublishTodo, ArchiverSteps, ReceiptsOK,
         ArchiverOK
<1>14. CASE CheckHandover
  BY <1>1, <1>14
     DEF CheckHandover, files, ledger, observed, IdleArchiver, TypeOK, ArchiverSteps
<1>15. CASE Unlink
  BY <1>1, <1>15, ZenonT(40) DEF Unlink, ledger, observed, IdleArchiver, TypeOK, ArchiverSteps
<1>16. CASE MarkCleaned
  BY <1>1, <1>16 DEF MarkCleaned, files, observed, TypeOK, ArchiverSteps, Receipts
<1>17. CASE ArchiverDies
  BY <1>1, <1>17 DEF ArchiverDies, files, ledger, IdleArchiver, TypeOK, ArchiverSteps
<1>18. CASE ProcessStart
  BY <1>1, <1>18 DEF ProcessStart, files, ledger, observed, IdleProcessor, TypeOK
<1>19. ASSUME NEW c \in Contents, Scan(c)
      PROVE  TypeOK'
  BY <1>1, <1>19 DEF Scan, ledger, observed, TypeOK
<1>20. ASSUME NEW batch \in Batches, Choose(batch)
      PROVE  TypeOK'
  BY <1>1, <1>20 DEF Choose, files, ledger, observed, TypeOK
<1>21. CASE ProcessEnd
  BY <1>1, <1>21 DEF ProcessEnd, files, ledger, observed, IdleProcessor, TypeOK
<1>22. ASSUME NEW c \in Contents, Normalize(c)
      PROVE  TypeOK'
  <2>1. Move(c, "uncertain", "UNKNOWN")
    BY <1>22 DEF Normalize
  <2>2. QED
    BY <1>1, <1>22, <2>1, MoveFacts DEF Normalize, files, observed, TypeOK, Take
<1>23. ASSUME NEW c \in Contents, Reconcile(c)
      PROVE  TypeOK'
  BY <1>1, <1>23 DEF Reconcile, files, ledger, observed, TypeOK, Take
<1>24. ASSUME NEW c \in Contents, Claim(c)
      PROVE  TypeOK'
  <2>1. Move(c, "claim", "RUNNING")
    BY <1>24 DEF Claim
  <2>2. QED
    BY <1>1, <1>24, <2>1, MoveFacts DEF Claim, files, observed, TypeOK, Take
<1>25. CASE HandlerActs
  <2>1. proc.now \in Contents /\ effects[proc.now] \in Nat
    BY <1>1, <1>25 DEF HandlerActs, TypeOK, ProcessorOK
  <2>2. effects' \in [Contents -> Nat]
    BY <1>1, <2>1, <1>25 DEF HandlerActs, TypeOK
  <2>3. QED
    BY <1>1, <1>25, <2>2 DEF HandlerActs, files, ledger, TypeOK
<1>26. ASSUME NEW row \in PROCESS, Outcome(row[2], row[3])
      PROVE  TypeOK'
  <2>1. proc.now \in Contents
    BY <1>1, <1>26 DEF Outcome, TypeOK, ProcessorOK
  <2>2. Move(proc.now, row[2], row[3])
    BY <1>26 DEF Outcome
  <2>3. QED
    BY <1>1, <1>26, <2>1, <2>2, MoveFacts
       DEF Outcome, files, observed, IdleProcessor, TypeOK
<1>27. CASE RemoveTodo
  BY <1>1, <1>27 DEF RemoveTodo, ledger, observed, TypeOK
<1>28. CASE ProcessorDies
  BY <1>1, <1>28 DEF ProcessorDies, files, ledger, IdleProcessor, TypeOK
<1>29. ASSUME NEW c \in Contents, Look(c)
      PROVE  TypeOK'
  BY <1>1, <1>29 DEF Look, files, ledger, observed, TypeOK, Row
<1>30. ASSUME NEW row \in PROCESS, Rule(row[2], row[3])
      PROVE  TypeOK'
  <2>1. saw.key \in Contents
    BY <1>1, <1>30 DEF Rule, TypeOK, ProcessorOK
  <2>2. Move(saw.key, row[2], row[3])
    BY <1>30 DEF Rule
  <2>3. QED
    BY <1>1, <1>30, <2>1, <2>2, MoveFacts DEF Rule, files, observed, IdleProcessor, TypeOK
<1>31. CASE RuleRefused
  BY <1>1, <1>31 DEF RuleRefused, files, ledger, observed, TypeOK
<1>32. CASE UNCHANGED vars
  BY <1>1, <1>32 DEF files, ledger, observed, vars, IdleArchiver, IdleProcessor, TypeOK
<1>33. QED
  <2>1. CASE Archiver
    BY <2>1, <1>3, <1>4, <1>5, <1>6, <1>7, <1>8, <1>9, <1>10, <1>11, <1>12, <1>13, <1>14,
       <1>15, <1>16, <1>32
       DEF Archiver
  <2>2. CASE Processor
    BY <2>2, <1>18, <1>19, <1>20, <1>21, <1>22, <1>23, <1>24, <1>25, <1>26, <1>27, <1>32
       DEF Processor
  <2>3. CASE Operator
    BY <2>3, <1>29, <1>30, <1>31, <1>32 DEF Operator
  <2>4. QED
    BY <2>1, <2>2, <2>3, <1>2, <1>17, <1>28, <1>32 DEF Next

\* Work that is known, decided or handed over stays so, and objects stay.
LEMMA StableStep == WorkInv /\ [Next]_vars => Stays
<1> SUFFICES ASSUME WorkInv, [Next]_vars PROVE Stays
  OBVIOUS
<1>1. TypeOK /\ ProcessorOK /\ SawOK
  BY DEF WorkInv
<1>2. CASE RepairTodo
  BY <1>1, <1>2
     DEF RepairTodo, ledger, observed, Stays, TypeOK, Known, Terminal, HandedOver, Final,
         PublishTodo
<1>3. CASE PublishObject
  BY <1>1, <1>3
     DEF PublishObject, ledger, observed, Stays, TypeOK, Known, Terminal, HandedOver,
         Final
<1>4. CASE CommitArchive
  BY <1>1, <1>4
     DEF CommitArchive, files, observed, Stays, TypeOK, Known, Terminal, HandedOver,
         Final, ArchiverOK
<1>5. CASE PublishNew
  BY <1>1, <1>5
     DEF PublishNew, ledger, observed, Stays, TypeOK, Known, Terminal, HandedOver, Final,
         PublishTodo
<1>6. ASSUME NEW c \in Contents, Scan(c)
      PROVE  Stays
  BY <1>1, <1>6
     DEF Scan, ledger, observed, Stays, TypeOK, Known, Terminal, HandedOver, Final
<1>7. ASSUME NEW c \in Contents, Normalize(c)
      PROVE  Stays
  <2>1. Move(c, "uncertain", "UNKNOWN")
    BY <1>7 DEF Normalize
  <2>2. QED
    BY <1>1, <1>7, <2>1, MoveFacts
       DEF Normalize, files, observed, Stays, TypeOK, Known, Terminal, HandedOver, Final,
           Take
<1>8. ASSUME NEW c \in Contents, Claim(c)
      PROVE  Stays
  <2>1. Move(c, "claim", "RUNNING")
    BY <1>8 DEF Claim
  <2>2. QED
    BY <1>1, <1>8, <2>1, MoveFacts
       DEF Claim, files, observed, Stays, TypeOK, Known, Terminal, HandedOver, Final, Take
<1>9. ASSUME NEW row \in PROCESS, Outcome(row[2], row[3])
      PROVE  Stays
  <2>1. proc.now \in Contents
    BY <1>1, <1>9 DEF Outcome, TypeOK, ProcessorOK
  <2>2. Move(proc.now, row[2], row[3])
    BY <1>9 DEF Outcome
  <2>3. QED
    BY <1>1, <1>9, <2>1, <2>2, MoveFacts
       DEF Outcome, files, observed, Stays, TypeOK, Known, Terminal, HandedOver, Final
<1>10. CASE RemoveTodo
  BY <1>1, <1>10
     DEF RemoveTodo, ledger, observed, Stays, TypeOK, Known, Terminal, HandedOver, Final,
         ProcessorOK
<1>11. ASSUME NEW row \in PROCESS, Rule(row[2], row[3])
      PROVE  Stays
  <2>1. saw.key \in Contents
    BY <1>1, <1>11 DEF Rule, TypeOK, ProcessorOK
  <2>2. Move(saw.key, row[2], row[3])
    BY <1>11 DEF Rule
  <2>3. QED
    BY <1>1, <1>11, <2>1, <2>2, MoveFacts
       DEF Rule, files, observed, Stays, TypeOK, Known, Terminal, HandedOver, Final
<1>12. CASE UNCHANGED vars
      \/ (\E n \in Names, c \in Contents : Deliver(n, c))
      \/ ArchiveStart
      \/ TodosRepaired
      \/ RepairCleanup
      \/ Swept
      \/ (\E batch \in Batches : Admit(batch))
      \/ Select
      \/ ArchiveEnd
      \/ CheckHandover
      \/ Unlink
      \/ MarkCleaned
      \/ ArchiverDies
      \/ ProcessStart
      \/ (\E batch \in Batches : Choose(batch))
      \/ ProcessEnd
      \/ (\E c \in Contents : Reconcile(c))
      \/ HandlerActs
      \/ ProcessorDies
      \/ (\E c \in Contents : Look(c))
      \/ RuleRefused
  BY <1>1, <1>12
     DEF Deliver, ArchiveStart, TodosRepaired, RepairCleanup, Swept, Admit, Select,
         ArchiveEnd, CheckHandover, Unlink, MarkCleaned, ArchiverDies, ProcessStart,
         Choose, ProcessEnd, Reconcile, HandlerActs, ProcessorDies, Look, RuleRefused,
         files, ledger, observed, vars, Stays, TypeOK, Known, Terminal, HandedOver, Final
<1>13. QED
  <2>1. CASE Archiver
    BY <2>1, <1>2, <1>3, <1>4, <1>5, <1>12 DEF Archiver
  <2>2. CASE Processor
    BY <2>2, <1>6, <1>7, <1>8, <1>9, <1>10, <1>12 DEF Processor
  <2>3. CASE Operator
    BY <2>3, <1>11, <1>12 DEF Operator
  <2>4. QED
    BY <2>1, <2>2, <2>3, <1>12 DEF Next

LEMMA ReceiptsStep == WorkInv /\ [Next]_vars => ReceiptsOK'
<1> SUFFICES ASSUME WorkInv, [Next]_vars PROVE ReceiptsOK'
  OBVIOUS
<1>1. TypeOK /\ ReceiptsOK /\ ArchiverOK /\ ProcessorOK /\ SawOK
  BY DEF WorkInv
<1>2. ASSUME NEW n \in Names, NEW c \in Contents, Deliver(n, c)
      PROVE  ReceiptsOK'
  BY <1>1, <1>2 DEF Deliver, ledger, ReceiptsOK, TypeOK, Known
<1>3. ASSUME NEW batch \in Batches, Admit(batch)
      PROVE  ReceiptsOK'
  BY <1>1, <1>3 DEF Admit, files, observed, ReceiptsOK, TypeOK, Known, ArchiverOK
<1>4. CASE PublishObject
  BY <1>1, <1>4 DEF PublishObject, ledger, observed, ReceiptsOK, TypeOK, Known
<1>5. CASE CommitArchive
  BY <1>1, <1>5 DEF CommitArchive, files, observed, ReceiptsOK, TypeOK, Known, ArchiverOK
<1>6. CASE Unlink
  BY <1>1, <1>6
     DEF Unlink, ledger, observed, ReceiptsOK, TypeOK, Known, ArchiverOK, IsSource
<1>7. CASE MarkCleaned
  BY <1>1, <1>7 DEF MarkCleaned, files, observed, ReceiptsOK, TypeOK, Known, ArchiverOK
<1>8. ASSUME NEW c \in Contents, Normalize(c)
      PROVE  ReceiptsOK'
  <2>1. Move(c, "uncertain", "UNKNOWN")
    BY <1>8 DEF Normalize
  <2>2. QED
    BY <1>1, <1>8, <2>1, MoveFacts
       DEF Normalize, files, observed, ReceiptsOK, TypeOK, Known, Take
<1>9. ASSUME NEW c \in Contents, Claim(c)
      PROVE  ReceiptsOK'
  <2>1. Move(c, "claim", "RUNNING")
    BY <1>9 DEF Claim
  <2>2. QED
    BY <1>1, <1>9, <2>1, MoveFacts
       DEF Claim, files, observed, ReceiptsOK, TypeOK, Known, Take
<1>10. ASSUME NEW row \in PROCESS, Outcome(row[2], row[3])
      PROVE  ReceiptsOK'
  <2>1. proc.now \in Contents
    BY <1>1, <1>10 DEF Outcome, TypeOK, ProcessorOK
  <2>2. Move(proc.now, row[2], row[3])
    BY <1>10 DEF Outcome
  <2>3. QED
    BY <1>1, <1>10, <2>1, <2>2, MoveFacts
       DEF Outcome, files, observed, ReceiptsOK, TypeOK, Known
<1>11. ASSUME NEW row \in PROCESS, Rule(row[2], row[3])
      PROVE  ReceiptsOK'
  <2>1. saw.key \in Contents
    BY <1>1, <1>11 DEF Rule, TypeOK, ProcessorOK
  <2>2. Move(saw.key, row[2], row[3])
    BY <1>11 DEF Rule
  <2>3. QED
    BY <1>1, <1>11, <2>1, <2>2, MoveFacts
       DEF Rule, files, observed, ReceiptsOK, TypeOK, Known
<1>12. CASE UNCHANGED vars
      \/ ArchiveStart
      \/ RepairTodo
      \/ TodosRepaired
      \/ RepairCleanup
      \/ Swept
      \/ Select
      \/ ArchiveEnd
      \/ PublishNew
      \/ CheckHandover
      \/ ArchiverDies
      \/ ProcessStart
      \/ (\E c \in Contents : Scan(c))
      \/ (\E batch \in Batches : Choose(batch))
      \/ ProcessEnd
      \/ (\E c \in Contents : Reconcile(c))
      \/ HandlerActs
      \/ RemoveTodo
      \/ ProcessorDies
      \/ (\E c \in Contents : Look(c))
      \/ RuleRefused
  BY <1>1, <1>12
     DEF ArchiveStart, RepairTodo, TodosRepaired, RepairCleanup, Swept, Select,
         ArchiveEnd, PublishNew, CheckHandover, ArchiverDies, ProcessStart, Scan, Choose,
         ProcessEnd, Reconcile, HandlerActs, RemoveTodo, ProcessorDies, Look, RuleRefused,
         files, ledger, observed, vars, ReceiptsOK, TypeOK, Known
<1>13. QED
  <2>1. CASE Archiver
    BY <2>1, <1>3, <1>4, <1>5, <1>6, <1>7, <1>12 DEF Archiver
  <2>2. CASE Processor
    BY <2>2, <1>8, <1>9, <1>10, <1>12 DEF Processor
  <2>3. CASE Operator
    BY <2>3, <1>11, <1>12 DEF Operator
  <2>4. QED
    BY <2>1, <2>2, <2>3, <1>2, <1>12 DEF Next

LEMMA ArchiverStep == WorkInv /\ [Next]_vars => ArchiverOK'
<1> SUFFICES ASSUME WorkInv, [Next]_vars PROVE ArchiverOK'
  OBVIOUS
<1>1. TypeOK /\ ReceiptsOK /\ ArchiverOK /\ ProcessorOK /\ SawOK /\ Stays
  BY StableStep DEF WorkInv
<1>2. ASSUME NEW n \in Names, NEW c \in Contents, Deliver(n, c)
      PROVE  ArchiverOK'
  BY <1>1, <1>2 DEF Deliver, ledger, ArchiverOK, ReceiptsOK, TypeOK, Stays
<1>3. CASE ArchiveStart
  BY <1>1, <1>3
     DEF ArchiveStart, files, ledger, observed, ArchiverOK, ReceiptsOK, TypeOK, Stays,
         IdleArchiver, ToRepair
<1>4. CASE RepairTodo
  BY <1>1, <1>4 DEF RepairTodo, ledger, observed, ArchiverOK, ReceiptsOK, TypeOK, Stays
<1>5. CASE TodosRepaired
  BY <1>1, <1>5
     DEF TodosRepaired, files, ledger, observed, ArchiverOK, ReceiptsOK, TypeOK, Stays
<1>6. CASE RepairCleanup
  BY <1>1, <1>6
     DEF RepairCleanup, files, ledger, observed, ArchiverOK, ReceiptsOK, TypeOK, Stays,
         Uncleaned
<1>7. CASE Swept
  BY <1>1, <1>7 DEF Swept, files, ledger, observed, ArchiverOK, ReceiptsOK, TypeOK, Stays
<1>8. ASSUME NEW batch \in Batches, Admit(batch)
      PROVE  ArchiverOK'
  BY <1>1, <1>8 DEF Admit, files, observed, ArchiverOK, ReceiptsOK, TypeOK, Stays
<1>9. CASE Select
  BY <1>1, <1>9
     DEF Select, files, ledger, observed, ArchiverOK, ReceiptsOK, TypeOK, Stays,
         OldestName
<1>10. CASE ArchiveEnd
  BY <1>1, <1>10
     DEF ArchiveEnd, files, ledger, observed, ArchiverOK, ReceiptsOK, TypeOK, Stays,
         IdleArchiver
<1>11. CASE PublishObject
  BY <1>1, <1>11 DEF PublishObject, ledger, observed, ArchiverOK, ReceiptsOK, TypeOK, Stays
<1>12. CASE CommitArchive
  BY <1>1, <1>12 DEF CommitArchive, files, observed, ArchiverOK, ReceiptsOK, TypeOK, Stays
<1>13. CASE PublishNew
  BY <1>1, <1>13 DEF PublishNew, ledger, observed, ArchiverOK, ReceiptsOK, TypeOK, Stays
<1>14. CASE CheckHandover
  BY <1>1, <1>14
     DEF CheckHandover, files, ledger, observed, ArchiverOK, ReceiptsOK, TypeOK, Stays,
         IdleArchiver, HandedOver, Terminal
<1>15. CASE Unlink
  BY <1>1, <1>15
     DEF Unlink, ledger, observed, ArchiverOK, ReceiptsOK, TypeOK, Stays, IdleArchiver,
         IsSource
<1>16. CASE MarkCleaned
  BY <1>1, <1>16 DEF MarkCleaned, files, observed, ArchiverOK, ReceiptsOK, TypeOK, Stays
<1>17. CASE ArchiverDies
  BY <1>1, <1>17
     DEF ArchiverDies, files, ledger, ArchiverOK, ReceiptsOK, TypeOK, Stays, IdleArchiver
<1>18. ASSUME NEW c \in Contents, Scan(c)
      PROVE  ArchiverOK'
  BY <1>1, <1>18 DEF Scan, ledger, observed, ArchiverOK, ReceiptsOK, TypeOK, Stays
<1>19. ASSUME NEW c \in Contents, Normalize(c)
      PROVE  ArchiverOK'
  <2>1. Move(c, "uncertain", "UNKNOWN")
    BY <1>19 DEF Normalize
  <2>2. QED
    BY <1>1, <1>19, <2>1, MoveFacts
       DEF Normalize, files, observed, ArchiverOK, ReceiptsOK, TypeOK, Stays, Take
<1>20. ASSUME NEW c \in Contents, Claim(c)
      PROVE  ArchiverOK'
  <2>1. Move(c, "claim", "RUNNING")
    BY <1>20 DEF Claim
  <2>2. QED
    BY <1>1, <1>20, <2>1, MoveFacts
       DEF Claim, files, observed, ArchiverOK, ReceiptsOK, TypeOK, Stays, Take
<1>21. ASSUME NEW row \in PROCESS, Outcome(row[2], row[3])
      PROVE  ArchiverOK'
  <2>1. proc.now \in Contents
    BY <1>1, <1>21 DEF Outcome, TypeOK, ProcessorOK
  <2>2. Move(proc.now, row[2], row[3])
    BY <1>21 DEF Outcome
  <2>3. QED
    BY <1>1, <1>21, <2>1, <2>2, MoveFacts
       DEF Outcome, files, observed, ArchiverOK, ReceiptsOK, TypeOK, Stays
<1>22. CASE RemoveTodo
  BY <1>1, <1>22 DEF RemoveTodo, ledger, observed, ArchiverOK, ReceiptsOK, TypeOK, Stays
<1>23. ASSUME NEW row \in PROCESS, Rule(row[2], row[3])
      PROVE  ArchiverOK'
  <2>1. saw.key \in Contents
    BY <1>1, <1>23 DEF Rule, TypeOK, ProcessorOK
  <2>2. Move(saw.key, row[2], row[3])
    BY <1>23 DEF Rule
  <2>3. QED
    BY <1>1, <1>23, <2>1, <2>2, MoveFacts
       DEF Rule, files, observed, ArchiverOK, ReceiptsOK, TypeOK, Stays
<1>24. CASE UNCHANGED vars
      \/ ProcessStart
      \/ (\E batch \in Batches : Choose(batch))
      \/ ProcessEnd
      \/ (\E c \in Contents : Reconcile(c))
      \/ HandlerActs
      \/ ProcessorDies
      \/ (\E c \in Contents : Look(c))
      \/ RuleRefused
  <2>1. UNCHANGED <<inbox, objects, todo, receipt, key, work, arch>>
    BY <1>24
       DEF ProcessStart, Choose, ProcessEnd, Reconcile, HandlerActs, ProcessorDies, Look,
           RuleRefused, files, ledger, observed, vars
  <2>2. QED
    BY <1>1, <2>1 DEF ArchiverOK, HandedOver, Terminal
<1>25. QED
  <2>1. CASE Archiver
    BY <2>1, <1>3, <1>4, <1>5, <1>6, <1>7, <1>8, <1>9, <1>10, <1>11, <1>12, <1>13, <1>14,
       <1>15, <1>16, <1>24
       DEF Archiver
  <2>2. CASE Processor
    BY <2>2, <1>18, <1>19, <1>20, <1>21, <1>22, <1>24 DEF Processor
  <2>3. CASE Operator
    BY <2>3, <1>23, <1>24 DEF Operator
  <2>4. QED
    BY <2>1, <2>2, <2>3, <1>2, <1>17, <1>24 DEF Next

LEMMA ProcessorStep == WorkInv /\ [Next]_vars => ProcessorOK'
<1> SUFFICES ASSUME WorkInv, [Next]_vars PROVE ProcessorOK'
  OBVIOUS
<1>1. TypeOK /\ ArchiverOK /\ ProcessorOK /\ SawOK /\ EffectsOK /\ Stays
  BY StableStep DEF WorkInv
<1>2. CASE CommitArchive
  <2>1. arch.hash \in Contents
    BY <1>1, <1>2 DEF CommitArchive, TypeOK, ArchiverOK
  <2>2. \A c \in Contents : Known(c) => work'[c] = work[c]
    BY <1>1, <1>2, <2>1 DEF CommitArchive, TypeOK
  <2>3. proc.at \in {"call", "done"} => proc.now \in Contents /\ Known(proc.now)
    BY <1>1 DEF ProcessorOK, Known, Terminal, Final, TypeOK
  <2>4. QED
    BY <1>1, <1>2, <2>2, <2>3 DEF CommitArchive, observed, ProcessorOK, Terminal
<1>3. CASE ProcessStart
  BY <1>1, <1>3
     DEF ProcessStart, files, ledger, observed, ProcessorOK, TypeOK, Stays, Terminal,
         IdleProcessor
<1>4. ASSUME NEW c \in Contents, Scan(c)
      PROVE  ProcessorOK'
  BY <1>1, <1>4 DEF Scan, ledger, observed, ProcessorOK, TypeOK, Stays, Terminal
<1>5. ASSUME NEW batch \in Batches, Choose(batch)
      PROVE  ProcessorOK'
  BY <1>1, <1>5 DEF Choose, files, ledger, observed, ProcessorOK, TypeOK, Stays, Terminal
<1>6. CASE ProcessEnd
  BY <1>1, <1>6
     DEF ProcessEnd, files, ledger, observed, ProcessorOK, TypeOK, Stays, Terminal,
         IdleProcessor
<1>7. ASSUME NEW c \in Contents, Normalize(c)
      PROVE  ProcessorOK'
  <2>1. Move(c, "uncertain", "UNKNOWN")
    BY <1>7 DEF Normalize
  <2>2. QED
    BY <1>1, <1>7, <2>1, MoveFacts
       DEF Normalize, files, observed, ProcessorOK, TypeOK, Stays, Terminal, Take
<1>8. ASSUME NEW c \in Contents, Reconcile(c)
      PROVE  ProcessorOK'
  BY <1>1, <1>8
     DEF Reconcile, files, ledger, observed, ProcessorOK, TypeOK, Stays, Terminal, Take
<1>9. ASSUME NEW c \in Contents, Claim(c)
      PROVE  ProcessorOK'
  <2>1. Move(c, "claim", "RUNNING")
    BY <1>9 DEF Claim
  <2>2. QED
    BY <1>1, <1>9, <2>1, MoveFacts
       DEF Claim, files, observed, ProcessorOK, TypeOK, Stays, Terminal, Take, EffectsOK
<1>10. CASE HandlerActs
  BY <1>1, <1>10 DEF HandlerActs, files, ledger, ProcessorOK, TypeOK, Stays, Terminal
<1>11. ASSUME NEW row \in PROCESS, Outcome(row[2], row[3])
      PROVE  ProcessorOK'
  <2>1. proc.now \in Contents
    BY <1>1, <1>11 DEF Outcome, TypeOK, ProcessorOK
  <2>2. Move(proc.now, row[2], row[3])
    BY <1>11 DEF Outcome
  <2>3. QED
    BY <1>1, <1>11, <2>1, <2>2, MoveFacts
       DEF Outcome, files, observed, ProcessorOK, TypeOK, Stays, Terminal, IdleProcessor,
           Final
<1>12. CASE RemoveTodo
  BY <1>1, <1>12 DEF RemoveTodo, ledger, observed, ProcessorOK, TypeOK, Stays, Terminal
<1>13. ASSUME NEW c \in Contents, Look(c)
      PROVE  ProcessorOK'
  BY <1>1, <1>13 DEF Look, files, ledger, observed, ProcessorOK, TypeOK, Stays, Terminal
<1>14. ASSUME NEW row \in PROCESS, Rule(row[2], row[3])
      PROVE  ProcessorOK'
  <2>1. saw.key \in Contents
    BY <1>1, <1>14 DEF Rule, TypeOK, ProcessorOK
  <2>2. Move(saw.key, row[2], row[3])
    BY <1>14 DEF Rule
  <2>3. QED
    BY <1>1, <1>14, <2>1, <2>2, MoveFacts
       DEF Rule, files, observed, ProcessorOK, TypeOK, Stays, Terminal, IdleProcessor,
           Final
<1>15. CASE RuleRefused
  BY <1>1, <1>15
     DEF RuleRefused, files, ledger, observed, ProcessorOK, TypeOK, Stays, Terminal
<1>16. CASE UNCHANGED vars
      \/ (\E n \in Names, c \in Contents : Deliver(n, c))
      \/ ArchiveStart
      \/ RepairTodo
      \/ TodosRepaired
      \/ RepairCleanup
      \/ Swept
      \/ (\E batch \in Batches : Admit(batch))
      \/ Select
      \/ ArchiveEnd
      \/ PublishObject
      \/ PublishNew
      \/ CheckHandover
      \/ Unlink
      \/ MarkCleaned
      \/ ArchiverDies
      \/ ProcessorDies
  <2>1. UNCHANGED <<work, effects>> /\ proc' \in {proc, IdleProcessor}
    BY <1>16
       DEF Deliver, ArchiveStart, RepairTodo, TodosRepaired, RepairCleanup, Swept, Admit,
           Select, ArchiveEnd, PublishObject, PublishNew, CheckHandover, Unlink,
           MarkCleaned, ArchiverDies, ProcessorDies, files, ledger, observed, vars
  <2>2. QED
    BY <1>1, <2>1 DEF ProcessorOK, Terminal, IdleProcessor
<1>17. QED
  <2>1. CASE Archiver
    BY <2>1, <1>2, <1>16 DEF Archiver
  <2>2. CASE Processor
    BY <2>2, <1>3, <1>4, <1>5, <1>6, <1>7, <1>8, <1>9, <1>10, <1>11, <1>12, <1>16
       DEF Processor
  <2>3. CASE Operator
    BY <2>3, <1>13, <1>14, <1>15, <1>16 DEF Operator
  <2>4. QED
    BY <2>1, <2>2, <2>3, <1>16 DEF Next

LEMMA SawStep == WorkInv /\ [Next]_vars => SawOK'
<1> SUFFICES ASSUME WorkInv, [Next]_vars PROVE SawOK'
  OBVIOUS
<1>1. TypeOK /\ ArchiverOK /\ ProcessorOK /\ SawOK
  BY DEF WorkInv
<1>2. CASE CommitArchive
  BY <1>1, <1>2 DEF CommitArchive, files, observed, SawOK, TypeOK, Row, Known, ArchiverOK
<1>3. ASSUME NEW c \in Contents, Normalize(c)
      PROVE  SawOK'
  <2>1. Move(c, "uncertain", "UNKNOWN")
    BY <1>3 DEF Normalize
  <2>2. QED
    BY <1>1, <1>3, <2>1, MoveFacts
       DEF Normalize, files, observed, SawOK, TypeOK, Row, Known, Take
<1>4. ASSUME NEW c \in Contents, Claim(c)
      PROVE  SawOK'
  <2>1. Move(c, "claim", "RUNNING")
    BY <1>4 DEF Claim
  <2>2. QED
    BY <1>1, <1>4, <2>1, MoveFacts
       DEF Claim, files, observed, SawOK, TypeOK, Row, Known, Take
<1>5. CASE HandlerActs
  BY <1>1, <1>5 DEF HandlerActs, files, ledger, SawOK, TypeOK, Row, Known, ProcessorOK
<1>6. ASSUME NEW row \in PROCESS, Outcome(row[2], row[3])
      PROVE  SawOK'
  <2>1. proc.now \in Contents
    BY <1>1, <1>6 DEF Outcome, TypeOK, ProcessorOK
  <2>2. Move(proc.now, row[2], row[3])
    BY <1>6 DEF Outcome
  <2>3. QED
    BY <1>1, <1>6, <2>1, <2>2, MoveFacts
       DEF Outcome, files, observed, SawOK, TypeOK, Row, Known
<1>7. ASSUME NEW c \in Contents, Look(c)
      PROVE  SawOK'
  BY <1>1, <1>7 DEF Look, files, ledger, observed, SawOK, TypeOK, Row, Known
<1>8. ASSUME NEW row \in PROCESS, Rule(row[2], row[3])
      PROVE  SawOK'
  <2>1. saw.key \in Contents
    BY <1>1, <1>8 DEF Rule, TypeOK, ProcessorOK
  <2>2. Move(saw.key, row[2], row[3])
    BY <1>8 DEF Rule
  <2>3. QED
    BY <1>1, <1>8, <2>1, <2>2, MoveFacts
       DEF Rule, files, observed, SawOK, TypeOK, Row, Known
<1>9. CASE RuleRefused
  BY <1>1, <1>9 DEF RuleRefused, files, ledger, observed, SawOK, TypeOK, Row, Known
<1>10. CASE UNCHANGED vars
      \/ (\E n \in Names, c \in Contents : Deliver(n, c))
      \/ ArchiveStart
      \/ RepairTodo
      \/ TodosRepaired
      \/ RepairCleanup
      \/ Swept
      \/ (\E batch \in Batches : Admit(batch))
      \/ Select
      \/ ArchiveEnd
      \/ PublishObject
      \/ PublishNew
      \/ CheckHandover
      \/ Unlink
      \/ MarkCleaned
      \/ ArchiverDies
      \/ ProcessStart
      \/ (\E c \in Contents : Scan(c))
      \/ (\E batch \in Batches : Choose(batch))
      \/ ProcessEnd
      \/ (\E c \in Contents : Reconcile(c))
      \/ RemoveTodo
      \/ ProcessorDies
  BY <1>1, <1>10
     DEF Deliver, ArchiveStart, RepairTodo, TodosRepaired, RepairCleanup, Swept, Admit,
         Select, ArchiveEnd, PublishObject, PublishNew, CheckHandover, Unlink,
         MarkCleaned, ArchiverDies, ProcessStart, Scan, Choose, ProcessEnd, Reconcile,
         RemoveTodo, ProcessorDies, files, ledger, observed, vars, SawOK, TypeOK, Row,
         Known
<1>11. QED
  <2>1. CASE Archiver
    BY <2>1, <1>2, <1>10 DEF Archiver
  <2>2. CASE Processor
    BY <2>2, <1>3, <1>4, <1>5, <1>6, <1>10 DEF Processor
  <2>3. CASE Operator
    BY <2>3, <1>7, <1>8, <1>9, <1>10 DEF Operator
  <2>4. QED
    BY <2>1, <2>2, <2>3, <1>10 DEF Next

LEMMA EffectsStep == WorkInv /\ [Next]_vars => EffectsOK'
<1> SUFFICES ASSUME WorkInv, [Next]_vars PROVE EffectsOK'
  OBVIOUS
<1>1. TypeOK /\ ArchiverOK /\ ProcessorOK /\ SawOK /\ EffectsOK
  BY DEF WorkInv
<1>2. CASE CommitArchive
  BY <1>1, <1>2 DEF CommitArchive, files, observed, EffectsOK, TypeOK, Known, ArchiverOK
<1>3. ASSUME NEW c \in Contents, Normalize(c)
      PROVE  EffectsOK'
  <2>1. Move(c, "uncertain", "UNKNOWN")
    BY <1>3 DEF Normalize
  <2>2. QED
    BY <1>1, <1>3, <2>1, MoveFacts
       DEF Normalize, files, observed, EffectsOK, TypeOK, Known, Take
<1>4. ASSUME NEW c \in Contents, Claim(c)
      PROVE  EffectsOK'
  <2>1. Move(c, "claim", "RUNNING")
    BY <1>4 DEF Claim
  <2>2. QED
    BY <1>1, <1>4, <2>1, MoveFacts
       DEF Claim, files, observed, EffectsOK, TypeOK, Known, Take
<1>5. CASE HandlerActs
  BY <1>1, <1>5 DEF HandlerActs, files, ledger, EffectsOK, TypeOK, Known, ProcessorOK
<1>6. ASSUME NEW row \in PROCESS, Outcome(row[2], row[3])
      PROVE  EffectsOK'
  <2>1. proc.now \in Contents
    BY <1>1, <1>6 DEF Outcome, TypeOK, ProcessorOK
  <2>2. Move(proc.now, row[2], row[3])
    BY <1>6 DEF Outcome
  <2>3. QED
    BY <1>1, <1>6, <2>1, <2>2, MoveFacts
       DEF Outcome, files, observed, EffectsOK, TypeOK, Known, ProcessorOK, Truthful
<1>7. ASSUME NEW row \in PROCESS, Rule(row[2], row[3])
      PROVE  EffectsOK'
  <2>1. saw.key \in Contents
    BY <1>1, <1>7 DEF Rule, TypeOK, ProcessorOK
  <2>2. Move(saw.key, row[2], row[3])
    BY <1>7 DEF Rule
  <2>3. QED
    BY <1>1, <1>7, <2>1, <2>2, MoveFacts
       DEF Rule, files, observed, EffectsOK, TypeOK, Known, SawOK, AsSeen, Justified
<1>8. CASE UNCHANGED vars
      \/ (\E n \in Names, c \in Contents : Deliver(n, c))
      \/ ArchiveStart
      \/ RepairTodo
      \/ TodosRepaired
      \/ RepairCleanup
      \/ Swept
      \/ (\E batch \in Batches : Admit(batch))
      \/ Select
      \/ ArchiveEnd
      \/ PublishObject
      \/ PublishNew
      \/ CheckHandover
      \/ Unlink
      \/ MarkCleaned
      \/ ArchiverDies
      \/ ProcessStart
      \/ (\E c \in Contents : Scan(c))
      \/ (\E batch \in Batches : Choose(batch))
      \/ ProcessEnd
      \/ (\E c \in Contents : Reconcile(c))
      \/ RemoveTodo
      \/ ProcessorDies
      \/ (\E c \in Contents : Look(c))
      \/ RuleRefused
  BY <1>1, <1>8
     DEF Deliver, ArchiveStart, RepairTodo, TodosRepaired, RepairCleanup, Swept, Admit,
         Select, ArchiveEnd, PublishObject, PublishNew, CheckHandover, Unlink,
         MarkCleaned, ArchiverDies, ProcessStart, Scan, Choose, ProcessEnd, Reconcile,
         RemoveTodo, ProcessorDies, Look, RuleRefused, files, ledger, observed, vars,
         EffectsOK, TypeOK, Known
<1>9. QED
  <2>1. CASE Archiver
    BY <2>1, <1>2, <1>8 DEF Archiver
  <2>2. CASE Processor
    BY <2>2, <1>3, <1>4, <1>5, <1>6, <1>8 DEF Processor
  <2>3. CASE Operator
    BY <2>3, <1>7, <1>8 DEF Operator
  <2>4. QED
    BY <2>1, <2>2, <2>3, <1>8 DEF Next

LEMMA NothingLostStep == WorkInv /\ [Next]_vars => NothingLost'
<1> SUFFICES ASSUME WorkInv, [Next]_vars PROVE NothingLost'
  OBVIOUS
<1>1. TypeOK /\ ReceiptsOK /\ ArchiverOK /\ ProcessorOK /\ SawOK /\ NothingLost /\ Stays
  BY StableStep DEF WorkInv
<1>2. ASSUME NEW n \in Names, NEW c \in Contents, Deliver(n, c)
      PROVE  NothingLost'
  <2>1. ASSUME NEW d \in arrived'
        PROVE  (\E m \in Names : inbox'[m] = d) \/ (d \in objects' /\ HandedOver(d)')
    <3>1. inbox'[n] = c /\ \A m \in Names : inbox[m] # None => inbox'[m] = inbox[m]
      BY <1>1, <1>2 DEF Deliver, TypeOK
    <3>2. CASE d = c
      BY <3>1, <3>2
    <3>3. CASE d \in arrived /\ \E m \in Names : inbox[m] = d
      <4>1. d # None
        BY <1>1, <3>3, FileWorkAssumption DEF TypeOK
      <4>2. QED
        BY <3>1, <3>3, <4>1
    <3>4. CASE d \in arrived /\ d \in objects /\ HandedOver(d)
      BY <1>1, <3>4 DEF Stays, TypeOK
    <3>5. QED
      BY <1>1, <1>2, <3>2, <3>3, <3>4 DEF Deliver, NothingLost
  <2>2. QED
    BY <2>1 DEF NothingLost
<1>3. CASE Unlink
  BY <1>1, <1>3
     DEF Unlink, ledger, observed, NothingLost, TypeOK, Stays, ArchiverOK, ReceiptsOK,
         IsSource
<1>4. ASSUME NEW c \in Contents, Normalize(c)
      PROVE  NothingLost'
  <2>1. Move(c, "uncertain", "UNKNOWN")
    BY <1>4 DEF Normalize
  <2>2. QED
    BY <1>1, <1>4, <2>1, MoveFacts
       DEF Normalize, files, observed, NothingLost, TypeOK, Stays, Take
<1>5. ASSUME NEW c \in Contents, Claim(c)
      PROVE  NothingLost'
  <2>1. Move(c, "claim", "RUNNING")
    BY <1>5 DEF Claim
  <2>2. QED
    BY <1>1, <1>5, <2>1, MoveFacts
       DEF Claim, files, observed, NothingLost, TypeOK, Stays, Take
<1>6. ASSUME NEW row \in PROCESS, Outcome(row[2], row[3])
      PROVE  NothingLost'
  <2>1. proc.now \in Contents
    BY <1>1, <1>6 DEF Outcome, TypeOK, ProcessorOK
  <2>2. Move(proc.now, row[2], row[3])
    BY <1>6 DEF Outcome
  <2>3. QED
    BY <1>1, <1>6, <2>1, <2>2, MoveFacts
       DEF Outcome, files, observed, NothingLost, TypeOK, Stays
<1>7. ASSUME NEW row \in PROCESS, Rule(row[2], row[3])
      PROVE  NothingLost'
  <2>1. saw.key \in Contents
    BY <1>1, <1>7 DEF Rule, TypeOK, ProcessorOK
  <2>2. Move(saw.key, row[2], row[3])
    BY <1>7 DEF Rule
  <2>3. QED
    BY <1>1, <1>7, <2>1, <2>2, MoveFacts
       DEF Rule, files, observed, NothingLost, TypeOK, Stays
<1>8. CASE UNCHANGED vars
      \/ ArchiveStart
      \/ RepairTodo
      \/ TodosRepaired
      \/ RepairCleanup
      \/ Swept
      \/ (\E batch \in Batches : Admit(batch))
      \/ Select
      \/ ArchiveEnd
      \/ PublishObject
      \/ CommitArchive
      \/ PublishNew
      \/ CheckHandover
      \/ MarkCleaned
      \/ ArchiverDies
      \/ ProcessStart
      \/ (\E c \in Contents : Scan(c))
      \/ (\E batch \in Batches : Choose(batch))
      \/ ProcessEnd
      \/ (\E c \in Contents : Reconcile(c))
      \/ HandlerActs
      \/ RemoveTodo
      \/ ProcessorDies
      \/ (\E c \in Contents : Look(c))
      \/ RuleRefused
  BY <1>1, <1>8
     DEF ArchiveStart, RepairTodo, TodosRepaired, RepairCleanup, Swept, Admit, Select,
         ArchiveEnd, PublishObject, CommitArchive, PublishNew, CheckHandover, MarkCleaned,
         ArchiverDies, ProcessStart, Scan, Choose, ProcessEnd, Reconcile, HandlerActs,
         RemoveTodo, ProcessorDies, Look, RuleRefused, files, ledger, observed, vars,
         NothingLost, TypeOK, Stays
<1>9. QED
  <2>1. CASE Archiver
    BY <2>1, <1>3, <1>8 DEF Archiver
  <2>2. CASE Processor
    BY <2>2, <1>4, <1>5, <1>6, <1>8 DEF Processor
  <2>3. CASE Operator
    BY <2>3, <1>7, <1>8 DEF Operator
  <2>4. QED
    BY <2>1, <2>2, <2>3, <1>2, <1>8 DEF Next

LEMMA NextInv == WorkInv /\ [Next]_vars => WorkInv'
BY TypeStep, ReceiptsStep, ArchiverStep, ProcessorStep, SawStep, EffectsStep,
   NothingLostStep
   DEF WorkInv

\* The directories, the ledger, the archiver's and the processor's runs and what an
\* operator saw agree after every step of archive, process and rule_work, and after the
\* death of either role between any two.
THEOREM WorkInvariant == Spec => []WorkInv
BY InitInv, NextInv, PTL DEF Spec

\* The handler's effect on a content happens at most once, has not happened while process
\* may claim the work, and has when it is DONE (_move, process, rule_work).
THEOREM EffectOnceHolds == Spec => []EffectOnce
<1>1. WorkInv => EffectOnce
  BY DEF WorkInv, EffectsOK, EffectOnce
<1>2. QED
  BY <1>1, WorkInvariant, PTL

\* _cleanup_receipt unlinks no delivery before its object is there and its work is handed
\* over or decided, and nothing takes either back.
THEOREM NothingLostHolds == Spec => []NothingLost
<1>1. WorkInv => NothingLost
  BY DEF WorkInv
<1>2. QED
  BY <1>1, WorkInvariant, PTL

-----------------------------------------------------------------------------
(* That the workers keep their queue, whoever dies and whenever an operator  *)
(* rules: for every finite set of names, and any number of deliveries.       *)

Receipted == {n \in Names : receipt[n] # "none"}
Received == {n \in Names : receipt[n] = "received"}

\* Receipts are numbered as they come, and every work row is older than what is still to
\* be archived.
OrderOK ==
  /\ order \in [Names -> Nat] /\ age \in [Contents -> Nat]
  /\ \A n \in Receipted : order[n] <= Admitted
  /\ \A n, m \in Receipted : order[n] = order[m] => n = m
  /\ \A c \in Contents : Known(c) =>
       /\ age[c] <= Admitted
       /\ \A n \in Received : age[c] < order[n]

\* The archiver takes what is received from the oldest on.
SelectOK ==
  /\ arch.at \in {"object", "commit"} => \A m \in Received : order[arch.now] <= order[m]
  /\ \A n \in arch.queue : \A m \in Received \ arch.queue :
       order[n] < order[m] \/ (arch.at \in {"object", "commit"} /\ m = arch.now)

\* Work is not admitted before all older work is handed over: a run repairs what the
\* last one left before it archives.
HandoverOK ==
  /\ \A c \in todo : Known(c)
  /\ \A c, d \in Contents : Known(c) /\ Known(d) /\ age[d] < age[c] => HandedOver(d)
  /\ \A c \in arch.keys : Known(c)
  /\ arch.at = "todos" => \A c \in Contents : Known(c) => c \in arch.keys \/ HandedOver(c)
  /\ arch.at = "publish" => \A c \in Contents : Known(c) => HandedOver(c) \/ c = key[arch.now]
  /\ arch.at \notin {"idle", "todos", "publish"} =>
       \A c \in Contents : Known(c) => HandedOver(c)

\* What is older than fresh work in the processor's hands is decided, or in its hands too.
InHand(d) ==
  \/ Terminal(d) \/ d \in proc.keys \cup proc.queue
  \/ proc.at \in {"call", "done"} /\ d = proc.now

QueueOK ==
  /\ \A c \in proc.keys \cup proc.queue : Known(c)
  /\ proc.at # "scan" => proc.keys = {}
  /\ \A c \in proc.keys \cup proc.queue : proc.at = "scan" \/ work[c].state = "READY" =>
       \A d \in Contents : Known(d) /\ age[d] < age[c] => InHand(d)

OrderInv == OrderOK /\ SelectOK /\ HandoverOK /\ QueueOK

\* What every step leaves alone but an admission and the commit of an archival.
Steady ==
  /\ order' = order /\ age' = age
  /\ \A c \in Contents : Known(c)' <=> Known(c)
  /\ Receipted' = Receipted /\ Received' = Received

-----------------------------------------------------------------------------
LEMMA InitOrder == Init => OrderInv
<1> SUFFICES ASSUME Init PROVE OrderInv
  OBVIOUS
<1>1. /\ Receipted = {} /\ Received = {} /\ todo = {} /\ arch = IdleArchiver
      /\ proc = IdleProcessor /\ \A c \in Contents : ~Known(c)
      /\ order \in [Names -> Nat] /\ age \in [Contents -> Nat]
  BY DEF Init, Receipted, Received, Known
<1>2. OrderOK /\ SelectOK
  BY <1>1 DEF OrderOK, SelectOK
<1>3. HandoverOK /\ QueueOK
  BY <1>1 DEF HandoverOK, QueueOK, IdleArchiver, IdleProcessor
<1>4. QED
  BY <1>2, <1>3 DEF OrderInv

LEMMA SteadyStep ==
  ASSUME WorkInv, [Next]_vars
  PROVE  (\E batch \in Batches : Admit(batch)) \/ CommitArchive \/ Steady
<1>1. TypeOK /\ ArchiverOK
  BY DEF WorkInv
<1>2. CASE MarkCleaned
  <2>1. /\ receipt' = [receipt EXCEPT ![arch.now] = "cleaned"]
        /\ arch.now \in Names /\ receipt[arch.now] = "archived"
        /\ order' = order /\ age' = age /\ work' = work
    BY <1>1, <1>2 DEF MarkCleaned, ArchiverOK
  <2>2. \A n \in Names : /\ receipt'[n] = "none" <=> receipt[n] = "none"
                         /\ receipt'[n] = "received" <=> receipt[n] = "received"
    BY <1>1, <2>1 DEF TypeOK
  <2>3. QED
    BY <2>1, <2>2 DEF Steady, Receipted, Received, Known
<1>3. ASSUME NEW c \in Contents, NEW event, NEW state, Move(c, event, state),
             order' = order, age' = age, receipt' = receipt
      PROVE  Steady
  <2>1. \A d \in Contents : Known(d)' <=> Known(d)
    BY <1>1, <1>3, MoveFacts DEF Known, States
  <2>2. QED
    BY <1>3, <2>1 DEF Steady, Receipted, Received
<1>4. ASSUME NEW c \in Contents, Normalize(c) \/ Claim(c)
      PROVE  Steady
  BY <1>3, <1>4 DEF Normalize, Claim
<1>5. ASSUME NEW row \in PROCESS, Outcome(row[2], row[3])
      PROVE  Steady
  BY <1>1, <1>3, <1>5 DEF Outcome, WorkInv, ProcessorOK
<1>6. ASSUME NEW row \in PROCESS, Rule(row[2], row[3])
      PROVE  Steady
  BY <1>1, <1>3, <1>6 DEF Rule, TypeOK
<1>7. CASE UNCHANGED ledger
  BY <1>7 DEF ledger, Steady, Receipted, Received, Known
<1>8. CASE UNCHANGED vars
  BY <1>7, <1>8 DEF vars
<1>9. ASSUME NEW n \in Names, NEW c \in Contents, Deliver(n, c)
      PROVE  UNCHANGED ledger
  BY <1>9 DEF Deliver
<1>10. CASE \/ ArchiveStart \/ RepairTodo \/ TodosRepaired \/ RepairCleanup \/ Swept
            \/ Select \/ ArchiveEnd \/ PublishObject \/ PublishNew \/ CheckHandover
            \/ Unlink \/ ArchiverDies
  <2>1. UNCHANGED ledger
    BY <1>10
       DEF ArchiveStart, RepairTodo, TodosRepaired, RepairCleanup, Swept, Select, ArchiveEnd,
           PublishObject, PublishNew, CheckHandover, Unlink, ArchiverDies
  <2>2. QED
    BY <1>7, <2>1
<1>11. CASE \/ ProcessStart \/ (\E c \in Contents : Scan(c))
            \/ (\E batch \in Batches : Choose(batch)) \/ ProcessEnd
            \/ (\E c \in Contents : Reconcile(c)) \/ HandlerActs \/ RemoveTodo
            \/ ProcessorDies \/ (\E c \in Contents : Look(c)) \/ RuleRefused
  <2>1. UNCHANGED ledger
    BY <1>11
       DEF ProcessStart, Scan, Choose, ProcessEnd, Reconcile, HandlerActs, RemoveTodo,
           ProcessorDies, Look, RuleRefused
  <2>2. QED
    BY <1>7, <2>1
<1>12. QED
  <2>1. CASE Archiver
    BY <2>1, <1>2, <1>10 DEF Archiver
  <2>2. CASE Processor
    BY <2>2, <1>4, <1>5, <1>11 DEF Processor
  <2>3. CASE Operator
    BY <2>3, <1>6, <1>11 DEF Operator
  <2>4. QED
    BY <2>1, <2>2, <2>3, <1>7, <1>8, <1>9, <1>10, <1>11 DEF Next

-----------------------------------------------------------------------------
(* The numbers of an admission.                                            *)

LEMMA AdmittedIsNat == IsFiniteSet(Receipted) /\ Admitted = Cardinality(Receipted) /\ Admitted \in Nat
<1>1. IsFiniteSet(Receipted)
  BY FileWorkAssumption, FS_Subset DEF Receipted
<1>2. QED
  BY <1>1, FS_CardinalityType DEF Admitted, Receipted

LEMMA AdmittedNext ==
  IsFiniteSet(Receipted)' /\ Admitted' = Cardinality(Receipted') /\ Admitted' \in Nat
<1>1. IsFiniteSet(Receipted')
  BY FileWorkAssumption, FS_Subset DEF Receipted
<1>2. QED
  BY <1>1, FS_CardinalityType DEF Admitted, Receipted

Upto(S, n) == {m \in S : m <= n}

LEMMA Ranks ==
  ASSUME NEW S \in SUBSET Nat, IsFiniteSet(S)
  PROVE  /\ Cardinality(S) \in Nat
         /\ \A n \in S : /\ Cardinality(Upto(S, n)) \in Nat
                         /\ Cardinality(Upto(S, n)) > 0
                         /\ Cardinality(Upto(S, n)) <= Cardinality(S)
         /\ \A n, m \in S : Cardinality(Upto(S, n)) = Cardinality(Upto(S, m)) => n = m
<1>1. Cardinality(S) \in Nat
  BY FS_CardinalityType
<1>2. ASSUME NEW n \in S
      PROVE  /\ IsFiniteSet(Upto(S, n)) /\ Cardinality(Upto(S, n)) \in Nat
             /\ Cardinality(Upto(S, n)) > 0 /\ Cardinality(Upto(S, n)) <= Cardinality(S)
  <2>1. Upto(S, n) \in SUBSET S /\ n \in Upto(S, n)
    BY DEF Upto
  <2>2. IsFiniteSet(Upto(S, n)) /\ Cardinality(Upto(S, n)) <= Cardinality(S)
    BY <2>1, FS_Subset
  <2>3. Cardinality(Upto(S, n)) \in Nat /\ Cardinality(Upto(S, n)) # 0
    BY <2>1, <2>2, FS_CardinalityType, FS_EmptySet
  <2>4. QED
    BY <2>2, <2>3
<1>3. ASSUME NEW n \in S, NEW m \in S, n < m
      PROVE  Cardinality(Upto(S, n)) # Cardinality(Upto(S, m))
  <2>1. n \in Nat /\ m \in Nat /\ \A x \in S : x \in Nat
    OBVIOUS
  <2>2. \A x \in S : x <= n => x <= m
    BY <1>3, <2>1
  <2>3. Upto(S, n) \in SUBSET Upto(S, m)
    BY <2>2 DEF Upto
  <2>4. m \in Upto(S, m) /\ m \notin Upto(S, n)
    BY <1>3, <2>1 DEF Upto
  <2>5. QED
    BY <1>2, <2>3, <2>4, FS_Subset
<1>4. ASSUME NEW n \in S, NEW m \in S, Cardinality(Upto(S, n)) = Cardinality(Upto(S, m))
      PROVE  n = m
  <2>1. ~(n < m) /\ ~(m < n)
    BY <1>3, <1>4
  <2>2. QED
    BY <2>1
<1>5. QED
  BY <1>1, <1>2, <1>4

\* New receipts are numbered in their order, behind all there are.
LEMMA AdmitNumbers ==
  ASSUME WorkInv, OrderOK, NEW batch \in Batches, Admit(batch)
  PROVE  /\ Receipted \subseteq Receipted' /\ Received \subseteq Received'
         /\ Received' \ Received = Receipted' \ Receipted
         /\ order' \in [Names -> Nat]
         /\ Admitted <= Admitted'
         /\ \A n \in Receipted : order'[n] = order[n]
         /\ \A n \in Receipted' \ Receipted : order'[n] > Admitted /\ order'[n] <= Admitted'
         /\ \A n, m \in Receipted' \ Receipted : order'[n] = order'[m] => n = m
<1>1. PICK new : new = {n \in arch.names : receipt[n] = "none"}
  OBVIOUS
<1>2. /\ new \subseteq Names /\ Names \subseteq Nat /\ Receipted \subseteq Names
      /\ receipt \in [Names -> Receipts] /\ order \in [Names -> Nat] /\ Admitted \in Nat
  BY <1>1, FileWorkAssumption, AdmittedIsNat DEF WorkInv, TypeOK, OrderOK, Receipted
<1>3. /\ receipt' = [n \in Names |-> IF n \in new THEN "received" ELSE receipt[n]]
      /\ order' = [n \in Names |-> IF n \in new THEN Admitted + Cardinality(Upto(new, n))
                                              ELSE order[n]]
  BY <1>1 DEF Admit, Upto
<1>4. /\ Receipted' = Receipted \cup new /\ Receipted \cap new = {}
      /\ Received' = Received \cup new /\ Received \subseteq Receipted
  BY <1>1, <1>2, <1>3 DEF Receipted, Received
<1>5. IsFiniteSet(new)
  BY <1>2, FileWorkAssumption, FS_Subset
<1>6. /\ Cardinality(new) \in Nat
      /\ \A n \in new : /\ Cardinality(Upto(new, n)) \in Nat
                        /\ Cardinality(Upto(new, n)) > 0
                        /\ Cardinality(Upto(new, n)) <= Cardinality(new)
      /\ \A n, m \in new : Cardinality(Upto(new, n)) = Cardinality(Upto(new, m)) => n = m
  BY <1>2, <1>5, Ranks
<1>7. Admitted' = Admitted + Cardinality(new)
  <2>1. Cardinality(Receipted \cup new)
          = Cardinality(Receipted) + Cardinality(new) - Cardinality(Receipted \cap new)
    BY <1>5, AdmittedIsNat, FS_Union
  <2>2. Cardinality(Receipted \cap new) = 0
    BY <1>4, FS_EmptySet
  <2>3. QED
    BY <1>2, <1>4, <1>6, <2>1, <2>2, AdmittedIsNat, AdmittedNext
<1>8. \A n \in new : /\ order'[n] = Admitted + Cardinality(Upto(new, n))
                     /\ order'[n] \in Nat
                     /\ order'[n] > Admitted /\ order'[n] <= Admitted'
  BY <1>2, <1>3, <1>6, <1>7
<1>9. \A n \in Names \ new : order'[n] = order[n]
  BY <1>3
<1>10. order' \in [Names -> Nat]
  <2>1. \A n \in Names : order'[n] \in Nat
    BY <1>2, <1>8, <1>9
  <2>2. QED
    BY <1>3, <2>1
<1>11. \A n, m \in new : order'[n] = order'[m] => n = m
  BY <1>2, <1>6, <1>8
<1>12. Admitted <= Admitted'
  BY <1>2, <1>6, <1>7
<1>13. \A n \in Receipted : order'[n] = order[n]
  BY <1>2, <1>4, <1>9
<1>14. Receipted' \ Receipted = new /\ Received' \ Received = new
  BY <1>4
<1>15. QED
  BY <1>4, <1>8, <1>10, <1>11, <1>12, <1>13, <1>14

LEMMA AdmitOrder ==
  ASSUME WorkInv, OrderOK, NEW batch \in Batches, Admit(batch)
  PROVE  OrderOK'
<1>1. /\ Receipted \subseteq Receipted' /\ Received \subseteq Received'
      /\ Received' \ Received = Receipted' \ Receipted
      /\ order' \in [Names -> Nat]
      /\ Admitted <= Admitted'
      /\ \A n \in Receipted : order'[n] = order[n]
      /\ \A n \in Receipted' \ Receipted : order'[n] > Admitted /\ order'[n] <= Admitted'
      /\ \A n, m \in Receipted' \ Receipted : order'[n] = order'[m] => n = m
  BY AdmitNumbers
<1>2. /\ Receipted' \subseteq Names /\ Received \subseteq Receipted /\ Received' \subseteq Names
      /\ Admitted \in Nat /\ Admitted' \in Nat
  BY AdmittedIsNat, AdmittedNext DEF Receipted, Received
<1>3. age' = age /\ \A c \in Contents : Known(c)' <=> Known(c)
  BY DEF Admit, Known
<1>4. /\ order \in [Names -> Nat] /\ age \in [Contents -> Nat]
      /\ \A n \in Receipted : order[n] <= Admitted
      /\ \A n, m \in Receipted : order[n] = order[m] => n = m
      /\ \A c \in Contents : Known(c) =>
           age[c] <= Admitted /\ \A n \in Received : age[c] < order[n]
  BY DEF OrderOK
<1>5. \A n \in Receipted' : order'[n] <= Admitted'
  BY <1>1, <1>2, <1>4
<1>6. \A n, m \in Receipted' : order'[n] = order'[m] => n = m
  <2> SUFFICES ASSUME NEW n \in Receipted', NEW m \in Receipted', order'[n] = order'[m]
               PROVE  n = m
    OBVIOUS
  <2>1. order'[n] \in Nat /\ order'[m] \in Nat
    BY <1>1, <1>2
  <2>2. CASE n \in Receipted /\ m \in Receipted
    BY <1>1, <1>4, <2>2
  <2>3. CASE n \notin Receipted /\ m \notin Receipted
    BY <1>1, <2>3
  <2>4. CASE n \in Receipted /\ m \notin Receipted
    BY <1>1, <1>2, <1>4, <2>1, <2>4
  <2>5. CASE n \notin Receipted /\ m \in Receipted
    BY <1>1, <1>2, <1>4, <2>1, <2>5
  <2>6. QED
    BY <2>2, <2>3, <2>4, <2>5
<1>7. \A c \in Contents : Known(c)' =>
        age'[c] <= Admitted' /\ \A n \in Received' : age'[c] < order'[n]
  <2> SUFFICES ASSUME NEW c \in Contents, Known(c)
               PROVE  age[c] <= Admitted' /\ \A n \in Received' : age[c] < order'[n]
    BY <1>3
  <2>1. age[c] \in Nat /\ age[c] <= Admitted
    BY <1>4
  <2>2. \A n \in Received : age[c] < order'[n]
    BY <1>1, <1>2, <1>4
  <2>3. \A n \in Received' \ Received : age[c] < order'[n]
    BY <1>1, <1>2, <2>1
  <2>4. QED
    BY <1>1, <1>2, <2>1, <2>2, <2>3
<1>8. QED
  BY <1>1, <1>3, <1>4, <1>5, <1>6, <1>7 DEF OrderOK

\* What the commit of an archival changes.
LEMMA CommitFacts ==
  ASSUME WorkInv, OrderOK, SelectOK, CommitArchive
  PROVE  /\ arch.now \in Received /\ arch.hash \in Contents
         /\ Received' = Received \ {arch.now} /\ Receipted' = Receipted
         /\ order' = order /\ Admitted' = Admitted
         /\ age' \in [Contents -> Nat]
         /\ \A c \in Contents : Known(c) => Known(c)' /\ age'[c] = age[c]
         /\ \A c \in Contents : Known(c)' /\ ~Known(c) => c = arch.hash /\ age'[c] = order[arch.now]
<1>1. TypeOK /\ ArchiverOK /\ arch.at = "commit"
  BY DEF WorkInv, CommitArchive
<1>2. /\ arch.now \in Names /\ receipt[arch.now] = "received" /\ arch.hash \in Contents
      /\ order \in [Names -> Nat] /\ age \in [Contents -> Nat]
  BY <1>1 DEF ArchiverOK, TypeOK, OrderOK
<1>3. /\ receipt' = [receipt EXCEPT ![arch.now] = "archived"] /\ order' = order
      /\ work' = IF Known(arch.hash) THEN work
                 ELSE [work EXCEPT ![arch.hash] = [state |-> "READY", attempt |-> 0]]
      /\ age' = IF Known(arch.hash) THEN age
                ELSE [age EXCEPT ![arch.hash] = order[arch.now]]
  BY DEF CommitArchive
<1>4. Received' = Received \ {arch.now} /\ Receipted' = Receipted /\ arch.now \in Received
  BY <1>1, <1>2, <1>3 DEF Received, Receipted, TypeOK
<1>5. Admitted' = Admitted
  BY <1>4, AdmittedIsNat, AdmittedNext
<1>6. age' \in [Contents -> Nat]
  BY <1>2, <1>3
<1>7. \A c \in Contents :
        /\ Known(c) => Known(c)' /\ age'[c] = age[c]
        /\ Known(c)' /\ ~Known(c) => c = arch.hash /\ age'[c] = order[arch.now]
  BY <1>1, <1>2, <1>3 DEF Known, TypeOK
<1>8. QED
  BY <1>2, <1>3, <1>4, <1>5, <1>6, <1>7

\* The work that is new is younger than all there is, and older than all that is left.
LEMMA CommitOrder ==
  ASSUME WorkInv, OrderOK, SelectOK, CommitArchive
  PROVE  /\ OrderOK'
         /\ \A c, d \in Contents : Known(c) /\ Known(d)' /\ age'[d] < age[c] => Known(d)
<1>1. /\ arch.now \in Received /\ arch.hash \in Contents
      /\ Received' = Received \ {arch.now} /\ Receipted' = Receipted
      /\ order' = order /\ Admitted' = Admitted
      /\ age' \in [Contents -> Nat]
      /\ \A c \in Contents : Known(c) => Known(c)' /\ age'[c] = age[c]
      /\ \A c \in Contents : Known(c)' /\ ~Known(c) => c = arch.hash /\ age'[c] = order[arch.now]
  BY CommitFacts
<1>2. /\ order \in [Names -> Nat] /\ age \in [Contents -> Nat]
      /\ \A n \in Receipted : order[n] <= Admitted
      /\ \A n, m \in Receipted : order[n] = order[m] => n = m
      /\ \A c \in Contents : Known(c) =>
           age[c] <= Admitted /\ \A n \in Received : age[c] < order[n]
  BY DEF OrderOK
<1>3. Received \subseteq Receipted /\ Receipted \subseteq Names
  BY DEF Received, Receipted
<1>4. \A m \in Received' : order[arch.now] < order[m]
  <2> SUFFICES ASSUME NEW m \in Received' PROVE order[arch.now] < order[m]
    OBVIOUS
  <2>1. m \in Received /\ m # arch.now /\ arch.at = "commit"
    BY <1>1 DEF CommitArchive
  <2>2. order[arch.now] \in Nat /\ order[m] \in Nat /\ order[arch.now] # order[m]
    BY <1>1, <1>2, <1>3, <2>1
  <2>3. order[arch.now] <= order[m]
    BY <2>1 DEF SelectOK
  <2>4. QED
    BY <2>2, <2>3
<1>5. \A c \in Contents : Known(c)' =>
        age'[c] <= Admitted' /\ \A n \in Received' : age'[c] < order'[n]
  BY <1>1, <1>2, <1>3, <1>4
<1>6. OrderOK'
  BY <1>1, <1>2, <1>5 DEF OrderOK
<1>7. QED
  BY <1>1, <1>2, <1>6

LEMMA OrderStep == WorkInv /\ OrderInv /\ [Next]_vars => OrderOK'
<1> SUFFICES ASSUME WorkInv, OrderInv, [Next]_vars PROVE OrderOK'
  OBVIOUS
<1>1. OrderOK /\ SelectOK
  BY DEF OrderInv
<1>2. CASE Steady
  <2>1. Admitted' = Admitted
    BY <1>2, AdmittedIsNat, AdmittedNext DEF Steady
  <2>2. QED
    BY <1>1, <1>2, <2>1 DEF OrderOK, Steady
<1>3. QED
  BY <1>1, <1>2, AdmitOrder, CommitOrder, SteadyStep

-----------------------------------------------------------------------------
(* The archiver's choice, and the handover before the next admission.      *)

OtherSteps ==
  \/ \E n \in Names, c \in Contents : Deliver(n, c)
  \/ Processor \/ ProcessorDies \/ Operator \/ UNCHANGED vars

LEMMA OthersLeaveArchiver == OtherSteps => arch' = arch /\ key' = key
<1> SUFFICES ASSUME OtherSteps PROVE arch' = arch /\ key' = key
  OBVIOUS
<1>1. CASE UNCHANGED vars
  BY <1>1 DEF vars, ledger
<1>2. CASE \E n \in Names, c \in Contents : Deliver(n, c)
  BY <1>2 DEF Deliver, ledger
<1>3. CASE Processor
  BY <1>3
     DEF Processor, ProcessStart, Scan, Choose, ProcessEnd, Normalize, Reconcile, Claim,
         HandlerActs, Outcome, RemoveTodo, ledger
<1>4. CASE ProcessorDies
  BY <1>4 DEF ProcessorDies, ledger
<1>5. CASE Operator
  BY <1>5 DEF Operator, Look, Rule, RuleRefused, ledger
<1>6. QED
  BY <1>1, <1>2, <1>3, <1>4, <1>5 DEF OtherSteps

\* A cleanup goes on, ends where it began, or is refused.
LEMMA CleanupFacts ==
  ASSUME TypeOK, CheckHandover \/ Unlink \/ MarkCleaned
  PROVE  \/ arch'.at = "idle" /\ arch'.queue = {} /\ arch'.keys = {}
         \/ /\ arch'.at \in {"unlink", "mark", "sweep", "select"}
            /\ arch.at \in {"check", "unlink", "mark"}
            /\ arch'.queue = arch.queue /\ arch'.keys = arch.keys
<1>1. CASE arch' = IdleArchiver
  BY <1>1 DEF IdleArchiver
<1>2. CASE arch.at = "check" /\ arch' = [arch EXCEPT !.at = "unlink"]
  BY <1>2 DEF TypeOK
<1>3. CASE arch.at = "unlink" /\ arch' = [arch EXCEPT !.at = "mark"]
  BY <1>3 DEF TypeOK
<1>4. CASE MarkCleaned
  <2>1. arch.next \in {"sweep", "select"} /\ arch' = [arch EXCEPT !.at = arch.next, !.now = None]
    BY <1>4 DEF MarkCleaned, TypeOK
  <2>2. arch'.at = arch.next /\ arch'.queue = arch.queue /\ arch'.keys = arch.keys
    BY <2>1 DEF TypeOK
  <2>3. QED
    BY <1>4, <2>1, <2>2 DEF MarkCleaned
<1>5. QED
  BY <1>1, <1>2, <1>3, <1>4 DEF CheckHandover, Unlink

LEMMA SelectStep == WorkInv /\ OrderInv /\ [Next]_vars => SelectOK'
<1> SUFFICES ASSUME WorkInv, OrderInv, [Next]_vars PROVE SelectOK'
  OBVIOUS
<1>1. /\ TypeOK /\ ArchiverOK /\ OrderOK /\ SelectOK
      /\ order \in [Names -> Nat] /\ Received \subseteq Names /\ arch.queue \subseteq Names
  BY DEF WorkInv, OrderInv, OrderOK, TypeOK, Received
<1>2. ASSUME NEW batch \in Batches, Admit(batch)
      PROVE  SelectOK'
  <2>1. order' \in [Names -> Nat] /\ Received' \subseteq Names
    BY <1>1, <1>2, AdmitNumbers DEF Received
  <2>2. /\ arch'.at = "select"
        /\ \/ arch'.queue = Received'
           \/ arch'.queue = {n \in Received' : \A m \in Received' : order'[n] <= order'[m]}
    BY <1>1, <1>2 DEF Admit, TypeOK, Received
  <2>3. CASE arch'.queue = Received'
    BY <2>2, <2>3 DEF SelectOK
  <2>4. CASE arch'.queue = {n \in Received' : \A m \in Received' : order'[n] <= order'[m]}
    <3>1. ASSUME NEW n \in arch'.queue, NEW m \in Received' \ arch'.queue
          PROVE  order'[n] < order'[m]
      <4>1. PICK k \in Received' : ~(order'[m] <= order'[k])
        BY <2>4, <3>1
      <4>2. order'[n] <= order'[k]
        BY <2>4, <3>1
      <4>3. order'[n] \in Nat /\ order'[m] \in Nat /\ order'[k] \in Nat
        BY <2>1, <2>4, <3>1
      <4>4. QED
        BY <4>1, <4>2, <4>3
    <3>2. QED
      BY <2>2, <3>1 DEF SelectOK
  <2>5. QED
    BY <2>2, <2>3, <2>4
<1>3. CASE CommitArchive
  <2>1. Received' = Received \ {arch.now} /\ order' = order
    BY <1>1, <1>3, CommitFacts
  <2>2. arch'.at = "publish" /\ arch'.queue = arch.queue
    BY <1>1, <1>3 DEF CommitArchive, TypeOK
  <2>3. QED
    BY <1>1, <2>1, <2>2 DEF SelectOK
<1>4. CASE Steady /\ Select
  <2>1. PICK n \in arch.queue :
          /\ OldestName(n, arch.queue)
          /\ arch' = [arch EXCEPT !.at = "object", !.now = n, !.queue = @ \ {n}]
    BY <1>4 DEF Select
  <2>2. /\ arch'.at = "object" /\ arch'.now = n /\ arch'.queue = arch.queue \ {n}
        /\ arch.at = "select"
    BY <1>1, <1>4, <2>1 DEF Select, TypeOK
  <2>3. \A m \in Received : order[n] <= order[m]
    <3>1. \A m \in Received \ arch.queue : order[n] < order[m]
      BY <1>1, <2>2 DEF SelectOK
    <3>2. QED
      BY <1>1, <2>1, <3>1 DEF OldestName
  <2>4. \A k \in arch.queue \ {n} : \A m \in Received \ (arch.queue \ {n}) :
          order[k] < order[m] \/ m = n
    BY <1>1, <2>2 DEF SelectOK
  <2>5. QED
    BY <1>4, <2>2, <2>3, <2>4 DEF SelectOK, Steady
<1>5. CASE Steady /\ PublishObject
  <2>1. /\ arch.at = "object" /\ arch'.at = "commit" /\ arch'.now = arch.now
        /\ arch'.queue = arch.queue
    BY <1>1, <1>5 DEF PublishObject, TypeOK
  <2>2. QED
    BY <1>1, <1>5, <2>1 DEF SelectOK, Steady
<1>6. CASE Steady /\ arch' = arch
  BY <1>1, <1>6 DEF SelectOK, Steady
<1>7. CASE arch'.at \notin {"object", "commit"} /\ arch'.queue = {}
  BY <1>7 DEF SelectOK
<1>8. CASE /\ Steady /\ arch'.at \notin {"object", "commit"}
           /\ arch.at \notin {"object", "commit"} /\ arch'.queue = arch.queue
  BY <1>1, <1>8 DEF SelectOK, Steady
<1>9. CASE Steady /\ (ArchiveStart \/ ArchiveEnd \/ ArchiverDies)
  <2>1. CASE ArchiveStart
    <3>1. arch'.at = "todos" /\ arch'.queue = {}
      BY <2>1 DEF ArchiveStart, IdleArchiver
    <3>2. QED
      BY <1>7, <3>1
  <2>2. CASE ArchiveEnd \/ ArchiverDies
    <3>1. arch'.at = "idle" /\ arch'.queue = {}
      BY <2>2 DEF ArchiveEnd, ArchiverDies, IdleArchiver
    <3>2. QED
      BY <1>7, <3>1
  <2>3. QED
    BY <1>9, <2>1, <2>2
<1>10. CASE Steady /\ (RepairTodo \/ TodosRepaired \/ RepairCleanup \/ Swept \/ PublishNew)
  <2>1. /\ arch'.at \notin {"object", "commit"}
        /\ arch.at \notin {"object", "commit"} /\ arch'.queue = arch.queue
    BY <1>1, <1>10 DEF RepairTodo, TodosRepaired, RepairCleanup, Swept, PublishNew, TypeOK
  <2>2. QED
    BY <1>8, <1>10, <2>1
<1>11. CASE Steady /\ (CheckHandover \/ Unlink \/ MarkCleaned)
  <2>1. \/ arch'.at = "idle" /\ arch'.queue = {}
        \/ /\ arch'.at \in {"unlink", "mark", "sweep", "select"}
           /\ arch.at \in {"check", "unlink", "mark"} /\ arch'.queue = arch.queue
    BY <1>1, <1>11, CleanupFacts
  <2>2. QED
    BY <1>7, <1>8, <1>11, <2>1
<1>12. CASE Steady
  <2>1. CASE Archiver
    BY <1>2, <1>3, <1>4, <1>5, <1>9, <1>10, <1>11, <1>12, <2>1 DEF Archiver
  <2>2. CASE OtherSteps
    BY <1>6, <1>12, <2>2, OthersLeaveArchiver
  <2>3. QED
    BY <1>9, <1>12, <2>1, <2>2 DEF Next, OtherSteps
<1>13. QED
  BY <1>2, <1>3, <1>12, SteadyStep

-----------------------------------------------------------------------------
LEMMA TodoKnown == WorkInv /\ OrderInv /\ [Next]_vars => \A c \in todo' : Known(c)'
<1> SUFFICES ASSUME WorkInv, OrderInv, [Next]_vars, NEW c \in todo' PROVE Known(c)'
  OBVIOUS
<1>1. /\ TypeOK /\ ReceiptsOK /\ ArchiverOK /\ HandoverOK /\ Stays
      /\ todo \subseteq Contents /\ arch.keys \subseteq Contents
  BY StableStep DEF WorkInv, OrderInv, TypeOK
<1>2. CASE c \in todo
  <2>1. c \in Contents /\ Known(c)
    BY <1>1, <1>2 DEF HandoverOK
  <2>2. QED
    BY <1>1, <2>1 DEF Stays
<1>3. CASE c \notin todo
  <2>1. CASE RepairTodo
    <3>1. c \in arch.keys
      BY <1>3, <2>1 DEF RepairTodo, PublishTodo
    <3>2. QED
      BY <1>1, <3>1 DEF HandoverOK, Stays
  <2>2. CASE PublishNew
    <3>1. c = key[arch.now]
      BY <1>3, <2>2 DEF PublishNew, PublishTodo
    <3>2. c \in Contents /\ Known(c)
      BY <1>1, <2>2, <3>1 DEF PublishNew, ReceiptsOK, ArchiverOK
    <3>3. QED
      BY <1>1, <3>2 DEF Stays
  <2>3. CASE Processor \/ ProcessorDies
    BY <1>3, <2>3
       DEF Processor, ProcessorDies, ProcessStart, Scan, Choose, ProcessEnd, Normalize,
           Reconcile, Claim, HandlerActs, Outcome, RemoveTodo, files
  <2>4. CASE Operator \/ UNCHANGED vars \/ ArchiverDies
             \/ \E n \in Names, d \in Contents : Deliver(n, d)
    BY <1>3, <2>4 DEF Operator, Look, Rule, RuleRefused, ArchiverDies, Deliver, files, vars
  <2>5. CASE Archiver /\ ~RepairTodo /\ ~PublishNew
    BY <1>3, <2>5
       DEF Archiver, ArchiveStart, TodosRepaired, RepairCleanup, Swept, Admit, Select,
           ArchiveEnd, PublishObject, CommitArchive, CheckHandover, Unlink, MarkCleaned, files
  <2>6. QED
    BY <2>1, <2>2, <2>3, <2>4, <2>5 DEF Next
<1>4. QED
  BY <1>2, <1>3

LEMMA OlderStep ==
  WorkInv /\ OrderInv /\ [Next]_vars =>
    \A c, d \in Contents : Known(c)' /\ Known(d)' /\ age'[d] < age'[c] => HandedOver(d)'
<1> SUFFICES ASSUME WorkInv, OrderInv, [Next]_vars, NEW c \in Contents, NEW d \in Contents,
                    Known(c)', Known(d)', age'[d] < age'[c]
             PROVE  HandedOver(d)'
  OBVIOUS
<1>1. OrderOK /\ SelectOK /\ HandoverOK /\ Stays
  BY StableStep DEF OrderInv
<1>2. CASE age' = age /\ \A e \in Contents : Known(e)' <=> Known(e)
  BY <1>1, <1>2 DEF HandoverOK, Stays
<1>3. CASE Steady
  BY <1>2, <1>3 DEF Steady
<1>4. CASE \E batch \in Batches : Admit(batch)
  BY <1>2, <1>4 DEF Admit, Known
<1>5. CASE CommitArchive
  <2>1. /\ arch.now \in Received
        /\ age' \in [Contents -> Nat]
        /\ \A e \in Contents : Known(e) => age'[e] = age[e]
        /\ \A e \in Contents : Known(e)' /\ ~Known(e) =>
             e = arch.hash /\ age'[e] = order[arch.now]
    BY <1>1, <1>5, CommitFacts
  <2>2. \A e \in Contents : Known(e) => age[e] < order[arch.now]
    BY <1>1, <2>1 DEF OrderOK
  <2>3. age'[d] \in Nat /\ age'[c] \in Nat
    BY <2>1
  <2>4. Known(d)
    <3>1. CASE Known(c) /\ ~Known(d)
      BY <2>1, <2>2, <2>3, <3>1
    <3>2. CASE ~Known(c) /\ ~Known(d)
      BY <2>1, <2>3, <3>2
    <3>3. QED
      BY <3>1, <3>2
  <2>5. HandedOver(d)
    BY <1>1, <1>5, <2>4 DEF CommitArchive, HandoverOK
  <2>6. QED
    BY <1>1, <2>5 DEF Stays
<1>6. QED
  BY <1>3, <1>4, <1>5, SteadyStep

\* What the archiver's run has repaired is handed over.
Repaired ==
  /\ \A c \in arch.keys : Known(c)
  /\ arch.at = "todos" => \A c \in Contents : Known(c) => c \in arch.keys \/ HandedOver(c)
  /\ arch.at = "publish" => \A c \in Contents : Known(c) => HandedOver(c) \/ c = key[arch.now]
  /\ arch.at \notin {"idle", "todos", "publish"} =>
       \A c \in Contents : Known(c) => HandedOver(c)

LEMMA RepairedStep == WorkInv /\ OrderInv /\ [Next]_vars => Repaired'
<1> SUFFICES ASSUME WorkInv, OrderInv, [Next]_vars PROVE Repaired'
  OBVIOUS
<1>1. /\ TypeOK /\ ArchiverOK /\ ReceiptsOK /\ OrderOK /\ SelectOK /\ Repaired /\ Stays
      /\ arch.keys \subseteq Contents
  BY StableStep DEF WorkInv, OrderInv, HandoverOK, Repaired, TypeOK
<1>2. CASE arch'.at = "idle" /\ arch'.keys = {}
  BY <1>2 DEF Repaired
<1>3. CASE Steady /\ arch' = arch /\ key' = key
  BY <1>1, <1>3 DEF Repaired, Stays, Steady
<1>4. CASE /\ Steady /\ arch.at \notin {"idle", "todos", "publish"}
           /\ arch'.at \notin {"idle", "todos", "publish"} /\ arch'.keys = arch.keys
  BY <1>1, <1>4 DEF Repaired, Stays, Steady
<1>5. CASE Steady /\ ArchiveStart
  <2>1. arch'.at = "todos" /\ arch'.keys = {c \in Contents : Known(c)}
    BY <1>5 DEF ArchiveStart, IdleArchiver, ToRepair
  <2>2. QED
    BY <1>5, <2>1 DEF Repaired, Steady
<1>6. CASE Steady /\ RepairTodo
  <2>1. PICK d \in arch.keys : PublishTodo(d) /\ arch' = [arch EXCEPT !.keys = @ \ {d}]
    BY <1>6 DEF RepairTodo
  <2>2. arch.at = "todos" /\ arch'.at = "todos" /\ arch'.keys = arch.keys \ {d} /\ work' = work
    BY <1>1, <1>6, <2>1 DEF RepairTodo, TypeOK, ledger
  <2>3. HandedOver(d)'
    BY <1>1, <2>1, <2>2 DEF PublishTodo, HandedOver, Terminal
  <2>4. QED
    BY <1>1, <1>6, <2>2, <2>3 DEF Repaired, Stays, Steady
<1>7. CASE Steady /\ TodosRepaired
  <2>1. /\ arch.at = "todos" /\ arch.keys = {} /\ arch'.at = "sweep" /\ arch'.keys = {}
    BY <1>1, <1>7 DEF TodosRepaired, TypeOK
  <2>2. QED
    BY <1>1, <1>7, <2>1 DEF Repaired, Stays, Steady
<1>8. CASE Steady /\ PublishNew
  <2>1. /\ arch.at = "publish" /\ arch'.at = "check" /\ arch'.keys = arch.keys
        /\ work' = work /\ PublishTodo(key[arch.now])
    BY <1>1, <1>8 DEF PublishNew, TypeOK, ledger
  <2>2. \A c \in Contents : c = key[arch.now] => HandedOver(c)'
    BY <2>1 DEF PublishTodo, HandedOver, Terminal
  <2>3. QED
    BY <1>1, <1>8, <2>1, <2>2 DEF Repaired, Stays, Steady
<1>9. CASE CommitArchive
  <2>1. /\ arch.now \in Received /\ arch.hash \in Contents
        /\ \A e \in Contents : Known(e)' /\ ~Known(e) => e = arch.hash
    BY <1>1, <1>9, CommitFacts
  <2>2. /\ arch.at = "commit" /\ arch'.at = "publish" /\ arch'.keys = arch.keys
        /\ arch'.now = arch.now /\ key' = [key EXCEPT ![arch.now] = arch.hash]
    BY <1>1, <1>9 DEF CommitArchive, TypeOK
  <2>3. key'[arch'.now] = arch.hash
    BY <1>1, <2>1, <2>2 DEF TypeOK, Received
  <2>4. \A c \in Contents : Known(c)' => HandedOver(c)' \/ c = key'[arch'.now]
    BY <1>1, <2>1, <2>2, <2>3 DEF Repaired, Stays
  <2>5. \A c \in arch'.keys : Known(c)'
    BY <1>1, <2>2 DEF Repaired, Stays
  <2>6. QED
    BY <2>2, <2>4, <2>5 DEF Repaired
<1>10. ASSUME NEW batch \in Batches, Admit(batch)
       PROVE  Repaired'
  <2>1. /\ arch.at = "admit" /\ arch'.at = "select" /\ arch'.keys = arch.keys
        /\ \A c \in Contents : Known(c)' <=> Known(c)
    BY <1>1, <1>10 DEF Admit, TypeOK, Known
  <2>2. QED
    BY <1>1, <2>1 DEF Repaired, Stays
<1>11. CASE Steady /\ (ArchiveEnd \/ ArchiverDies)
  BY <1>2, <1>11 DEF ArchiveEnd, ArchiverDies, IdleArchiver
<1>12. CASE Steady /\ (RepairCleanup \/ Swept \/ Select \/ PublishObject)
  <2>1. /\ arch.at \notin {"idle", "todos", "publish"}
        /\ arch'.at \notin {"idle", "todos", "publish"} /\ arch'.keys = arch.keys
    BY <1>1, <1>12 DEF RepairCleanup, Swept, Select, PublishObject, TypeOK
  <2>2. QED
    BY <1>4, <1>12, <2>1
<1>13. CASE Steady /\ (CheckHandover \/ Unlink \/ MarkCleaned)
  <2>1. \/ arch'.at = "idle" /\ arch'.keys = {}
        \/ /\ arch'.at \in {"unlink", "mark", "sweep", "select"}
           /\ arch.at \in {"check", "unlink", "mark"} /\ arch'.keys = arch.keys
    BY <1>1, <1>13, CleanupFacts
  <2>2. QED
    BY <1>2, <1>4, <1>13, <2>1
<1>14. CASE Steady
  <2>1. CASE Archiver
    BY <1>5, <1>6, <1>7, <1>8, <1>9, <1>10, <1>11, <1>12, <1>13, <1>14, <2>1 DEF Archiver
  <2>2. CASE OtherSteps
    BY <1>3, <1>14, <2>2, OthersLeaveArchiver
  <2>3. QED
    BY <1>11, <1>14, <2>1, <2>2 DEF Next, OtherSteps
<1>15. QED
  BY <1>9, <1>10, <1>14, SteadyStep

LEMMA HandoverStep == WorkInv /\ OrderInv /\ [Next]_vars => HandoverOK'
BY TodoKnown, OlderStep, RepairedStep DEF HandoverOK, Repaired

-----------------------------------------------------------------------------
(* The processor's queue.                                                  *)

\* A step keeps the order if it adds nothing to the queue, makes nothing in it fresh, and
\* drops nothing in hand before it is decided.
LEMMA QueueKept ==
  ASSUME WorkInv, OrderInv,
         proc'.keys \cup proc'.queue \subseteq proc.keys \cup proc.queue,
         proc'.at # "scan" => proc'.keys = {},
         age' = age, \A c \in Contents : Known(c)' <=> Known(c),
         \A c \in proc'.keys \cup proc'.queue :
           proc'.at = "scan" \/ work'[c].state = "READY" =>
             proc.at = "scan" \/ work[c].state = "READY",
         \A d \in Contents : InHand(d) => InHand(d)'
  PROVE  QueueOK'
<1>1. QueueOK /\ proc.keys \cup proc.queue \subseteq Contents
  BY DEF OrderInv, WorkInv, TypeOK
<1>2. \A c \in proc'.keys \cup proc'.queue : Known(c)'
  BY <1>1 DEF QueueOK
<1>3. ASSUME NEW c \in proc'.keys \cup proc'.queue,
             proc'.at = "scan" \/ work'[c].state = "READY",
             NEW d \in Contents, Known(d)', age'[d] < age'[c]
      PROVE  InHand(d)'
  <2>1. /\ c \in proc.keys \cup proc.queue
        /\ proc.at = "scan" \/ work[c].state = "READY"
        /\ Known(d) /\ age[d] < age[c]
    BY <1>3
  <2>2. InHand(d)
    BY <1>1, <2>1 DEF QueueOK
  <2>3. QED
    BY <2>2
<1>4. QED
  BY <1>2, <1>3 DEF QueueOK

\* A step that leaves nothing in the queue keeps it in order.
LEMMA QueueEmptied ==
  ASSUME proc'.keys = {}, proc'.queue = {}
  PROVE  QueueOK'
BY DEF QueueOK

LEMMA StartStep == WorkInv /\ OrderInv /\ ProcessStart => QueueOK'
<1> SUFFICES ASSUME WorkInv, OrderInv, ProcessStart PROVE QueueOK'
  OBVIOUS
<1>1. /\ proc'.at = "scan" /\ proc'.keys = todo /\ proc'.queue = {}
      /\ todo' = todo /\ work' = work /\ age' = age
  BY DEF ProcessStart, IdleProcessor, files, ledger
<1>2. HandoverOK /\ todo \subseteq Contents
  BY DEF OrderInv, WorkInv, TypeOK
<1>3. \A c \in todo : Known(c) /\ Known(c)'
  BY <1>1, <1>2 DEF HandoverOK, Known
<1>4. ASSUME NEW c \in todo, NEW d \in Contents, Known(d)', age'[d] < age'[c]
      PROVE  InHand(d)'
  <2>1. HandedOver(d)
    BY <1>1, <1>2, <1>3, <1>4 DEF HandoverOK, Known
  <2>2. QED
    BY <1>1, <2>1 DEF HandedOver, InHand, Terminal
<1>5. QED
  BY <1>1, <1>3, <1>4 DEF QueueOK

LEMMA ScanStep ==
  ASSUME WorkInv, OrderInv, NEW c \in Contents, Scan(c)
  PROVE  QueueOK'
<1>1. /\ proc.at = "scan" /\ proc'.at = "scan" /\ proc'.keys = proc.keys \ {c}
      /\ proc'.queue = IF Terminal(c) THEN proc.queue ELSE proc.queue \cup {c}
      /\ c \in proc.keys /\ work' = work /\ age' = age
  BY DEF Scan, WorkInv, TypeOK, ledger
<1>2. \A d \in Contents : InHand(d) => InHand(d)'
  BY <1>1 DEF InHand, Terminal
<1>3. \A d \in Contents : Known(d)' <=> Known(d)
  BY <1>1 DEF Known
<1>4. QED
  BY <1>1, <1>2, <1>3, QueueKept

LEMMA ChooseStep ==
  ASSUME WorkInv, OrderInv, NEW batch \in Batches, Choose(batch)
  PROVE  QueueOK'
<1>1. /\ proc.at = "scan" /\ proc.keys = {} /\ proc'.at = "next" /\ proc'.keys = {}
      /\ proc'.queue = IF batch = "all" THEN proc.queue
                       ELSE {c \in proc.queue : First(c, proc.queue)}
      /\ work' = work /\ age' = age
  BY DEF Choose, WorkInv, TypeOK, ledger
<1>2. QueueOK /\ proc.queue \subseteq Contents /\ age \in [Contents -> Nat]
  BY DEF OrderInv, OrderOK, WorkInv, TypeOK
<1>3. \A d \in Contents : (Known(d)' <=> Known(d)) /\ (Terminal(d)' <=> Terminal(d))
  BY <1>1 DEF Known, Terminal
<1>4. CASE batch = "all"
  <2>1. \A d \in Contents : InHand(d) => InHand(d)'
    BY <1>1, <1>3, <1>4 DEF InHand
  <2>2. QED
    BY <1>1, <1>3, <1>4, <2>1, QueueKept
<1>5. CASE batch # "all"
  <2>1. ASSUME NEW c \in proc'.queue, work'[c].state = "READY",
               NEW d \in Contents, Known(d)', age'[d] < age'[c]
        PROVE  InHand(d)'
    <3>1. c \in proc.queue /\ First(c, proc.queue) /\ work[c].state = "READY"
      BY <1>1, <1>5, <2>1
    <3>2. \A e \in proc.queue : age[c] <= age[e]
      BY <3>1 DEF First, OldestWork, Recovery
    <3>3. Terminal(d) \/ d \in proc.queue
      BY <1>1, <1>2, <1>3, <2>1, <3>1 DEF QueueOK, InHand
    <3>4. d \notin proc.queue
      BY <1>1, <1>2, <2>1, <3>1, <3>2
    <3>5. QED
      BY <1>3, <3>3, <3>4 DEF InHand
  <2>2. \A c \in proc'.queue : Known(c)'
    BY <1>1, <1>2, <1>3 DEF QueueOK
  <2>3. QED
    BY <1>1, <2>1, <2>2 DEF QueueOK
<1>6. QED
  BY <1>4, <1>5

\* What a turn takes is in hand while it is called and until its TODO is removed.
LEMMA TakeStep ==
  ASSUME WorkInv, OrderInv, Stays, NEW c \in Contents, NEW call, Take(c, call), age' = age,
         \A d \in Contents : Known(d)' <=> Known(d),
         \A d \in Contents : d # c => work'[d] = work[d]
  PROVE  QueueOK'
<1>1. /\ proc.at = "next" /\ proc'.at = "call" /\ proc'.now = c /\ proc'.keys = proc.keys
      /\ proc'.queue = proc.queue \ {c}
  BY DEF Take, WorkInv, TypeOK
<1>2. proc.keys = {} /\ proc.queue \subseteq Contents
  BY <1>1 DEF OrderInv, QueueOK, WorkInv, TypeOK
<1>3. \A d \in Contents : InHand(d) => Terminal(d) \/ d \in proc.queue
  BY <1>1, <1>2 DEF InHand
<1>4. \A d \in Contents : Terminal(d) => Terminal(d)'
  <2>1. \A d \in Contents : Terminal(d) => Known(d)
    BY DEF Terminal, Known, Final
  <2>2. QED
    BY <2>1 DEF Stays
<1>5. \A d \in Contents : InHand(d) => InHand(d)'
  BY <1>1, <1>3, <1>4 DEF InHand
<1>6. \A d \in proc'.queue : work'[d].state = "READY" => work[d].state = "READY"
  BY <1>1, <1>2
<1>7. QED
  BY <1>1, <1>2, <1>5, <1>6, QueueKept

LEMMA OutcomeQueue ==
  ASSUME WorkInv, OrderInv, Stays, Steady, NEW row \in PROCESS, Outcome(row[2], row[3])
  PROVE  QueueOK'
<1>1. TypeOK /\ ProcessorOK /\ QueueOK
  BY DEF WorkInv, OrderInv
<1>2. CASE row[3] \notin Final
  <2>1. proc' = IdleProcessor
    BY <1>2 DEF Outcome
  <2>2. QED
    BY <2>1, QueueEmptied DEF IdleProcessor
<1>3. CASE row[3] \in Final
  <2>1. /\ proc.at = "call" /\ proc'.at = "done" /\ proc'.now = proc.now
        /\ proc'.keys = proc.keys /\ proc'.queue = proc.queue
    BY <1>1, <1>3 DEF Outcome, TypeOK
  <2>2. proc.now \in Contents /\ Move(proc.now, row[2], row[3])
    BY <1>1, <2>1 DEF ProcessorOK, Outcome
  <2>3. /\ \A d \in Contents : d # proc.now => work'[d] = work[d]
        /\ work'[proc.now].state = row[3]
    BY <1>1, <2>2, MoveFacts
  <2>4. row[3] # "READY"
    BY <1>3 DEF Final
  <2>5. /\ proc.keys = {} /\ proc.queue \subseteq Contents
    BY <1>1, <2>1 DEF QueueOK, TypeOK
  <2>6. \A d \in proc'.queue : work'[d].state = "READY" => work[d].state = "READY"
    BY <2>1, <2>3, <2>4, <2>5
  <2>7. \A d \in Contents : InHand(d) => InHand(d)'
    <3>1. \A d \in Contents : Terminal(d) => Terminal(d)'
      <4>1. \A d \in Contents : Terminal(d) => Known(d)
        BY DEF Terminal, Known, Final
      <4>2. QED
        BY <4>1 DEF Stays
    <3>2. QED
      BY <2>1, <3>1 DEF InHand
  <2>8. QED
    BY <2>1, <2>5, <2>6, <2>7, QueueKept DEF Steady
<1>4. QED
  BY <1>2, <1>3

LEMMA RestQueue ==
  ASSUME WorkInv, OrderInv, HandlerActs \/ RemoveTodo
  PROVE  QueueOK'
<1>1. TypeOK /\ ProcessorOK /\ QueueOK
  BY DEF WorkInv, OrderInv
<1>2. work' = work /\ age' = age
  BY DEF HandlerActs, RemoveTodo, ledger
<1>3. \A d \in Contents : (Known(d)' <=> Known(d)) /\ (Terminal(d)' <=> Terminal(d))
  BY <1>2 DEF Known, Terminal
<1>4. CASE HandlerActs
  <2>1. /\ proc.at = "call" /\ proc'.at = "call" /\ proc'.now = proc.now
        /\ proc'.keys = proc.keys /\ proc'.queue = proc.queue
    BY <1>1, <1>4 DEF HandlerActs, TypeOK
  <2>2. \A d \in Contents : InHand(d) => InHand(d)'
    BY <1>3, <2>1 DEF InHand
  <2>3. QED
    BY <1>1, <1>2, <1>3, <2>1, <2>2, QueueKept DEF QueueOK
<1>5. CASE RemoveTodo
  <2>1. /\ proc.at = "done" /\ proc'.at = "next" /\ proc'.keys = proc.keys
        /\ proc'.queue = proc.queue
    BY <1>1, <1>5 DEF RemoveTodo, TypeOK
  <2>2. proc.now \in Contents /\ Terminal(proc.now)
    BY <1>1, <2>1 DEF ProcessorOK
  <2>3. \A d \in Contents : InHand(d) => InHand(d)'
    BY <1>3, <2>1, <2>2 DEF InHand
  <2>4. QED
    BY <1>1, <1>2, <1>3, <2>1, <2>3, QueueKept DEF QueueOK
<1>6. QED
  BY <1>4, <1>5

\* Whoever does not hold process.lock leaves the queue alone; what he adds is younger.
LEMMA OthersQueue ==
  ASSUME WorkInv, OrderInv, Stays, proc' = proc, (Steady /\ work' = work) \/ CommitArchive
  PROVE  QueueOK'
<1>1. /\ TypeOK /\ OrderOK /\ SelectOK /\ QueueOK
      /\ proc.keys \cup proc.queue \subseteq Contents
  BY DEF WorkInv, OrderInv, TypeOK
<1>2. \A d \in Contents : InHand(d) => InHand(d)'
  <2>1. \A d \in Contents : Terminal(d) => Terminal(d)'
    <3>1. \A d \in Contents : Terminal(d) => Known(d)
      BY DEF Terminal, Known, Final
    <3>2. QED
      BY <3>1 DEF Stays
  <2>2. QED
    BY <2>1 DEF InHand
<1>3. CASE Steady /\ work' = work
  BY <1>1, <1>2, <1>3, QueueKept DEF Steady, QueueOK
<1>4. CASE CommitArchive
  <2>1. /\ \A c \in Contents : Known(c) => Known(c)' /\ age'[c] = age[c]
        /\ \A c, d \in Contents : Known(c) /\ Known(d)' /\ age'[d] < age[c] => Known(d)
    BY <1>1, <1>4, CommitFacts, CommitOrder
  <2>2. \A c \in Contents : Known(c) => work'[c] = work[c]
    BY <1>1, <1>4 DEF CommitArchive, TypeOK, Known
  <2>3. \A c \in proc.keys \cup proc.queue : Known(c) /\ Known(c)'
    BY <1>1, <2>1 DEF QueueOK
  <2>4. ASSUME NEW c \in proc.keys \cup proc.queue,
               proc.at = "scan" \/ work'[c].state = "READY",
               NEW d \in Contents, Known(d)', age'[d] < age'[c]
        PROVE  InHand(d)'
    <3>1. Known(d) /\ age[d] < age[c] /\ work'[c] = work[c]
      BY <1>1, <2>1, <2>2, <2>3, <2>4
    <3>2. InHand(d)
      BY <1>1, <2>4, <3>1 DEF QueueOK
    <3>3. QED
      BY <1>2, <3>2
  <2>5. QED
    BY <1>1, <2>3, <2>4 DEF QueueOK
<1>5. QED
  BY <1>3, <1>4

LEMMA QueueStep == WorkInv /\ OrderInv /\ [Next]_vars => QueueOK'
<1> SUFFICES ASSUME WorkInv, OrderInv, [Next]_vars PROVE QueueOK'
  OBVIOUS
<1>1. TypeOK /\ Stays
  BY StableStep DEF WorkInv
<1>2. CASE CommitArchive
  BY <1>1, <1>2, OthersQueue DEF CommitArchive
<1>3. ASSUME NEW batch \in Batches, Admit(batch)
      PROVE  QueueOK'
  <2>1. proc' = proc /\ work' = work /\ age' = age
    BY <1>3 DEF Admit
  <2>2. \A d \in Contents : (Known(d)' <=> Known(d)) /\ (InHand(d)' <=> InHand(d))
    BY <2>1 DEF Known, InHand, Terminal
  <2>3. QED
    BY <2>1, <2>2, QueueKept DEF OrderInv, QueueOK
<1>4. ASSUME Steady PROVE QueueOK'
  <2>1. CASE \/ Archiver /\ ~CommitArchive /\ ~(\E batch \in Batches : Admit(batch))
             \/ ArchiverDies \/ UNCHANGED vars \/ RuleRefused
             \/ (\E c \in Contents : Look(c))
             \/ (\E n \in Names, c \in Contents : Deliver(n, c))
    <3>1. proc' = proc /\ work' = work
      BY <2>1
         DEF Archiver, ArchiveStart, RepairTodo, TodosRepaired, RepairCleanup, Swept, Select,
             ArchiveEnd, PublishObject, PublishNew, CheckHandover, Unlink, MarkCleaned,
             ArchiverDies, vars, RuleRefused, Look, Deliver, ledger
    <3>2. QED
      BY <1>1, <1>4, <3>1, OthersQueue
  <2>2. CASE ProcessEnd \/ ProcessorDies
    <3>1. proc'.keys = {} /\ proc'.queue = {}
      BY <2>2 DEF ProcessEnd, ProcessorDies, IdleProcessor
    <3>2. QED
      BY <3>1, QueueEmptied
  <2>3. ASSUME NEW row \in PROCESS, Rule(row[2], row[3])
        PROVE  QueueOK'
    <3>1. proc'.keys = {} /\ proc'.queue = {}
      BY <2>3 DEF Rule, IdleProcessor
    <3>2. QED
      BY <3>1, QueueEmptied
  <2>4. ASSUME NEW c \in Contents, Normalize(c) \/ Reconcile(c) \/ Claim(c)
        PROVE  QueueOK'
    <3>1. \A d \in Contents : Known(d)' <=> Known(d)
      BY <1>4 DEF Steady
    <3>2. CASE Normalize(c)
      <4>1. Take(c, "reconcile") /\ Move(c, "uncertain", "UNKNOWN") /\ age' = age
        BY <3>2 DEF Normalize
      <4>2. QED
        BY <1>1, <3>1, <4>1, MoveFacts, TakeStep
    <3>3. CASE Claim(c)
      <4>1. Take(c, "process") /\ Move(c, "claim", "RUNNING") /\ age' = age
        BY <3>3 DEF Claim
      <4>2. QED
        BY <1>1, <3>1, <4>1, MoveFacts, TakeStep
    <3>4. CASE Reconcile(c)
      <4>1. Take(c, "reconcile") /\ work' = work /\ age' = age
        BY <3>4 DEF Reconcile, ledger
      <4>2. QED
        BY <1>1, <3>1, <4>1, TakeStep
    <3>5. QED
      BY <2>4, <3>2, <3>3, <3>4
  <2>5. CASE Processor
    BY <1>1, <1>4, <2>2, <2>4, <2>5, StartStep, ScanStep, ChooseStep, OutcomeQueue, RestQueue
       DEF Processor
  <2>6. QED
    BY <1>2, <1>3, <2>1, <2>2, <2>3, <2>5 DEF Next, Operator
<1>5. QED
  BY <1>2, <1>3, <1>4, SteadyStep

-----------------------------------------------------------------------------
\* In every reachable state what is older than the work a processor may claim is decided
\* or in its hands: receipts and work rows are numbered in the order of admission, no row
\* is admitted before what is older is handed over, and the processor drops nothing it
\* has not decided (_select, _repair, process).
THEOREM OrderInvariant == Spec => []OrderInv
<1>1. WorkInv /\ OrderInv /\ [Next]_vars => OrderInv'
  BY OrderStep, SelectStep, HandoverStep, QueueStep DEF OrderInv
<1>2. QED
  BY InitOrder, <1>1, WorkInvariant, PTL DEF Spec

\* Fresh work becomes running by a claim of the processor, and by nothing else.
LEMMA OnlyClaimRuns ==
  ASSUME WorkInv, [Next]_vars, NEW c \in Contents,
         work[c].state = "READY", work'[c].state = "RUNNING"
  PROVE  Claim(c)
<1>1. TypeOK /\ ProcessorOK
  BY DEF WorkInv
<1>2. work' # work
  OBVIOUS
<1>3. ASSUME NEW d \in Contents, NEW event, NEW state, Move(d, event, state)
      PROVE  d = c /\ state = "RUNNING"
  BY <1>1, <1>3, MoveFacts
<1>4. CASE CommitArchive
  BY <1>1, <1>4 DEF CommitArchive, TypeOK, Known
<1>5. ASSUME NEW d \in Contents, Normalize(d)
      PROVE  FALSE
  BY <1>3, <1>5 DEF Normalize
<1>6. ASSUME NEW d \in Contents, Claim(d)
      PROVE  Claim(c)
  BY <1>3, <1>6 DEF Claim
<1>7. ASSUME NEW row \in PROCESS, Outcome(row[2], row[3])
      PROVE  FALSE
  <2>1. proc.now \in Contents /\ work[proc.now].state \in {"RUNNING", "UNKNOWN"}
    BY <1>1, <1>7 DEF Outcome, ProcessorOK, TypeOK
  <2>2. proc.now = c
    BY <1>3, <1>7, <2>1 DEF Outcome
  <2>3. QED
    BY <2>1, <2>2
<1>8. ASSUME NEW row \in PROCESS, Rule(row[2], row[3])
      PROVE  FALSE
  <2>1. saw.key \in Contents /\ Move(saw.key, row[2], row[3]) /\ row[2] # "claim"
    BY <1>1, <1>8 DEF Rule, TypeOK
  <2>2. row[3] = "RUNNING"
    BY <1>3, <2>1
  <2>3. QED
    BY <1>1, <2>1, <2>2, MoveFacts
<1>9. CASE UNCHANGED vars \/ ArchiverDies \/ ProcessorDies
           \/ (\E n \in Names, d \in Contents : Deliver(n, d))
  BY <1>2, <1>9 DEF vars, ledger, ArchiverDies, ProcessorDies, Deliver
<1>10. CASE Archiver /\ ~CommitArchive
  BY <1>2, <1>10
     DEF Archiver, ArchiveStart, RepairTodo, TodosRepaired, RepairCleanup, Swept, Admit,
         Select, ArchiveEnd, PublishObject, PublishNew, CheckHandover, Unlink, MarkCleaned,
         ledger
<1>11. CASE Processor
  <2>1. CASE \/ ProcessStart \/ (\E d \in Contents : Scan(d))
             \/ (\E batch \in Batches : Choose(batch)) \/ ProcessEnd
             \/ (\E d \in Contents : Reconcile(d)) \/ HandlerActs \/ RemoveTodo
    BY <1>2, <2>1
       DEF ProcessStart, Scan, Choose, ProcessEnd, Reconcile, HandlerActs, RemoveTodo, ledger
  <2>2. QED
    BY <1>5, <1>6, <1>7, <1>11, <2>1 DEF Processor
<1>12. CASE Operator
  <2>1. CASE (\E d \in Contents : Look(d)) \/ RuleRefused
    BY <1>2, <2>1 DEF Look, RuleRefused, ledger
  <2>2. QED
    BY <1>8, <1>12, <2>1 DEF Operator
<1>13. QED
  BY <1>4, <1>9, <1>10, <1>11, <1>12 DEF Next

\* Fresh work is claimed only when it is the oldest of the processor's queue.
LEMMA ClaimsOldest ==
  WorkInv /\ OrderInv /\ [Next]_vars =>
    \A c, d \in Contents :
      work[c].state = "READY" /\ work'[c].state = "RUNNING" /\ Known(d) /\ age[d] < age[c]
        => Terminal(d)
<1> SUFFICES ASSUME WorkInv, OrderInv, [Next]_vars, NEW c \in Contents, NEW d \in Contents,
                    work[c].state = "READY", work'[c].state = "RUNNING", Known(d),
                    age[d] < age[c]
             PROVE  Terminal(d)
  OBVIOUS
<1>1. proc.at = "next" /\ c \in proc.queue /\ First(c, proc.queue)
  BY OnlyClaimRuns DEF Claim, Take
<1>2. QueueOK /\ proc.keys = {} /\ age \in [Contents -> Nat]
  BY <1>1 DEF OrderInv, OrderOK, QueueOK
<1>3. Terminal(d) \/ d \in proc.queue
  BY <1>1, <1>2 DEF QueueOK, InHand
<1>4. \A e \in proc.queue : age[c] <= age[e]
  BY <1>1 DEF First, OldestWork, Recovery
<1>5. d \notin proc.queue
  BY <1>2, <1>4
<1>6. QED
  BY <1>3, <1>5

\* Work is handed to the handler, or handed again, only when all that was admitted before
\* it is decided, whoever died and whatever was ruled in between (process, _select).
THEOREM OldestFirstHolds == Spec => OldestFirst
BY ClaimsOldest, WorkInvariant, OrderInvariant, PTL DEF Spec, OldestFirst
=============================================================================
